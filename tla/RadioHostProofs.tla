--------------------------- MODULE RadioHostProofs ---------------------------
(***************************************************************************)
(* What the host may rely on: where the radio is between two requests,     *)
(* that its answers are true, that the T114's files follow its memory,     *)
(* that a reception the guard has timed survives, and that what loop()     *)
(* serves is a new reception.  Each is proved from an inductive invariant  *)
(* of its own, relative to SafetyInv.                                      *)
(***************************************************************************)
EXTENDS RadioSafetyProofs

\* The reset of dio1Flag and the groups of variables that the actions leave alone
\* are always expanded.
USE DEF EdgeForgotten, vars, fwVars, guardVars, nvVars, hostVars, airVars, faultVars, chipOnly

\* What the chip operations do to the frame in the air.
LEMMA StandbyLemma ==
    ASSUME NEW c \in ChipStates
    PROVE  /\ Standby(c) \in ChipStates /\ Standby(c).mode = "STDBY"
           /\ Standby(c).air = Silence /\ Standby(c).irq = c.irq /\ Standby(c).buf = c.buf
BY DEF Standby, ChipStates, AirStates, Silence

LEMMA EnterLemma ==
    ASSUME NEW c \in ChipStates, NEW m \in {"STDBY", "RX", "CAD", "TX"}
    PROVE  /\ Enter(c, m) \in ChipStates /\ Enter(c, m).mode = m
           /\ Enter(c, m).air = Silence /\ Enter(c, m).irq = {} /\ Enter(c, m).buf = c.buf
BY DEF Enter, ChipStates, AirStates, Silence

LEMMA ClearLemma ==
    ASSUME NEW c \in ChipStates, NEW flags \in SUBSET IrqFlags
    PROVE  /\ ClearIrq(c, flags) \in ChipStates /\ ClearIrq(c, flags).mode = c.mode
           /\ ClearIrq(c, flags).air = c.air /\ ClearIrq(c, flags).irq = c.irq \ flags
           /\ ClearIrq(c, flags).buf = c.buf
BY DEF ClearIrq, ChipStates, AirStates

\* applyConfig() leaves the chip alone or in standby with the air lost; a success
\* is the latter.
LEMMA ApplyAir ==
    ASSUME NEW cfg \in Configs, NEW c \in ChipStates, NEW spent \in 0 .. MaxFaults,
           NEW r \in ApplyResults(cfg, c, spent)
    PROVE  /\ r.chip = c \/ (r.chip.mode = "STDBY" /\ r.chip.air = Silence)
           /\ r.ok => r.chip.mode = "STDBY" /\ r.chip.air = Silence
PROOF
  <1> DEFINE whole == [Standby(c) EXCEPT !.cfg = cfg]
             half == [Standby(c) EXCEPT !.cfg = PartialConfig]
  <1>1. /\ whole.mode = "STDBY" /\ whole.air = Silence
        /\ half.mode = "STDBY" /\ half.air = Silence
    BY DEF Standby, ChipStates, AirStates, Silence
  <1>2. \/ r = [ok |-> TRUE, chip |-> whole, faults |-> spent + 0]
        \/ r = [ok |-> FALSE, chip |-> half, faults |-> spent + 1]
        \/ r = [ok |-> FALSE, chip |-> half, faults |-> spent + 0]
        \/ r = [ok |-> FALSE, chip |-> c, faults |-> spent + 1]
    BY DEF ApplyResults
  <1> HIDE DEF whole, half
  <1>3. \/ r.ok = TRUE /\ r.chip = whole
        \/ r.ok = FALSE /\ r.chip \in {half, c}
    BY <1>2
  <1> QED
    BY <1>1, <1>3
-----------------------------------------------------------------------------
(* Placement.                                                              *)

\* A frame is in the air only while the chip listens.
AirWhileListening == chip.air # Silence => chip.mode = "RX"

\* A radio that is to listen does so at every point of loop().  In the auto-CAD
\* loop it may be out of RX, but then no flag can turn its next guard to busy.
Listening ==
    /\ radioReady => chip.mode # "OFF"
    /\ pc = "stbyAck" => radioStandby
    /\ pc \in LoopPcs \cup {"acadAck"} /\ radioReady /\ placed /\ ~radioStandby
       /\ radioTxReady => chip.mode = "RX"
    /\ pc = "acGuard" /\ placed /\ ~radioStandby =>
        chip.mode = "RX" \/ chip.irq \cap {"PREAMBLE", "HEADER"} = {}

\* The external LNA follows the radio at every point, not only between requests.
FrontEndHeld ==
    /\ chip.mode = "TX" => ~rf.lna
    /\ board # "v43" => (rf.lna => rf.inReceive)
    /\ board # "v43" /\ radioStandby => ~rf.inReceive

\* While a scan is awaited only its own flags can be latched, and none of them
\* before it ends.
ScanFlags ==
    pc \in {"acWait", "cadWait"} =>
        /\ chip.mode \in {"CAD", "STDBY"}
        /\ chip.irq \subseteq {"CAD_DONE", "CAD_DETECTED"}
        /\ chip.mode = "CAD" => chip.irq = {}

PlacementInv == AirWhileListening /\ Listening /\ FrontEndHeld /\ ScanFlags

\* What startReceive() and applyConfig() leave behind.
Resettled ==
    /\ chip'.buf = chip.buf
    /\ \/ chip' = chip
       \/ chip'.mode \in {"STDBY", "RX"} /\ chip'.air = Silence
    /\ placed' /\ ~radioStandby' /\ radioTxReady' => chip'.mode = "RX"
    /\ placed' /\ chip'.air # Silence => placed /\ chip' = chip /\ ~radioTxReady'
    /\ FrontEndHeld'

\* The front end f may be handed to startReceive() in hard standby or out of it.
Presentable(f, standby) ==
    /\ f \in FrontEndStates
    /\ board # "v43" => (f.lna => f.inReceive) /\ (standby => ~f.inReceive)

\* Bypassing the LNA makes any front end presentable, and the front end of a state
\* of the invariant is.
LEMMA PresentableLemma ==
    ASSUME rf \in FrontEndStates, FrontEndHeld
    PROVE  /\ Presentable(rf, radioStandby)
           /\ Presentable(BypassedFrontEnd(rf), radioStandby)
           /\ ~BypassedFrontEnd(rf).lna
BY DEF Presentable, FrontEndHeld, BypassedFrontEnd, FrontEndStates

\* startReceive() from c, which is the chip as it was or one taken to standby.
LEMMA Resettles ==
    ASSUME NEW c \in ChipStates, NEW f, NEW standby \in BOOLEAN, NEW spent,
           StartReceive(c, f, standby, spent),
           Presentable(f, standby), board' = board, radioStandby' = standby,
           c.buf = chip.buf, c.mode # "TX",
           \/ c = chip /\ AirWhileListening /\ (standby /\ placed => chip.mode # "RX")
           \/ c.mode = "STDBY" /\ c.air = Silence
    PROVE  Resettled
PROOF
  <1>1. CASE standby /\ chip' = c /\ rf' = f /\ placed' = placed
    BY <1>1 DEF Resettled, FrontEndHeld, Presentable, AirWhileListening
  <1>2. CASE ~standby /\ rf' = ReceiveFrontEnd(f) /\ chip' = Enter(c, "RX") /\ placed' = TRUE
    <2>1. chip'.mode = "RX" /\ chip'.air = Silence /\ chip'.buf = chip.buf
      BY <1>2, StandbyLemma, EnterLemma, ClearLemma
    <2>2. rf'.inReceive
      BY <1>2 DEF Presentable, ReceiveFrontEnd, FrontEndStates
    <2> QED
      BY <1>2, <2>1, <2>2 DEF Resettled, FrontEndHeld
  <1>3. CASE ~standby /\ rf' = ReceiveFrontEnd(f) /\ chip' = c /\ placed' = FALSE
    <2>1. rf'.inReceive
      BY <1>3 DEF Presentable, ReceiveFrontEnd, FrontEndStates
    <2> QED
      BY <1>3, <2>1 DEF Resettled, FrontEndHeld
  <1> QED
    BY <1>1, <1>2, <1>3 DEF StartReceive, EnterReceive, StayParked

\* The chip and the front end of a state of the invariant, for the lemmas below.
LEMMA ResettleFacts ==
    ASSUME SafetyInv, PlacementInv
    PROVE  /\ chip \in ChipStates /\ rf \in FrontEndStates /\ faults \in 0 .. MaxFaults
           /\ currentConfig \in Configs /\ radioStandby \in BOOLEAN
           /\ AirWhileListening /\ FrontEndHeld
           /\ radioStandby /\ placed => chip.mode # "RX"
           /\ chip.mode = "TX" => pc \in {"txWait", "txFinish"}
           /\ Standby(chip) \in ChipStates /\ Standby(chip).mode = "STDBY"
           /\ Standby(chip).air = Silence /\ Standby(chip).buf = chip.buf
           /\ FinishTransmit(chip) \in ChipStates /\ FinishTransmit(chip).mode = "STDBY"
           /\ FinishTransmit(chip).air = Silence /\ FinishTransmit(chip).buf = chip.buf
PROOF
  <1>1. chip \in ChipStates /\ rf \in FrontEndStates /\ faults \in 0 .. MaxFaults
        /\ currentConfig \in Configs /\ radioStandby \in BOOLEAN
    BY DEF SafetyInv, TypeInv, TypeOK
  <1>2. /\ AirWhileListening /\ FrontEndHeld
        /\ radioStandby /\ placed => chip.mode # "RX"
        /\ chip.mode = "TX" => pc \in {"txWait", "txFinish"}
    BY DEF SafetyInv, ChipModes, PlacementInv
  <1> QED
    BY <1>1, <1>2, StandbyLemma, EnterLemma, ClearLemma DEF FinishTransmit

\* applyConfig() from c, then startReceive() or, if the code gives up, nothing.
LEMMA AppliedResettles ==
    ASSUME SafetyInv, PlacementInv, NEW c \in ChipStates, NEW f,
           NEW standby \in BOOLEAN, NEW cfg \in Configs,
           NEW a \in ApplyResults(cfg, c, faults),
           radioTxReady' = a.ok,
           \/ StartReceive(a.chip, f, standby, a.faults)
           \/ ~a.ok /\ chip' = a.chip /\ rf' = f /\ placed' = placed,
           Presentable(f, standby), board' = board, radioStandby' = standby,
           c.buf = chip.buf, c.mode # "TX",
           \/ c = chip /\ AirWhileListening /\ (standby /\ placed => chip.mode # "RX")
           \/ c.mode = "STDBY" /\ c.air = Silence
    PROVE  Resettled
PROOF
  <1>1. faults \in 0 .. MaxFaults
    BY DEF SafetyInv, TypeInv, TypeOK
  <1>2. /\ a.chip \in ChipStates /\ a.chip.buf = chip.buf /\ a.chip.mode # "TX"
        /\ a.chip = c \/ (a.chip.mode = "STDBY" /\ a.chip.air = Silence)
    BY <1>1, ApplyLemma, ApplyAir
  <1>3. CASE StartReceive(a.chip, f, standby, a.faults)
    BY <1>2, <1>3, Resettles
  <1>4. CASE ~a.ok /\ chip' = a.chip /\ rf' = f /\ placed' = placed
    BY <1>2, <1>4 DEF Resettled, FrontEndHeld, Presentable, AirWhileListening
  <1> QED
    BY <1>3, <1>4

\* Re-arming, the way out of auto-CAD and CMD_RX_START restart the chip as it is.
LEMMA RestartsResettle ==
    ASSUME SafetyInv, PlacementInv, Rearm \/ AcFail \/ RxStart
    PROVE  Resettled
PROOF
  <1>1. /\ StartReceive(chip, rf, radioStandby, faults)
        /\ board' = board /\ radioStandby' = radioStandby
        /\ pc \notin {"txWait", "txFinish"}
    BY DEF Rearm, AcFail, RxStart
  <1> QED
    BY <1>1, Resettles, PresentableLemma, ResettleFacts

\* Maintenance restarts it from standby, or as it is when standby() failed.
LEMMA MaintenanceResettles ==
    ASSUME SafetyInv, PlacementInv, (AgcRun /\ ~dio1Flag) \/ AgcRestart
    PROVE  Resettled
PROOF
  <1>1. PICK c \in {chip, Standby(chip)}, f \in {rf, BypassedFrontEnd(rf)},
             spent \in {faults, faults + 1} :
             /\ StartReceive(c, f, radioStandby, spent)
             /\ board' = board /\ radioStandby' = radioStandby
             /\ pc \notin {"txWait", "txFinish"}
    BY DEF AgcRun, AgcRestart
  <1> QED
    BY <1>1, Resettles, PresentableLemma, ResettleFacts

\* A transmission or a scan that would not start ends in startReceive().
LEMMA FailedStartsResettle ==
    ASSUME SafetyInv, PlacementInv, TxStage \/ CadStage, pc' = "host"
    PROVE  Resettled
PROOF
  <1>1. PICK c \in {FinishTransmit(chip), Standby(chip)}, f \in {rf, BypassedFrontEnd(rf)} :
             /\ StartReceive(c, f, radioStandby, faults + 1)
             /\ board' = board /\ radioStandby' = radioStandby
    BY DEF TxStage, CadStage
  <1> QED
    BY <1>1, Resettles, PresentableLemma, ResettleFacts

\* The end of a transmission, whether or not it needed the recovery.
LEMMA TxFinishResettles ==
    ASSUME SafetyInv, PlacementInv, TxFinish
    PROVE  Resettled
PROOF
  <1> DEFINE c == FinishTransmit(chip)
  <1>1. board' = board /\ radioStandby' = radioStandby
    BY DEF TxFinish
  <1>2. /\ c \in ChipStates /\ c.mode = "STDBY" /\ c.air = Silence /\ c.buf = chip.buf
        /\ Presentable(rf, radioStandby) /\ radioStandby \in BOOLEAN
        /\ currentConfig \in Configs
    BY PresentableLemma, ResettleFacts
  <1> HIDE DEF c
  <1>3. CASE txOk
    <2>1. StartReceive(c, rf, radioStandby, faults)
      BY <1>3 DEF TxFinish, c
    <2> QED
      BY <1>1, <1>2, <2>1, Resettles
  <1>4. CASE ~txOk
    <2>1. PICK a \in ApplyResults(currentConfig, c, faults) :
            radioTxReady' = a.ok /\ StartReceive(a.chip, rf, radioStandby, a.faults)
      BY <1>4 DEF TxFinish, c
    <2> QED
      BY <1>1, <1>2, <2>1, AppliedResettles
  <1> QED
    BY <1>3, <1>4

\* The answer to CMD_CAD_REQUEST, whether or not the scan ended.
LEMMA CadPollResettles ==
    ASSUME SafetyInv, PlacementInv, CadPoll
    PROVE  Resettled
PROOF
  <1> DEFINE s == Standby(chip)
             c == ClearIrq(chip, {"CAD_DONE", "CAD_DETECTED"})
  <1>1. board' = board /\ radioStandby' = radioStandby
    BY DEF CadPoll
  <1>2. /\ s \in ChipStates /\ s.mode = "STDBY" /\ s.air = Silence /\ s.buf = chip.buf
        /\ Presentable(rf, radioStandby) /\ radioStandby \in BOOLEAN
        /\ currentConfig \in Configs /\ chip \in ChipStates /\ AirWhileListening
    BY PresentableLemma, ResettleFacts
  <1>3. c \in ChipStates /\ c.mode = chip.mode /\ c.air = chip.air /\ c.buf = chip.buf
    <2>1. {"CAD_DONE", "CAD_DETECTED"} \in SUBSET IrqFlags
      BY DEF IrqFlags
    <2> QED
      BY <1>2, <2>1, StandbyLemma, EnterLemma, ClearLemma
  <1> HIDE DEF c, s
  <1>4. CASE "CAD_DONE" \in chip.irq
    <2>1. StartReceive(c, rf, radioStandby, faults)
      BY <1>4 DEF CadPoll, c
    <2>2. chip.mode = "STDBY"
      BY <1>4 DEF PlacementInv, ScanFlags, CadPoll
    <2>3. c.mode = "STDBY" /\ c.air = Silence
      BY <1>2, <1>3, <2>2 DEF AirWhileListening
    <2> QED
      BY <1>1, <1>2, <1>3, <2>1, <2>3, Resettles
  <1>5. CASE "CAD_DONE" \notin chip.irq
    <2>1. PICK a \in ApplyResults(currentConfig, s, faults) :
            radioTxReady' = a.ok /\ StartReceive(a.chip, rf, radioStandby, a.faults)
      BY <1>5 DEF CadPoll, s
    <2> QED
      BY <1>1, <1>2, <2>1, AppliedResettles
  <1> QED
    BY <1>4, <1>5

\* CMD_SET_CONFIG and the second half of CMD_RADIO_RESUME.
LEMMA ConfigurationResettles ==
    ASSUME SafetyInv, PlacementInv, SetConfig \/ ResumeApply
    PROVE  Resettled
PROOF
  <1>1. PICK cfg \in Configs : \E a \in ApplyResults(cfg, chip, faults) :
            /\ radioTxReady' = a.ok
            /\ \/ StartReceive(a.chip, rf, radioStandby, a.faults)
               \/ ~a.ok /\ chip' = a.chip /\ rf' = rf /\ placed' = placed
    BY ResettleFacts DEF SetConfig, ResumeApply
  <1>2. PICK a \in ApplyResults(cfg, chip, faults) :
            /\ radioTxReady' = a.ok
            /\ \/ StartReceive(a.chip, rf, radioStandby, a.faults)
               \/ ~a.ok /\ chip' = a.chip /\ rf' = rf /\ placed' = placed
    BY <1>1
  <1>3. /\ board' = board /\ radioStandby' = radioStandby
        /\ pc \notin {"txWait", "txFinish"}
    BY DEF SetConfig, ResumeApply
  <1>4. cfg \in Configs
    BY <1>1
  <1> QED
    BY <1>2, <1>3, <1>4, AppliedResettles, PresentableLemma, ResettleFacts

\* setup() with a radio: from standby, with the front end of begin().
LEMMA BootRadioResettles ==
    ASSUME SafetyInv, PlacementInv, BootRadio
    PROVE  Resettled /\ chip'.mode # "OFF"
PROOF
  <1> DEFINE s == Standby(chip)
  <1>1. board' = board /\ radioStandby' \in BOOLEAN
    BY DEF BootRadio, Restored
  <1>2. /\ s \in ChipStates /\ s.mode = "STDBY" /\ s.air = Silence /\ s.buf = chip.buf
        /\ rf \in FrontEndStates /\ currentConfig \in Configs
    BY ResettleFacts
  <1>3. Presentable(BootFrontEnd, radioStandby')
    BY <1>2 DEF Presentable, BootFrontEnd, FrontEndStates
  <1> HIDE DEF s
  <1>4. PICK a \in ApplyResults(currentConfig, s, faults) :
            /\ radioTxReady' = a.ok
            /\ \/ StartReceive(a.chip, BootFrontEnd, radioStandby', a.faults)
               \/ ~a.ok /\ chip' = a.chip /\ rf' = BootFrontEnd /\ placed' = placed
    BY DEF BootRadio, s
  <1>5. Resettled
    BY <1>1, <1>2, <1>3, <1>4, AppliedResettles
  <1>6. /\ faults \in 0 .. MaxFaults /\ placed \in BOOLEAN
        /\ BootFrontEnd \in FrontEndStates
    BY <1>3, ResettleFacts DEF SafetyInv, TypeInv, TypeOK, Presentable
  <1>7. a.chip \in ChipStates /\ a.chip.mode = "STDBY"
    BY <1>2, <1>4, <1>6, ApplyLemma, ApplyAir
  <1>8. chip' \in {a.chip, Enter(a.chip, "RX")}
    BY <1>4 DEF StartReceive, EnterReceive, StayParked
  <1> QED
    BY <1>5, <1>7, <1>8, ChipLemma

\* What startReceive() leaves behind keeps the invariant, wherever it goes next.
LEMMA ResettledPlaces ==
    ASSUME PlacementInv, Resettled, pc' \in {"irq", "host", "halted"},
           radioReady' => radioReady \/ chip'.mode # "OFF"
    PROVE  PlacementInv'
PROOF
  <1>1. AirWhileListening' /\ FrontEndHeld'
    BY DEF PlacementInv, AirWhileListening, Resettled
  <1>2. Listening' /\ ScanFlags'
    BY DEF PlacementInv, Listening, ScanFlags, Resettled, LoopPcs
  <1> QED
    BY <1>1, <1>2 DEF PlacementInv

\* setup() keeps the radio placed.
LEMMA BootPlaces ==
    ASSUME SafetyInv, PlacementInv, Boot
    PROVE  PlacementInv'
PROOF
  <1>1. CASE BootRadio
    <2>1. pc' \in {"irq", "halted"}
      BY <1>1 DEF BootRadio
    <2> QED
      BY <1>1, <2>1, BootRadioResettles, ResettledPlaces
  <1>2. CASE BootWithoutRadio
    <2>1. ~radioReady /\ chip.mode = "OFF"
      BY <1>2 DEF BootWithoutRadio, SafetyInv, ChipModes, PlacementInv, Listening
    <2>2. rf \in FrontEndStates
      BY ResettleFacts
    <2>3. AirWhileListening' /\ Listening' /\ ScanFlags'
      BY <1>2, <2>1 DEF BootWithoutRadio, PlacementInv, AirWhileListening, Listening,
         ScanFlags, LoopPcs
    <2>4. FrontEndHeld'
      BY <1>2, <2>1, <2>2 DEF BootWithoutRadio, FrontEndHeld, BootFrontEnd, FrontEndStates
    <2> QED
      BY <2>3, <2>4 DEF PlacementInv
  <1> QED
    BY <1>1, <1>2 DEF Boot

\* Steps that touch neither the chip nor the front end keep the radio placed.
LEMMA QuietPlaces ==
    ASSUME PlacementInv,
           \/ HostDone \/ MaintIdle \/ AnswerOnly \/ TxWait \/ NvWrite
           \/ Acknowledge \/ RadioResume \/ SetAutoCad
           \/ AgcRun /\ dio1Flag
    PROVE  PlacementInv'
PROOF
  <1>1. chip' = chip /\ rf' = rf /\ board' = board
    BY DEF HostDone, MaintIdle, AnswerOnly, TxWait, NvWrite, Acknowledge, RadioResume,
       SetAutoCad, AgcRun
  <1>2. /\ placed' = placed /\ radioReady' = radioReady /\ radioTxReady' = radioTxReady
        /\ radioStandby' = radioStandby \/ (~radioStandby' /\ pc' = "resApply")
    BY DEF HostDone, MaintIdle, AnswerOnly, TxWait, NvWrite, Acknowledge, RadioResume,
       SetAutoCad, AgcRun
  <1>3. /\ pc' \notin {"acGuard", "acWait", "cadWait", "stbyAck"} \/ pc' = pc
        /\ pc' \in LoopPcs \cup {"acadAck"} =>
             pc \in LoopPcs \cup {"acadAck"} \/ pc = "stbyAck" \/ pc' = pc
    BY DEF HostDone, MaintIdle, AnswerOnly, TxWait, NvWrite, Acknowledge, RadioResume,
       SetAutoCad, AgcRun, LoopPcs
  <1>4. AirWhileListening' /\ FrontEndHeld'
    BY <1>1, <1>2 DEF PlacementInv, AirWhileListening, FrontEndHeld
  <1>5. Listening' /\ ScanFlags'
    BY <1>1, <1>2, <1>3 DEF PlacementInv, Listening, ScanFlags, LoopPcs
  <1> QED
    BY <1>4, <1>5 DEF PlacementInv

\* A change of the LNA setting keeps the front end with the radio.
LEMMA SetLnaPlaces ==
    ASSUME SafetyInv, PlacementInv, SetLna
    PROVE  PlacementInv'
PROOF
  <1>1. rf \in FrontEndStates /\ chip.mode # "TX"
    BY ResettleFacts DEF SetLna
  <1>2. FrontEndHeld'
    BY <1>1 DEF PlacementInv, FrontEndHeld, SetLna, FrontEndStates
  <1>3. AirWhileListening' /\ Listening' /\ ScanFlags'
    BY DEF PlacementInv, AirWhileListening, Listening, ScanFlags, SetLna
  <1> QED
    BY <1>2, <1>3 DEF PlacementInv

\* isReceivingPacket() clears flags and changes nothing else of the chip.
LEMMA GuardAir ==
    ASSUME NEW busyPc, NEW clearPc, SafetyInv, Guard(busyPc, clearPc)
    PROVE  /\ chip'.mode = chip.mode /\ chip'.air = chip.air /\ chip'.buf = chip.buf
           /\ chip'.irq = chip.irq \ StaleFlags
           /\ Receiving => chip'.irq = chip.irq /\ chip.irq \cap {"PREAMBLE", "HEADER"} # {}
           /\ pc' = IF Receiving THEN busyPc ELSE clearPc
PROOF
  <1>1. StaleFlags \in SUBSET IrqFlags /\ (Receiving => StaleFlags = {})
    BY DEF StaleFlags, IrqFlags
  <1>2. chip \in ChipStates /\ chip' = ClearIrq(chip, StaleFlags)
    BY DEF SafetyInv, TypeInv, TypeOK, Guard
  <1>3. Receiving => chip.irq \cap {"PREAMBLE", "HEADER"} # {}
    BY DEF Receiving, HeaderLatched, LonePreamble
  <1>4. /\ chip'.mode = chip.mode /\ chip'.air = chip.air /\ chip'.buf = chip.buf
        /\ chip'.irq = chip.irq \ StaleFlags
    BY <1>1, <1>2, ClearLemma
  <1>5. pc' = IF Receiving THEN busyPc ELSE clearPc
    BY DEF Guard
  <1>6. Receiving => chip'.irq = chip.irq
    BY <1>1, <1>4
  <1> QED
    BY <1>3, <1>4, <1>5, <1>6

\* The guards of the four requests keep the radio placed.
LEMMA GuardsPlace ==
    ASSUME SafetyInv, PlacementInv, AgcGuard \/ TxRequest \/ AcGuard \/ CadRequest
    PROVE  PlacementInv'
PROOF
  <1>1. PICK busyPc \in {"irq", "host"}, clearPc \in {"agc", "acGuard", "txStage", "acScan", "cadStage"} :
            /\ Guard(busyPc, clearPc)
            /\ rf' = rf /\ board' = board /\ placed' = placed
            /\ radioReady' = radioReady /\ radioStandby' = radioStandby
            /\ radioTxReady' = radioTxReady
            /\ pc \in {"maint", "host"} \/ (pc = "acGuard" /\ clearPc = "acScan")
            /\ clearPc = "acGuard" => radioReady /\ radioTxReady /\ pc = "host"
    BY DEF AgcGuard, TxRequest, AcGuard, CadRequest, MayTransmit
  <1>2. /\ chip'.mode = chip.mode /\ chip'.air = chip.air
        /\ Receiving => chip.irq \cap {"PREAMBLE", "HEADER"} # {}
        /\ pc' = IF Receiving THEN busyPc ELSE clearPc
    BY <1>1, GuardAir
  <1>3. AirWhileListening' /\ FrontEndHeld'
    BY <1>1, <1>2 DEF PlacementInv, AirWhileListening, FrontEndHeld
  <1>4. ScanFlags'
    BY <1>1, <1>2 DEF ScanFlags
  <1>5. Listening'
    BY <1>1, <1>2 DEF PlacementInv, Listening, LoopPcs
  <1> QED
    BY <1>3, <1>4, <1>5 DEF PlacementInv

\* Serving DIO1 leaves the radio where it is.
LEMMA LoopIrqPlaces ==
    ASSUME SafetyInv, PlacementInv, LoopIrq
    PROVE  PlacementInv'
PROOF
  <1>1. chip \in ChipStates /\ IrqFlags \in SUBSET IrqFlags
    BY ResettleFacts
  <1>2. chip'.mode = chip.mode /\ chip'.air = chip.air
    BY <1>1, StandbyLemma, EnterLemma, ClearLemma DEF LoopIrq
  <1>3. AirWhileListening' /\ FrontEndHeld' /\ ScanFlags'
    BY <1>2 DEF LoopIrq, PlacementInv, AirWhileListening, FrontEndHeld, ScanFlags
  <1>4. Listening'
    BY <1>2 DEF LoopIrq, PlacementInv, Listening, LoopPcs
  <1> QED
    BY <1>3, <1>4 DEF PlacementInv

\* The auto-CAD loop takes the chip out of RX without a flag that could hold its
\* next guard.
LEMMA ScansPlace ==
    ASSUME SafetyInv, PlacementInv, AcScan \/ AcPoll \/ (CadStage /\ pc' = "cadWait")
    PROVE  PlacementInv'
PROOF
  <1>1. /\ chip \in ChipStates /\ {"CAD_DONE", "CAD_DETECTED"} \in SUBSET IrqFlags
        /\ AirWhileListening
    BY ResettleFacts DEF IrqFlags
  <1>2. /\ rf' = rf /\ board' = board /\ radioStandby' = radioStandby
        /\ radioReady' = radioReady
    BY DEF AcScan, AcPoll, CadStage
  <1>3. CASE chip' = Enter(chip, "CAD") /\ pc' \in {"acWait", "cadWait"}
    <2>1. chip'.mode = "CAD" /\ chip'.irq = {} /\ chip'.air = Silence
      BY <1>1, <1>3, StandbyLemma, EnterLemma, ClearLemma
    <2> QED
      BY <1>2, <1>3, <2>1 DEF PlacementInv, AirWhileListening, Listening, FrontEndHeld,
         ScanFlags, LoopPcs
  <1>4. CASE chip' \in {chip, Standby(chip)} /\ pc' = "acFail"
    <2>1. \/ chip' = chip
          \/ chip'.mode = "STDBY" /\ chip'.air = Silence
      BY <1>1, <1>4, StandbyLemma, EnterLemma, ClearLemma
    <2> QED
      BY <1>2, <1>4, <2>1 DEF PlacementInv, AirWhileListening, Listening, FrontEndHeld,
         ScanFlags, LoopPcs
  <1>5. CASE AcPoll
    <2>1. /\ chip.mode \in {"CAD", "STDBY"} /\ chip.irq \subseteq {"CAD_DONE", "CAD_DETECTED"}
          /\ chip' = ClearIrq(chip, {"CAD_DONE", "CAD_DETECTED"})
          /\ pc' \in {"txStage", "acGuard", "acFail"}
      BY <1>5 DEF AcPoll, PlacementInv, ScanFlags
    <2>2. chip'.mode = chip.mode /\ chip'.irq = {} /\ chip'.air = chip.air
      BY <1>1, <2>1, StandbyLemma, EnterLemma, ClearLemma
    <2> QED
      BY <1>2, <2>1, <2>2 DEF PlacementInv, AirWhileListening, Listening, FrontEndHeld,
         ScanFlags, LoopPcs
  <1> QED
    BY <1>3, <1>4, <1>5 DEF AcScan, CadStage

\* A transmission starts with the LNA bypassed.
LEMMA TxStartPlaces ==
    ASSUME SafetyInv, PlacementInv, TxStage, pc' = "txWait"
    PROVE  PlacementInv'
PROOF
  <1>1. /\ chip' = Enter(chip, "TX") /\ rf' = BypassedFrontEnd(rf)
        /\ board' = board /\ radioStandby' = radioStandby /\ radioReady' = radioReady
    BY DEF TxStage
  <1>2. chip \in ChipStates /\ Presentable(rf', radioStandby) /\ ~rf'.lna
    BY <1>1, ResettleFacts, PresentableLemma
  <1>3. chip'.mode = "TX" /\ chip'.air = Silence
    BY <1>1, <1>2, StandbyLemma, EnterLemma, ClearLemma
  <1> QED
    BY <1>1, <1>2, <1>3 DEF PlacementInv, AirWhileListening, Listening, FrontEndHeld,
       ScanFlags, LoopPcs, Presentable

\* CMD_RADIO_STANDBY and a reboot bypass the LNA and leave RX, or a driver failed.
LEMMA HeldPlaces ==
    ASSUME SafetyInv, PlacementInv, RadioStandby \/ Reboot
    PROVE  PlacementInv'
PROOF
  <1>1. chip \in ChipStates /\ Presentable(BypassedFrontEnd(rf), TRUE)
        /\ ~BypassedFrontEnd(rf).lna
    BY ResettleFacts DEF BypassedFrontEnd, Presentable, FrontEndStates
  <1>2. rf' = BypassedFrontEnd(rf) /\ board' = board
    BY DEF RadioStandby, Reboot
  <1>3. FrontEndHeld'
    BY <1>1, <1>2 DEF FrontEndHeld, Presentable
  <1>4. CASE RadioStandby
    <2>1. chip' = chip \/ (chip'.mode = "STDBY" /\ chip'.air = Silence)
      BY <1>1, <1>4, StandbyLemma, EnterLemma, ClearLemma DEF RadioStandby
    <2>2. AirWhileListening' /\ Listening' /\ ScanFlags'
      BY <1>4, <2>1 DEF RadioStandby, PlacementInv, AirWhileListening, Listening, ScanFlags,
         LoopPcs
    <2> QED
      BY <1>3, <2>2 DEF PlacementInv
  <1>5. CASE Reboot
    <2>1. chip'.mode = "OFF" /\ chip'.air = Silence
      BY <1>5 DEF Reboot, PoweredOff, Silence
    <2>2. AirWhileListening' /\ Listening' /\ ScanFlags'
      BY <1>5, <2>1 DEF Reboot, AirWhileListening, Listening, ScanFlags, LoopPcs
    <2> QED
      BY <1>3, <2>2 DEF PlacementInv
  <1> QED
    BY <1>4, <1>5

\* What the chip does by itself, as the rest of the state sees it.
LEMMA AirSteps ==
    ASSUME SafetyInv, AirWhileListening, Air \/ Chip \/ Tick
    PROVE  /\ UNCHANGED <<pc, board, fwVars, rf, nvVars, reply, delivered, faultVars>>
           /\ \/ chip'.mode = chip.mode /\ chip.mode = "RX"
              \/ /\ chip.mode \in {"CAD", "TX"} /\ chip'.mode = "STDBY" /\ chip'.air = chip.air
                 /\ chip'.irq \subseteq chip.irq \cup {"CAD_DONE", "CAD_DETECTED", "TX_DONE"}
              \/ chip' = chip
           /\ chip.mode = "CAD" /\ chip' # chip => 
                chip'.irq \in {chip.irq \cup {"CAD_DONE"}, chip.irq \cup {"CAD_DONE", "CAD_DETECTED"}}
           /\ chip'.buf # chip.buf => chip.air.stage = "header" /\ chip'.buf = chip.air.frame
PROOF
  <1>1. chip \in ChipStates
    BY DEF SafetyInv, TypeInv, TypeOK
  <1>2. CASE PreambleCaught \/ HeaderReceived \/ PreambleLost \/ FrameReceived
    <2>1. chip.mode = "RX"
      <3>1. chip.air = Silence => chip.air.stage = "none"
        BY DEF Silence
      <3> QED
        BY <1>2, <3>1 DEF PreambleCaught, HeaderReceived, PreambleLost, FrameReceived,
           AirWhileListening
    <2>2. chip'.mode = chip.mode /\ (chip'.buf = chip.buf \/ FrameReceived)
      BY <1>1, <1>2 DEF PreambleCaught, HeaderReceived, PreambleLost, FrameReceived, ChipStates
    <2>3. UNCHANGED <<pc, board, fwVars, rf, nvVars, reply, delivered, faultVars>>
      BY <1>2 DEF PreambleCaught, HeaderReceived, PreambleLost, FrameReceived
    <2>4. FrameReceived => chip.air.stage = "header" /\ chip'.buf = chip.air.frame
      BY <1>1 DEF FrameReceived, ChipStates
    <2> QED
      BY <2>1, <2>2, <2>3, <2>4
  <1>3. CASE ScanCompleted
    BY <1>1, <1>3 DEF ScanCompleted, ChipStates
  <1>4. CASE TransmissionCompleted
    BY <1>1, <1>4 DEF TransmissionCompleted, ChipStates
  <1>5. CASE Tick
    <2>1. chip' = chip \/ (chip.mode = "RX" /\ chip'.mode = chip.mode /\ chip'.buf = chip.buf)
      BY <1>1, <1>5 DEF Tick, AirWhileListening, ChipStates, AirStates, Silence
    <2>2. UNCHANGED <<pc, board, fwVars, rf, nvVars, reply, delivered, faultVars>>
      BY <1>5 DEF Tick
    <2> QED
      BY <2>1, <2>2
  <1> QED
    BY <1>2, <1>3, <1>4, <1>5 DEF Air, Chip

\* What the chip does by itself does not take it out of its place.
LEMMA AirPlaces ==
    ASSUME SafetyInv, PlacementInv, Air \/ Chip \/ Tick
    PROVE  PlacementInv'
PROOF
  <1>1. /\ AirWhileListening /\ Listening /\ FrontEndHeld /\ ScanFlags
        /\ pc' = pc /\ board' = board /\ rf' = rf /\ placed' = placed
        /\ radioReady' = radioReady /\ radioStandby' = radioStandby
        /\ radioTxReady' = radioTxReady
        /\ \/ chip'.mode = chip.mode /\ chip.mode = "RX"
           \/ /\ chip.mode \in {"CAD", "TX"} /\ chip'.mode = "STDBY" /\ chip'.air = chip.air
              /\ chip'.irq \subseteq chip.irq \cup {"CAD_DONE", "CAD_DETECTED", "TX_DONE"}
           \/ chip' = chip
        /\ chip.mode = "CAD" /\ chip' # chip => 
             chip'.irq \in {chip.irq \cup {"CAD_DONE"}, chip.irq \cup {"CAD_DONE", "CAD_DETECTED"}}
        /\ chip.mode = "TX" => pc \in {"txWait", "txFinish"}
    BY AirSteps, ResettleFacts DEF PlacementInv
  <1>2. AirWhileListening' /\ FrontEndHeld'
    BY <1>1 DEF AirWhileListening, FrontEndHeld
  <1>3. Listening'
    BY <1>1 DEF Listening
  <1>4. ScanFlags'
    BY <1>1 DEF ScanFlags
  <1> QED
    BY <1>2, <1>3, <1>4 DEF PlacementInv

\* PlacementInv is inductive relative to SafetyInv.
LEMMA PlacementStep == SafetyInv /\ PlacementInv /\ [Next]_vars => PlacementInv'
PROOF
  <1> SUFFICES ASSUME SafetyInv, PlacementInv, [Next]_vars
               PROVE  PlacementInv'
    OBVIOUS
  <1>1. CASE Boot
    BY <1>1, BootPlaces
  <1>2. CASE Rearm \/ AcFail \/ RxStart
    <2>1. pc' = "host" /\ radioReady' = radioReady
      BY <1>2 DEF Rearm, AcFail, RxStart
    <2> QED
      BY <1>2, <2>1, RestartsResettle, ResettledPlaces
  <1>3. CASE (AgcRun /\ ~dio1Flag) \/ AgcRestart
    <2>1. pc' = "irq" /\ radioReady' = radioReady
      BY <1>3 DEF AgcRun, AgcRestart
    <2> QED
      BY <1>3, <2>1, MaintenanceResettles, ResettledPlaces
  <1>4. CASE TxStage \/ CadStage
    <2>1. pc' = "host" \/ (TxStage /\ pc' = "txWait") \/ (CadStage /\ pc' = "cadWait")
      BY <1>4 DEF TxStage, CadStage
    <2>2. radioReady' = radioReady
      BY <1>4 DEF TxStage, CadStage
    <2> QED
      BY <1>4, <2>1, <2>2, FailedStartsResettle, ResettledPlaces, TxStartPlaces, ScansPlace
  <1>5. CASE TxFinish \/ CadPoll \/ SetConfig \/ ResumeApply
    <2>1. pc' = "host" /\ radioReady' = radioReady
      BY <1>5 DEF TxFinish, CadPoll, SetConfig, ResumeApply
    <2> QED
      BY <1>5, <2>1, TxFinishResettles, CadPollResettles, ConfigurationResettles,
         ResettledPlaces
  <1>6. CASE AgcGuard \/ TxRequest \/ AcGuard \/ CadRequest
    BY <1>6, GuardsPlace
  <1>7. CASE HostDone \/ MaintIdle \/ AnswerOnly \/ TxWait \/ NvWrite \/ Acknowledge
             \/ RadioResume \/ SetAutoCad \/ (AgcRun /\ dio1Flag)
    BY <1>7, QuietPlaces
  <1>8. CASE LoopIrq \/ SetLna
    BY <1>8, LoopIrqPlaces, SetLnaPlaces
  <1>9. CASE AcScan \/ AcPoll
    BY <1>9, ScansPlace
  <1>10. CASE RadioStandby \/ Reboot
    BY <1>10, HeldPlaces
  <1>11. CASE Air \/ Chip \/ Tick
    BY <1>11, AirPlaces
  <1>12. CASE UNCHANGED vars
    BY <1>12 DEF PlacementInv, AirWhileListening, Listening, FrontEndHeld, ScanFlags
  <1> QED
    BY <1>1, <1>2, <1>3, <1>4, <1>5, <1>6, <1>7, <1>8, <1>9, <1>10, <1>11, <1>12
    DEF Next, Loop, Handler, Host

\* PlacementInv holds in every reachable state.
LEMMA PlacementInvariant == Spec => []PlacementInv
PROOF
  <1>1. Init => PlacementInv
    <2> SUFFICES ASSUME Init PROVE PlacementInv
      OBVIOUS
    <2>1. /\ pc = "boot" /\ ~radioReady /\ ~radioStandby
          /\ chip.mode = "OFF" /\ chip.air = Silence
      BY DEF Init, Powered, PoweredOff
    <2>2. rf.lna = FALSE /\ rf.inReceive = FALSE
      BY DEF Init
    <2> QED
      BY <2>1, <2>2 DEF PlacementInv, AirWhileListening, Listening, FrontEndHeld, ScanFlags,
         LoopPcs
  <1> QED
    BY <1>1, PlacementStep, SafetyInvariant, PTL DEF Spec

\* Between requests the radio is where the host last put it, unless the driver call
\* that should have put it there failed, and its front end goes with it.
THEOREM RadioPlaced == Spec => []RadioPlacement
PROOF
  <1>1. SafetyInv /\ PlacementInv => RadioPlacement
    <2> SUFFICES ASSUME SafetyInv, PlacementInv PROVE RadioPlacement
      OBVIOUS
    <2>1. chip.mode \in {"OFF", "STDBY", "RX", "CAD", "TX"}
      BY DEF SafetyInv, TypeInv, TypeOK, ChipStates
    <2>2. LnaFollowsRadio
      BY DEF PlacementInv, FrontEndHeld, LnaFollowsRadio
    <2> QED
      BY <2>1, <2>2 DEF SafetyInv, ChipModes, PlacementInv, Listening, RadioPlacement, LoopPcs
  <1> QED
    BY <1>1, SafetyInvariant, PlacementInvariant, PTL

-----------------------------------------------------------------------------
(* Verdicts.                                                               *)

Verdicts == {"TX_DONE", "CLEAR", "DETECTED"}

\* What a scan has latched is what it found.
ScansWitnessed ==
    pc \in {"acWait", "cadWait"} /\ chip.irq # {} =>
        /\ "CAD_DONE" \in chip.irq
        /\ witness = IF "CAD_DETECTED" \in chip.irq THEN "busy" ELSE "clear"

\* The chip stops transmitting only when it is done, and under the wait loop
\* nothing else raises DIO1.
SendsWitnessed ==
    /\ pc \in {"txWait", "txFinish"} => chip.mode \in {"TX", "STDBY"}
    /\ pc \in {"txWait", "txFinish"} /\ chip.mode = "STDBY" => witness = "aired"
    /\ pc = "txWait" /\ dio1Flag => witness = "aired"
    /\ pc = "txFinish" /\ txOk => witness = "aired"

\* A verdict is given where it cannot change any more, and an auto-CAD
\* transmission starts on a clear one.
VerdictsSettled ==
    /\ reply \in Verdicts => pc = "host" /\ chip.mode \in {"RX", "STDBY"}
    /\ pc = "txStage" /\ autoCadEnabled => chip.mode = "STDBY" /\ witness = "clear"

VerdictInv == ScansWitnessed /\ SendsWitnessed /\ VerdictsSettled /\ HonestVerdicts

AwaitingPcs == {"acWait", "cadWait", "txStage", "txWait", "txFinish"}

\* Away from the points that wait for the chip, and without a verdict, there is
\* nothing to witness.
LEMMA NothingToWitness ==
    ASSUME SafetyInv', pc' \notin AwaitingPcs, reply' \notin Verdicts
    PROVE  VerdictInv'
BY DEF SafetyInv, ChipModes, VerdictInv, ScansWitnessed, SendsWitnessed, VerdictsSettled,
   HonestVerdicts, AwaitingPcs, Verdicts

\* Nor when nothing that is witnessed has changed.
LEMMA SameWitness ==
    ASSUME VerdictInv, pc' = pc, chip' = chip, witness' = witness, reply' = reply,
           dio1Flag' = dio1Flag, txOk' = txOk, autoCadEnabled' = autoCadEnabled
    PROVE  VerdictInv'
BY DEF VerdictInv, ScansWitnessed, SendsWitnessed, VerdictsSettled, HonestVerdicts, Verdicts

\* loop() between two requests gives no verdict.
LEMMA LoopVerdicts ==
    ASSUME SafetyInv', VerdictInv, Boot \/ Reboot \/ Loop \/ SetLna
    PROVE  VerdictInv'
PROOF
  <1>1. CASE Reboot \/ HostDone
    BY <1>1, NothingToWitness DEF Reboot, HostDone, AwaitingPcs, Verdicts
  <1>2. CASE ~(Reboot \/ HostDone)
    <2>1. reply' = reply /\ pc # "host"
      BY <1>2 DEF Boot, BootRadio, BootWithoutRadio, Loop, LoopIrq, Rearm, MaintIdle,
         AgcGuard, AgcRun, AgcRestart, SetLna
    <2>2. pc' \in {"irq", "halted", "rearm", "host", "maint", "agc"}
      BY <1>2 DEF Boot, BootRadio, BootWithoutRadio, Loop, LoopIrq, Rearm, MaintIdle,
         AgcGuard, AgcRun, AgcRestart, SetLna, Guard
    <2> QED
      BY <2>1, <2>2, NothingToWitness DEF VerdictInv, VerdictsSettled, AwaitingPcs
  <1> QED
    BY <1>1, <1>2

\* Requests answered with a status give no verdict.
LEMMA StatusVerdicts ==
    ASSUME SafetyInv', VerdictInv,
           \/ AnswerOnly \/ CadRequest \/ RxStart \/ SetConfig \/ RadioStandby
           \/ RadioResume \/ SetAutoCad \/ Acknowledge \/ ResumeApply
           \/ AcFail \/ AcGuard
    PROVE  VerdictInv'
PROOF
  <1>1. CASE \/ AnswerOnly \/ CadRequest \/ RxStart \/ SetConfig \/ RadioStandby
             \/ RadioResume \/ SetAutoCad
    <2>1. reply' \in {"OK", "ERR", "BUSY", "pending"}
      BY <1>1 DEF AnswerOnly, CadRequest, RxStart, SetConfig, RadioStandby, RadioResume,
         SetAutoCad
    <2>2. pc' \in {"host", "cadStage", "stbyAck", "resApply", "acadAck"}
      BY <1>1 DEF AnswerOnly, CadRequest, RxStart, SetConfig, RadioStandby, RadioResume,
         SetAutoCad, Guard
    <2> QED
      BY <2>1, <2>2, NothingToWitness DEF AwaitingPcs, Verdicts
  <1>2. CASE Acknowledge \/ ResumeApply \/ AcFail \/ AcGuard
    <2>1. reply' \in {"OK", "ERR", "BUSY", reply} /\ pc # "host"
      BY <1>2 DEF Acknowledge, ResumeApply, AcFail, AcGuard
    <2>2. pc' \in {"host", "acScan"}
      BY <1>2 DEF Acknowledge, ResumeApply, AcFail, AcGuard, Guard
    <2> QED
      BY <2>1, <2>2, NothingToWitness DEF VerdictInv, VerdictsSettled, AwaitingPcs, Verdicts
  <1> QED
    BY <1>1, <1>2

\* A scan that starts has found nothing yet; a transmission without auto-CAD needs
\* no scan.
LEMMA StartVerdicts ==
    ASSUME SafetyInv, SafetyInv', VerdictInv, AcScan \/ CadStage \/ TxRequest \/ TxStage
    PROVE  VerdictInv'
PROOF
  <1>1. chip \in ChipStates
    BY DEF SafetyInv, TypeInv, TypeOK
  <1>2. CASE chip' = Enter(chip, "CAD") /\ pc' \in {"acWait", "cadWait"} /\ reply' = reply /\ pc # "host"
    <2>1. chip'.irq = {} /\ chip'.mode = "CAD"
      BY <1>1, <1>2, EnterLemma
    <2> QED
      BY <1>2, <2>1 DEF VerdictInv, ScansWitnessed, SendsWitnessed, VerdictsSettled,
         HonestVerdicts, Verdicts
  <1>3. CASE /\ chip' = Enter(chip, "TX") /\ pc' = "txWait" /\ reply' = reply /\ pc = "txStage"
             /\ dio1Flag' = FALSE /\ witness' = witness /\ autoCadEnabled' = autoCadEnabled
    <2>1. chip'.mode = "TX"
      BY <1>1, <1>3, EnterLemma
    <2> QED
      BY <1>3, <2>1 DEF VerdictInv, ScansWitnessed, SendsWitnessed, VerdictsSettled,
         HonestVerdicts, Verdicts
  <1>4. CASE TxRequest
    <2>1. /\ reply' \in {"BUSY", "pending"} /\ autoCadEnabled' = autoCadEnabled
          /\ pc' \in {"host", "acGuard"} \/ (pc' = "txStage" /\ ~autoCadEnabled)
      BY <1>4 DEF TxRequest, Guard
    <2>2. chip'.mode # "TX"
      BY <2>1 DEF SafetyInv, ChipModes
    <2> QED
      BY <2>1, <2>2 DEF VerdictInv, ScansWitnessed, SendsWitnessed, VerdictsSettled,
         HonestVerdicts, Verdicts
  <1>5. CASE /\ pc' \in {"host", "acFail"} /\ reply' \in {"ERR", reply} /\ pc # "host"
    BY <1>5, NothingToWitness DEF VerdictInv, VerdictsSettled, AwaitingPcs, Verdicts
  <1> QED
    BY <1>2, <1>3, <1>4, <1>5 DEF AcScan, CadStage, TxStage

\* The handlers read the witness off the chip's flags and DIO1.
LEMMA OutcomeVerdicts ==
    ASSUME SafetyInv, SafetyInv', PlacementInv, VerdictInv, AcPoll \/ TxWait \/ TxFinish \/ CadPoll
    PROVE  VerdictInv'
PROOF
  <1>1. CASE AcPoll
    <2>1. /\ chip \in ChipStates /\ {"CAD_DONE", "CAD_DETECTED"} \in SUBSET IrqFlags
      BY DEF SafetyInv, TypeInv, TypeOK, IrqFlags
    <2>2. /\ chip'.mode = chip.mode /\ witness' = witness /\ reply' = reply /\ pc # "host"
      BY <1>1, <2>1, ClearLemma DEF AcPoll
    <2>3. pc' \in {"acGuard", "acFail"} \/ (pc' = "txStage" /\ ScanClear)
      BY <1>1 DEF AcPoll
    <2>4. ScanClear => chip.mode = "STDBY" /\ witness = "clear"
      BY <1>1 DEF AcPoll, ScanClear, PlacementInv, ScanFlags, VerdictInv, ScansWitnessed
    <2>5. chip'.mode # "TX"
      BY <2>3 DEF SafetyInv, ChipModes
    <2> QED
      BY <2>2, <2>3, <2>4, <2>5 DEF VerdictInv, ScansWitnessed, SendsWitnessed, VerdictsSettled,
         HonestVerdicts, Verdicts
  <1>2. CASE TxWait
    BY <1>2 DEF TxWait, VerdictInv, ScansWitnessed, SendsWitnessed, VerdictsSettled,
       HonestVerdicts, Verdicts
  <1>3. CASE TxFinish
    <2>1. /\ pc' = "host" /\ witness' = witness /\ reply' = (IF txOk THEN "TX_DONE" ELSE "ERR")
          /\ txOk => witness = "aired"
          /\ chip.mode \in {"TX", "STDBY"}
      BY <1>3 DEF TxFinish, VerdictInv, SendsWitnessed
    <2>2. chip'.mode \in {"STDBY", "RX"}
      BY <1>3, <2>1, TxFinishResettles DEF Resettled, SafetyInv, ChipModes
    <2> QED
      BY <2>1, <2>2 DEF VerdictInv, ScansWitnessed, SendsWitnessed, VerdictsSettled,
         HonestVerdicts, Verdicts
  <1>4. CASE CadPoll
    <2>1. /\ pc' = "host" /\ witness' = witness
          /\ \/ reply' = "ERR"
             \/ reply' = "DETECTED" /\ "CAD_DONE" \in chip.irq /\ "CAD_DETECTED" \in chip.irq
             \/ reply' = "CLEAR" /\ "CAD_DONE" \in chip.irq /\ "CAD_DETECTED" \notin chip.irq
      BY <1>4 DEF CadPoll
    <2>2. "CAD_DONE" \in chip.irq =>
             /\ chip.mode = "STDBY"
             /\ witness = IF "CAD_DETECTED" \in chip.irq THEN "busy" ELSE "clear"
      BY <1>4 DEF CadPoll, PlacementInv, ScanFlags, VerdictInv, ScansWitnessed
    <2>3. "CAD_DONE" \in chip.irq => chip'.mode \in {"STDBY", "RX"}
      BY <1>4, <2>2, CadPollResettles DEF Resettled
    <2>4. chip'.mode # "TX"
      BY <2>1 DEF SafetyInv, ChipModes
    <2> QED
      BY <2>1, <2>2, <2>3, <2>4 DEF VerdictInv, ScansWitnessed, SendsWitnessed,
         VerdictsSettled, HonestVerdicts, Verdicts
  <1> QED
    BY <1>1, <1>2, <1>3, <1>4

\* The chip's own steps witness what they report.
LEMMA ChipVerdicts ==
    ASSUME SafetyInv, PlacementInv, VerdictInv, Air \/ Chip \/ Tick
    PROVE  VerdictInv'
PROOF
  <1>1. /\ chip \in ChipStates /\ AirWhileListening
        /\ pc \in {"acWait", "cadWait", "txWait", "txFinish"} => chip.mode # "RX"
        /\ chip.mode = "TX" => pc \in {"txWait", "txFinish"}
    BY ResettleFacts DEF SafetyInv, ChipModes
  <1>2. CASE PreambleCaught \/ HeaderReceived \/ PreambleLost \/ FrameReceived \/ Tick
    <2>1. /\ pc' = pc /\ witness' = witness /\ reply' = reply /\ txOk' = txOk
          /\ autoCadEnabled' = autoCadEnabled
      BY <1>2 DEF PreambleCaught, HeaderReceived, PreambleLost, FrameReceived, Tick
    <2>2. \/ chip.mode = "RX" /\ chip'.mode = "RX"
          \/ chip' = chip /\ dio1Flag' = dio1Flag
      <3>1. CASE Tick
        <4>1. dio1Flag' = dio1Flag
          BY <3>1 DEF Tick
        <4>2. chip' = chip \/ (chip.air # Silence /\ chip' = [chip EXCEPT !.air.age = @ + 1])
          BY <3>1 DEF Tick
        <4> QED
          BY <1>1, <4>1, <4>2 DEF AirWhileListening, ChipStates
      <3>2. CASE PreambleCaught \/ HeaderReceived \/ PreambleLost \/ FrameReceived
        <4>1. chip.air = Silence => chip.air.stage = "none"
          BY DEF Silence
        <4>2. chip.mode = "RX"
          BY <1>1, <3>2, <4>1 DEF PreambleCaught, HeaderReceived, PreambleLost, FrameReceived,
             AirWhileListening
        <4>3. chip'.mode = chip.mode
          BY <1>1, <3>2 DEF PreambleCaught, HeaderReceived, PreambleLost, FrameReceived, ChipStates
        <4> QED
          BY <4>2, <4>3
      <3> QED
        BY <1>2, <3>1, <3>2
    <2>3. CASE chip' = chip /\ dio1Flag' = dio1Flag
      BY <2>1, <2>3, SameWitness
    <2>4. CASE chip.mode = "RX" /\ chip'.mode = "RX"
      BY <1>1, <2>1, <2>4 DEF VerdictInv, ScansWitnessed, SendsWitnessed, VerdictsSettled,
         HonestVerdicts, Verdicts
    <2> QED
      BY <2>2, <2>3, <2>4
  <1>3. CASE ScanCompleted
    <2>1. PICK detected \in BOOLEAN :
             /\ chip' = [chip EXCEPT !.mode = "STDBY",
                           !.irq = @ \cup ({"CAD_DONE"} \cup (IF detected THEN {"CAD_DETECTED"} ELSE {}))]
             /\ witness' = IF detected THEN "busy" ELSE "clear"
      BY <1>3 DEF ScanCompleted
    <2>2. /\ chip'.mode = "STDBY" /\ chip.mode = "CAD"
          /\ chip'.irq = chip.irq \cup ({"CAD_DONE"} \cup (IF detected THEN {"CAD_DETECTED"} ELSE {}))
      BY <1>1, <1>3, <2>1 DEF ScanCompleted, ChipStates
    <2>3. /\ pc' = pc /\ reply' = reply /\ txOk' = txOk /\ autoCadEnabled' = autoCadEnabled
      BY <1>3 DEF ScanCompleted
    <2>4. pc \in {"acWait", "cadWait"} => chip.irq = {}
      BY <2>2 DEF PlacementInv, ScanFlags
    <2> QED
      BY <2>1, <2>2, <2>3, <2>4 DEF VerdictInv, ScansWitnessed, SendsWitnessed,
         VerdictsSettled, HonestVerdicts, Verdicts
  <1>4. CASE TransmissionCompleted
    <2>1. /\ chip'.mode = "STDBY" /\ chip.mode = "TX" /\ witness' = "aired"
          /\ pc' = pc /\ reply' = reply /\ txOk' = txOk /\ autoCadEnabled' = autoCadEnabled
      BY <1>1, <1>4 DEF TransmissionCompleted, ChipStates
    <2> QED
      BY <1>1, <2>1 DEF VerdictInv, ScansWitnessed, SendsWitnessed, VerdictsSettled,
         HonestVerdicts, Verdicts
  <1> QED
    BY <1>2, <1>3, <1>4 DEF Air, Chip

\* VerdictInv is inductive relative to SafetyInv and PlacementInv.
LEMMA VerdictStep ==
    SafetyInv /\ SafetyInv' /\ PlacementInv /\ VerdictInv /\ [Next]_vars => VerdictInv'
PROOF
  <1> SUFFICES ASSUME SafetyInv, SafetyInv', PlacementInv, VerdictInv, [Next]_vars
               PROVE  VerdictInv'
    OBVIOUS
  <1>1. CASE Boot \/ Reboot \/ Loop \/ SetLna
    BY <1>1, LoopVerdicts
  <1>2. CASE \/ AnswerOnly \/ CadRequest \/ RxStart \/ SetConfig \/ RadioStandby
             \/ RadioResume \/ SetAutoCad \/ Acknowledge \/ ResumeApply
             \/ AcFail \/ AcGuard
    BY <1>2, StatusVerdicts
  <1>3. CASE AcScan \/ CadStage \/ TxRequest \/ TxStage
    BY <1>3, StartVerdicts
  <1>4. CASE AcPoll \/ TxWait \/ TxFinish \/ CadPoll
    BY <1>4, OutcomeVerdicts
  <1>5. CASE Air \/ Chip \/ Tick
    BY <1>5, ChipVerdicts
  <1>6. CASE NvWrite \/ UNCHANGED vars
    BY <1>6, SameWitness DEF NvWrite
  <1> QED
    BY <1>1, <1>2, <1>3, <1>4, <1>5, <1>6 DEF Next, Handler, Host

\* VerdictInv holds in every reachable state.
LEMMA VerdictInvariant == Spec => []VerdictInv
PROOF
  <1>1. Init => VerdictInv
    <2> SUFFICES ASSUME Init PROVE VerdictInv
      OBVIOUS
    <2>1. pc = "boot" /\ reply = "none" /\ chip.mode = "OFF"
      BY DEF Init, Powered, PoweredOff
    <2> QED
      BY <2>1 DEF VerdictInv, ScansWitnessed, SendsWitnessed, VerdictsSettled, HonestVerdicts,
         Verdicts
  <1>2. SafetyInv /\ PlacementInv /\ VerdictInv /\ [Next]_vars => VerdictInv'
    BY VerdictStep, SafetyStep
  <1> QED
    BY <1>1, <1>2, SafetyInvariant, PlacementInvariant, PTL DEF Spec

\* The host is never told a transmission or a scan it did not get: TX_DONE, CLEAR
\* and DETECTED are what the chip did for this very request, and with auto-CAD a
\* transmission follows a scan that completed and was clear.
THEOREM VerdictsHonest == Spec => []HonestVerdicts
PROOF
  <1>1. VerdictInv => HonestVerdicts
    BY DEF VerdictInv
  <1> QED
    BY <1>1, VerdictInvariant, PTL
-----------------------------------------------------------------------------
(* The T114's files.                                                       *)

\* A file is rewritten inside the handler that changed the value, and every other
\* file agrees with memory, as long as no driver call has failed.
FilesFollow ==
    /\ persist # "none" => pc \in AckPcs
    /\ persist = "standby" => pc \in {"stbyAck", "resApply"}
    /\ board = "t114" /\ faults = 0 /\ pc # "boot" =>
        /\ persist = "standby" \/ (nv.standby = "on") = radioStandby
        /\ persist = "autocad" \/ (nv.autocad = "on") = autoCadEnabled

\* startReceive() and applyConfig() never take a failure back.
LEMMA RestartFaults ==
    ASSUME NEW c, NEW f, NEW standby, NEW spent \in Nat, StartReceive(c, f, standby, spent)
    PROVE  faults' = 0 => spent = 0
BY DEF StartReceive, StayParked, EnterReceive

LEMMA ApplyFaults ==
    ASSUME NEW cfg, NEW c, NEW spent \in Nat, NEW r \in ApplyResults(cfg, c, spent)
    PROVE  r.faults \in Nat /\ (r.faults = 0 => spent = 0)
BY DEF ApplyResults

\* No step forgets a failure.
LEMMA FaultsKept ==
    ASSUME SafetyInv, Next, faults' = 0
    PROVE  faults = 0
PROOF
  <1>1. faults \in Nat
    BY DEF SafetyInv, TypeInv, TypeOK
  <1>2. CASE Rearm \/ AcFail \/ RxStart \/ AgcRun \/ AgcRestart \/ TxStage \/ CadStage
    <2>1. \/ faults' = faults
          \/ faults' = faults + 1
          \/ \E c \in {chip, Standby(chip), FinishTransmit(chip)},
                f \in {rf, BypassedFrontEnd(rf)}, spent \in {faults, faults + 1} :
                StartReceive(c, f, radioStandby, spent)
      BY <1>2 DEF Rearm, AcFail, RxStart, AgcRun, AgcRestart, TxStage, CadStage
    <2> QED
      BY <1>1, <2>1, RestartFaults
  <1>3. CASE BootRadio \/ TxFinish \/ CadPoll \/ SetConfig \/ ResumeApply
    <2>1. \/ \E c, f, standby : StartReceive(c, f, standby, faults)
          \/ \E cfg, c : \E a \in ApplyResults(cfg, c, faults) :
                \/ faults' = a.faults
                \/ \E f, standby : StartReceive(a.chip, f, standby, a.faults)
      <3>1. CASE BootRadio
        BY <3>1 DEF BootRadio
      <3>2. CASE TxFinish
        BY <3>2 DEF TxFinish
      <3>3. CASE CadPoll
        BY <3>3 DEF CadPoll
      <3>4. CASE SetConfig
        BY <3>4 DEF SetConfig
      <3>5. CASE ResumeApply
        BY <3>5 DEF ResumeApply
      <3> QED
        BY <1>3, <3>1, <3>2, <3>3, <3>4, <3>5
    <2>2. CASE \E c, f, standby : StartReceive(c, f, standby, faults)
      BY <1>1, <2>2, RestartFaults
    <2>3. CASE \E cfg, c : \E a \in ApplyResults(cfg, c, faults) :
                \/ faults' = a.faults
                \/ \E f, standby : StartReceive(a.chip, f, standby, a.faults)
      <3>1. PICK cfg, c : \E a \in ApplyResults(cfg, c, faults) :
                \/ faults' = a.faults
                \/ \E f, standby : StartReceive(a.chip, f, standby, a.faults)
        BY <2>3
      <3>2. PICK a \in ApplyResults(cfg, c, faults) :
                \/ faults' = a.faults
                \/ \E f, standby : StartReceive(a.chip, f, standby, a.faults)
        BY <3>1
      <3>3. a.faults \in Nat /\ (a.faults = 0 => faults = 0)
        BY <1>1, ApplyFaults
      <3> QED
        BY <3>2, <3>3, RestartFaults
    <2> QED
      BY <2>1, <2>2, <2>3
  <1>4. CASE AcScan \/ NvWrite \/ RadioStandby
    <2>1. CASE AcScan
      BY <1>1, <2>1 DEF AcScan
    <2>2. CASE NvWrite
      BY <1>1, <2>2 DEF NvWrite
    <2>3. CASE RadioStandby
      BY <1>1, <2>3 DEF RadioStandby
    <2> QED
      BY <1>4, <2>1, <2>2, <2>3
  <1>5. CASE \/ BootWithoutRadio \/ Reboot \/ LoopIrq \/ HostDone \/ MaintIdle \/ AgcGuard
             \/ SetLna \/ AnswerOnly \/ TxRequest \/ CadRequest \/ RadioResume \/ SetAutoCad
             \/ AcGuard \/ AcPoll \/ TxWait \/ Acknowledge
    BY <1>5 DEF BootWithoutRadio, Reboot, LoopIrq, HostDone, MaintIdle, AgcGuard, SetLna,
       AnswerOnly, TxRequest, CadRequest, RadioResume, SetAutoCad, AcGuard, AcPoll, TxWait,
       Acknowledge
  <1>6. CASE Air \/ Chip \/ Tick
    BY <1>6 DEF Air, Chip, Tick, PreambleCaught, HeaderReceived, PreambleLost,
       FrameReceived, ScanCompleted, TransmissionCompleted
  <1> QED
    BY <1>2, <1>3, <1>4, <1>5, <1>6 DEF Next, Boot, Loop, Handler, Host

\* Steps that leave the files and what they mirror alone.
LEMMA FilesUntouched ==
    ASSUME FilesFollow, UNCHANGED <<board, nv, persist, radioStandby, autoCadEnabled>>,
           faults' = 0 => faults = 0,
           pc' = pc \/ (persist = "none" /\ pc # "boot")
    PROVE  FilesFollow'
BY DEF FilesFollow, AckPcs

\* loop(), the requests that persist nothing and the chip.
LEMMA FilesIdle ==
    ASSUME SafetyInv, FilesFollow, faults' = 0 => faults = 0,
           \/ Loop \/ Air \/ Chip \/ Tick \/ AnswerOnly \/ TxRequest \/ CadRequest
           \/ RxStart \/ SetConfig \/ SetLna \/ AcGuard \/ AcScan \/ AcPoll \/ AcFail
           \/ TxStage \/ TxWait \/ TxFinish \/ CadStage \/ CadPoll \/ Acknowledge
           \/ ResumeApply
    PROVE  FilesFollow'
PROOF
  <1>1. CASE Air \/ Chip \/ Tick
    <2>1. /\ UNCHANGED <<board, nv, persist, radioStandby, autoCadEnabled>>
          /\ pc' = pc
      BY <1>1 DEF Air, Chip, Tick, PreambleCaught, HeaderReceived, PreambleLost, FrameReceived,
         ScanCompleted, TransmissionCompleted
    <2> QED
      BY <2>1, FilesUntouched
  <1>2. CASE Loop \/ AnswerOnly \/ TxRequest \/ CadRequest \/ RxStart \/ SetConfig \/ SetLna
    <2>1. UNCHANGED <<board, nv, persist, radioStandby, autoCadEnabled>> /\ pc \in LoopPcs
      BY <1>2 DEF Loop, LoopIrq, Rearm, HostDone, MaintIdle, AgcGuard, AgcRun, AgcRestart,
         AnswerOnly, TxRequest, CadRequest, RxStart, SetConfig, SetLna, LoopPcs
    <2> QED
      BY <2>1, FilesUntouched DEF FilesFollow, LoopPcs, AckPcs
  <1>3. CASE \/ AcGuard \/ AcScan \/ AcPoll \/ AcFail \/ TxStage \/ TxWait \/ TxFinish
             \/ CadStage \/ CadPoll
    <2>1. UNCHANGED <<board, nv, persist, radioStandby, autoCadEnabled>> /\ pc \in TxPcs \cup CadPcs
      BY <1>3 DEF AcGuard, AcScan, AcPoll, AcFail, TxStage, TxWait, TxFinish, CadStage,
         CadPoll, TxPcs, CadPcs
    <2> QED
      BY <2>1, FilesUntouched DEF FilesFollow, TxPcs, CadPcs, AckPcs
  <1>4. CASE Acknowledge \/ ResumeApply
    <2>1. UNCHANGED <<board, nv, persist, radioStandby, autoCadEnabled>>
      BY <1>4 DEF Acknowledge, ResumeApply
    <2>2. persist = "none" /\ pc # "boot"
      BY <1>4 DEF Acknowledge, ResumeApply
    <2> QED
      BY <2>1, <2>2, FilesUntouched
  <1> QED
    BY <1>1, <1>2, <1>3, <1>4

\* A handler that changes a value forgets its file, and the write brings it back.
LEMMA FilesRewritten ==
    ASSUME SafetyInv, FilesFollow, faults' = 0 => faults = 0,
           RadioStandby \/ RadioResume \/ SetAutoCad \/ NvWrite
    PROVE  FilesFollow'
PROOF
  <1>1. /\ nv \in [standby : {"missing", "off", "on"}, autocad : {"missing", "off", "on"}]
        /\ persist \in {"none", "standby", "autocad"}
        /\ radioStandby \in BOOLEAN /\ autoCadEnabled \in BOOLEAN /\ faults \in Nat
    BY DEF SafetyInv, TypeInv, TypeOK
  <1>2. CASE RadioStandby \/ RadioResume
    <2>1. /\ persist = "none" /\ pc # "boot"
          /\ UNCHANGED <<board, autoCadEnabled>> /\ pc' \in {"stbyAck", "resApply"}
          /\ \E on \in BOOLEAN : radioStandby' = on /\ Forget("standby", radioStandby, on)
      BY <1>2 DEF RadioStandby, RadioResume, FilesFollow, AckPcs
    <2> QED
      BY <1>1, <2>1 DEF FilesFollow, Forget, AckPcs
  <1>3. CASE SetAutoCad
    <2>1. /\ persist = "none" /\ pc # "boot"
          /\ UNCHANGED <<board, radioStandby>> /\ pc' = "acadAck"
          /\ \E on \in BOOLEAN : autoCadEnabled' = on /\ Forget("autocad", autoCadEnabled, on)
      BY <1>3 DEF SetAutoCad, FilesFollow, AckPcs
    <2> QED
      BY <1>1, <2>1 DEF FilesFollow, Forget, AckPcs
  <1>4. CASE NvWrite
    BY <1>1, <1>4 DEF NvWrite, FilesFollow
  <1> QED
    BY <1>2, <1>3, <1>4

\* setup() restores what the files say.
LEMMA FilesRestored ==
    ASSUME FilesFollow, Boot \/ Reboot
    PROVE  FilesFollow'
PROOF
  <1>1. CASE Boot
    <2>1. /\ persist = "none" /\ UNCHANGED <<board, nv, persist>>
          /\ radioStandby' = (board = "t114" /\ nv.standby = "on")
          /\ autoCadEnabled' = (board = "t114" /\ nv.autocad = "on")
      BY <1>1 DEF Boot, BootRadio, BootWithoutRadio, Restored, FilesFollow, AckPcs
    <2> QED
      BY <2>1 DEF FilesFollow
  <1>2. CASE Reboot
    BY <1>2 DEF Reboot, FilesFollow
  <1> QED
    BY <1>1, <1>2

\* FilesFollow is inductive relative to the types.
LEMMA FilesStep == SafetyInv /\ FilesFollow /\ [Next]_vars => FilesFollow'
PROOF
  <1> SUFFICES ASSUME SafetyInv, FilesFollow, [Next]_vars PROVE FilesFollow'
    OBVIOUS
  <1>1. CASE UNCHANGED vars
    BY <1>1 DEF FilesFollow
  <1>2. CASE Next
    <2>1. faults' = 0 => faults = 0
      BY <1>2, FaultsKept
    <2> QED
      BY <1>2, <2>1, FilesIdle, FilesRewritten, FilesRestored DEF Next, Host, Handler
  <1> QED
    BY <1>1, <1>2

\* FilesFollow holds in every reachable state.
LEMMA FilesInvariant == Spec => []FilesFollow
PROOF
  <1>1. Init => FilesFollow
    BY DEF Init, Powered, FilesFollow
  <1>2. SafetyInv /\ FilesFollow /\ [Next]_vars => FilesFollow'
    BY FilesStep
  <1> QED
    BY <1>1, <1>2, SafetyInvariant, PTL DEF Spec

\* While no driver call has failed, the T114's files agree with its memory between
\* any two requests: what the host had acknowledged is what a reboot restores,
\* wherever the reboot falls.
THEOREM FilesAgree == Spec => []PersistedStateMatches
PROOF
  <1>1. SafetyInv /\ FilesFollow => PersistedStateMatches
    BY DEF FilesFollow, PersistedStateMatches, LoopPcs, AckPcs
  <1> QED
    BY <1>1, FilesInvariant, SafetyInvariant, PTL
-----------------------------------------------------------------------------
(* The reception guard.                                                    *)

\* Whatever is in the air or was timed has been heard before, so that the next
\* preamble is of neither.
FramesHeard == protected \in heard \cup {NoFrame} /\ chip.air.frame \in heard \cup {NoFrame}

\* A frame keeps the flag it raised as long as it keeps an earlier one.
FlagsLatched ==
    /\ chip.air.stage = "header" /\ "PREAMBLE" \in chip.irq => "HEADER" \in chip.irq
    /\ chip.air.stage = "preamble" /\ "HEADER" \in chip.irq => "PREAMBLE" \in chip.irq

\* The frame in the air is the one the guard last started its timer for.
Timed == placed /\ chip.air.stage # "none" /\ chip.air.frame = protected

\* Its timer is not ahead of it: by at most a preamble in the header phase, when a
\* header flag of an earlier frame started it in this one's preamble.
TimerRuns ==
    /\ rxActivityAge >= 0
    /\ chip.air.stage = "preamble" =>
        /\ rxActivityAge <= chip.air.age
        /\ "PREAMBLE" \in chip.irq
        /\ "HEADER" \in chip.irq <=> rxHeaderSeen
    /\ chip.air.stage = "header" =>
        /\ "HEADER" \in chip.irq
        /\ rxHeaderSeen => rxActivityAge <= chip.air.age + PreambleTime

TimedInv ==
    /\ FramesHeard /\ FlagsLatched
    /\ pc \in StagePcs \cup {"acFail"} => ~Timed
    /\ Timed /\ pc # "rearm" => TimerRuns

\* The chip's air, phase by phase.
LEMMA AirShape ==
    ASSUME NEW c \in ChipStates
    PROVE  /\ c.air.stage \in {"none", "preamble", "header"}
           /\ c.air.stage = "none" => c.air = Silence
           /\ c.air = Silence => c.air.stage = "none" /\ c.air.frame = NoFrame
           /\ c.air.stage = "preamble" => c.air.frame \in Frames /\ c.air.age \in 0 .. PreambleTime
           /\ c.air.stage = "header" => c.air.frame \in Frames /\ c.air.age \in 0 .. PayloadTime
PROOF
  <1>1. c.air \in AirStates
    BY DEF ChipStates
  <1> QED
    BY <1>1 DEF AirStates, Silence

\* A step that leaves the guard alone, and the air too or silences it or fails to
\* place the radio.
LEMMA TimerKept ==
    ASSUME SafetyInv, SafetyInv', TimedInv, UNCHANGED <<guardVars, heard>>,
           \/ chip'.air = Silence
           \/ /\ chip'.air = chip.air /\ chip'.irq = chip.irq
              /\ \/ placed' = FALSE
                 \/ placed' = placed /\ pc \in StagePcs \cup {"acFail"}
                 \/ placed' = placed /\ pc # "rearm" /\ pc' \notin StagePcs \cup {"acFail"}
    PROVE  TimedInv'
PROOF
  <1>1. chip' \in ChipStates
    BY DEF SafetyInv, TypeInv, TypeOK
  <1>2. CASE chip'.air = Silence
    BY <1>1, <1>2, AirShape DEF TimedInv, FramesHeard, FlagsLatched, Timed
  <1>3. CASE /\ chip'.air = chip.air /\ chip'.irq = chip.irq
             /\ \/ placed' = FALSE
                \/ placed' = placed /\ pc \in StagePcs \cup {"acFail"}
                \/ placed' = placed /\ pc # "rearm" /\ pc' \notin StagePcs \cup {"acFail"}
    <2>1. FramesHeard' /\ FlagsLatched'
      BY <1>3 DEF TimedInv, FramesHeard, FlagsLatched
    <2>2. Timed' => Timed /\ pc # "rearm" /\ pc' \notin StagePcs \cup {"acFail"}
      BY <1>3 DEF TimedInv, Timed
    <2>3. TimerRuns => TimerRuns'
      BY <1>3 DEF TimerRuns
    <2> QED
      BY <2>1, <2>2, <2>3 DEF TimedInv
  <1> QED
    BY <1>2, <1>3

\* The guard: where it finds no reception, no frame it has timed is in the air.
LEMMA GuardTimed ==
    ASSUME SafetyInv, SafetyInv', TimedInv, AgcGuard \/ TxRequest \/ AcGuard \/ CadRequest
    PROVE  TimedInv'
PROOF
  <1>1. PICK busyPc \in {"irq", "host"}, clearPc \in {"agc", "acGuard", "txStage", "acScan", "cadStage"} :
            Guard(busyPc, clearPc)
    BY DEF AgcGuard, TxRequest, AcGuard, CadRequest
  <1>2. /\ heard' = heard /\ placed' = placed /\ pc \in {"maint", "host", "acGuard"}
    BY DEF AgcGuard, TxRequest, AcGuard, CadRequest
  <1>3. /\ chip \in ChipStates /\ rxActivityAge \in -1 .. HeaderBound + 1 /\ rxHeaderSeen \in BOOLEAN
    BY DEF SafetyInv, TypeInv, TypeOK
  <1>4. /\ chip'.air = chip.air /\ chip'.irq = chip.irq \ StaleFlags
        /\ Receiving => chip'.irq = chip.irq
        /\ pc' = IF Receiving THEN busyPc ELSE clearPc
    BY <1>1, GuardAir
  <1>5. /\ rxHeaderSeen' = (Receiving /\ HeaderLatched)
        /\ Receiving /\ HeaderLatched => rxActivityAge' = HeaderAge
        /\ Receiving /\ ~HeaderLatched => rxActivityAge' = PreambleAge
        /\ protected' = IF \/ Receiving /\ HeaderLatched /\ ~rxHeaderSeen
                           \/ Receiving /\ ~HeaderLatched /\ rxActivityAge = -1
                        THEN chip.air.frame ELSE protected
    BY <1>1 DEF Guard
  <1>6. FramesHeard'
    <2>1. protected' \in {protected, chip.air.frame}
      BY <1>5
    <2> QED
      BY <1>2, <1>4, <2>1 DEF TimedInv, FramesHeard
  <1>7. FlagsLatched'
    <2>1. StaleFlags \in {{}, {"PREAMBLE", "HEADER"}} \/ (StaleFlags = {"PREAMBLE"} /\ ~HeaderLatched)
      BY DEF StaleFlags, LonePreamble
    <2>2. \/ chip'.irq = chip.irq
          \/ "PREAMBLE" \notin chip'.irq /\ "HEADER" \notin chip'.irq
          \/ "PREAMBLE" \notin chip'.irq /\ "HEADER" \notin chip.irq /\ chip'.irq \subseteq chip.irq
      <3>1. CASE StaleFlags = {}
        BY <1>4, <3>1
      <3>2. CASE StaleFlags = {"PREAMBLE", "HEADER"}
        BY <1>4, <3>2
      <3>3. CASE StaleFlags = {"PREAMBLE"} /\ ~HeaderLatched
        BY <1>4, <3>3 DEF HeaderLatched
      <3> QED
        BY <2>1, <3>1, <3>2, <3>3
    <2> QED
      BY <1>4, <2>2 DEF TimedInv, FlagsLatched
  <1>8. CASE ~Receiving
    <2>1. ~Timed
      <3> SUFFICES ASSUME Timed PROVE FALSE
        OBVIOUS
      <3>1. TimerRuns
        BY <1>2 DEF TimedInv
      <3>2. CASE chip.air.stage = "preamble"
        <4>1. rxActivityAge \in 0 .. PreambleTime
          BY <1>3, <3>1, <3>2, AirShape, TimeAssumption DEF TimerRuns
        <4> QED
          BY <1>8, <3>1, <3>2, <4>1, TimeAssumption DEF TimerRuns, Receiving, HeaderLatched,
             LonePreamble, HeaderAge, PreambleAge
      <3>3. CASE chip.air.stage = "header"
        <4>1. HeaderLatched
          BY <3>1, <3>3 DEF TimerRuns, HeaderLatched
        <4>2. HeaderAge <= HeaderBound
          <5>1. rxHeaderSeen => rxActivityAge <= PayloadTime + PreambleTime
            BY <1>3, <3>1, <3>3, AirShape, TimeAssumption DEF TimerRuns
          <5> QED
            BY <1>3, <5>1, TimeAssumption DEF HeaderAge
        <4> QED
          BY <1>8, <4>1, <4>2 DEF Receiving
      <3> QED
        BY <1>3, <3>2, <3>3, AirShape DEF Timed
    <2>2. ~Timed'
      BY <1>2, <1>4, <1>5, <1>8, <2>1 DEF Timed
    <2> QED
      BY <1>6, <1>7, <2>2 DEF TimedInv
  <1>9. CASE Receiving
    <2>1. pc' \notin StagePcs \cup {"acFail"} /\ chip'.irq = chip.irq
      BY <1>4, <1>9 DEF StagePcs
    <2>2. ASSUME Timed' PROVE TimerRuns'
      <3>1. chip.air.stage # "none" /\ placed /\ chip.air.frame = protected'
        BY <1>2, <1>4, <2>2 DEF Timed
      <3>2. CASE HeaderLatched /\ ~rxHeaderSeen
        <4>1. rxHeaderSeen' /\ rxActivityAge' = 0
          BY <1>5, <1>9, <3>2 DEF HeaderAge
        <4> QED
          BY <1>3, <1>4, <2>1, <3>2, <4>1, AirShape, TimeAssumption
             DEF TimedInv, FlagsLatched, TimerRuns, HeaderLatched
      <3>3. CASE ~HeaderLatched /\ rxActivityAge = -1
        <4>1. ~rxHeaderSeen' /\ rxActivityAge' = 0 /\ "PREAMBLE" \in chip.irq
          BY <1>5, <1>9, <3>3 DEF PreambleAge, Receiving, LonePreamble
        <4> QED
          BY <1>3, <1>4, <2>1, <3>3, <4>1, AirShape, TimeAssumption
             DEF TimedInv, FlagsLatched, TimerRuns, HeaderLatched
      <3>4. CASE (HeaderLatched /\ rxHeaderSeen) \/ (~HeaderLatched /\ rxActivityAge # -1)
        <4>1. protected' = protected
          BY <1>5, <3>4
        <4>2. TimerRuns
          BY <1>2, <3>1, <4>1 DEF TimedInv, Timed
        <4>3. rxActivityAge' = rxActivityAge
          BY <1>5, <1>9, <3>4 DEF HeaderAge, PreambleAge
        <4>4. rxHeaderSeen' = rxHeaderSeen
          BY <1>3, <1>5, <1>9, <3>4 DEF Receiving, LonePreamble
        <4> QED
          BY <1>4, <2>1, <4>2, <4>3, <4>4 DEF TimerRuns
      <3> QED
        BY <1>3, <3>2, <3>3, <3>4
    <2> QED
      BY <1>6, <1>7, <2>1, <2>2 DEF TimedInv
  <1> QED
    BY <1>8, <1>9

\* startReceive() from the chip as it is, or from standby, either silences the air or
\* fails: in hard standby there is no air to silence.
LEMMA RestartSilences ==
    ASSUME SafetyInv, PlacementInv, NEW f, NEW spent,
           \/ StartReceive(chip, f, radioStandby, spent)
           \/ StartReceive(Standby(chip), f, radioStandby, spent)
    PROVE  \/ chip'.air = Silence
           \/ chip'.air = chip.air /\ chip'.irq = chip.irq /\ placed' = FALSE
PROOF
  <1>1. /\ chip \in ChipStates /\ Standby(chip) \in ChipStates
        /\ Standby(chip).air = Silence
        /\ radioStandby /\ placed => chip.air = Silence
        /\ placed \in BOOLEAN
    BY ResettleFacts DEF AirWhileListening, SafetyInv, TypeInv, TypeOK
  <1>2. Enter(chip, "RX").air = Silence /\ Enter(Standby(chip), "RX").air = Silence
    BY <1>1, EnterLemma
  <1>3. PICK c \in {chip, Standby(chip)} : StartReceive(c, f, radioStandby, spent)
    OBVIOUS
  <1>4. \/ chip' = c /\ placed' = placed /\ radioStandby
        \/ chip' = Enter(c, "RX")
        \/ chip' = c /\ placed' = FALSE
    BY <1>3 DEF StartReceive, StayParked, EnterReceive
  <1> QED
    BY <1>1, <1>2, <1>3, <1>4

\* Every restart of the receiver.
LEMMA RestartTimed ==
    ASSUME SafetyInv, SafetyInv', PlacementInv, TimedInv,
           Rearm \/ AcFail \/ RxStart \/ AgcRun \/ AgcRestart
    PROVE  TimedInv'
PROOF
  <1>1. UNCHANGED <<guardVars, heard>>
    BY DEF Rearm, AcFail, RxStart, AgcRun, AgcRestart
  <1>2. CASE AgcRun /\ dio1Flag
    BY <1>1, <1>2, TimerKept DEF AgcRun, StagePcs
  <1>3. CASE Rearm \/ AcFail \/ RxStart \/ (AgcRun /\ ~dio1Flag) \/ AgcRestart
    <2>1. \E f, spent : \/ StartReceive(chip, f, radioStandby, spent)
                        \/ StartReceive(Standby(chip), f, radioStandby, spent)
      BY <1>3 DEF Rearm, AcFail, RxStart, AgcRun, AgcRestart
    <2>2. \/ chip'.air = Silence
          \/ chip'.air = chip.air /\ chip'.irq = chip.irq /\ placed' = FALSE
      BY <2>1, RestartSilences
    <2> QED
      BY <1>1, <2>2, TimerKept
  <1> QED
    BY <1>2, <1>3

\* The handlers that end in startReceive() or applyConfig() and the boot.
LEMMA ResettledTimed ==
    ASSUME SafetyInv, SafetyInv', PlacementInv, TimedInv,
           \/ Boot \/ TxFinish \/ CadPoll \/ SetConfig \/ ResumeApply
           \/ (TxStage \/ CadStage) /\ pc' = "host"
    PROVE  TimedInv'
PROOF
  <1>1. UNCHANGED <<guardVars, heard>> /\ pc # "rearm" /\ pc' \notin StagePcs \cup {"acFail"}
    BY DEF Boot, BootRadio, BootWithoutRadio, TxFinish, CadPoll, SetConfig, ResumeApply,
       TxStage, CadStage, StagePcs
  <1>2. CASE BootWithoutRadio
    BY <1>1, <1>2, TimerKept DEF BootWithoutRadio
  <1>3. CASE \/ BootRadio \/ TxFinish \/ CadPoll \/ SetConfig \/ ResumeApply
             \/ (TxStage \/ CadStage) /\ pc' = "host"
    <2>1. Resettled
      BY <1>3, BootRadioResettles, TxFinishResettles, CadPollResettles,
         ConfigurationResettles, FailedStartsResettle
    <2>2. placed' \in BOOLEAN /\ placed \in BOOLEAN
      BY DEF SafetyInv, TypeInv, TypeOK
    <2>3. \/ chip'.air = Silence
          \/ chip' = chip /\ (placed' = FALSE \/ placed' = placed)
      BY <2>1, <2>2 DEF Resettled
    <2> QED
      BY <1>1, <2>3, TimerKept
  <1> QED
    BY <1>2, <1>3 DEF Boot

\* Scans and transmissions that start, and their waits, have nothing in the air.
LEMMA HandlerTimed ==
    ASSUME SafetyInv, SafetyInv', PlacementInv, TimedInv,
           \/ AcScan \/ AcPoll \/ TxWait \/ RadioStandby
           \/ (TxStage \/ CadStage) /\ pc' # "host"
    PROVE  TimedInv'
PROOF
  <1>1. /\ chip \in ChipStates /\ Standby(chip).air = Silence /\ Standby(chip).irq = chip.irq
        /\ Enter(chip, "CAD").air = Silence /\ Enter(chip, "TX").air = Silence
        /\ AirWhileListening
    BY ResettleFacts, StandbyLemma, EnterLemma
  <1>2. CASE AcScan
    BY <1>1, <1>2, TimerKept DEF AcScan, StagePcs
  <1>3. CASE AcPoll \/ TxWait
    <2>1. chip.air = Silence
      BY <1>1, <1>3 DEF AcPoll, TxWait, SafetyInv, ChipModes, AirWhileListening
    <2>2. chip'.air = chip.air
      <3>1. {"CAD_DONE", "CAD_DETECTED"} \in SUBSET IrqFlags
        BY DEF IrqFlags
      <3> QED
        BY <1>1, <1>3, <3>1, ClearLemma DEF AcPoll, TxWait
    <2>3. UNCHANGED <<guardVars, heard>>
      BY <1>3 DEF AcPoll, TxWait
    <2> QED
      BY <2>1, <2>2, <2>3, TimerKept
  <1>4. CASE RadioStandby
    BY <1>1, <1>4, TimerKept DEF RadioStandby
  <1>5. CASE (TxStage \/ CadStage) /\ pc' # "host"
    BY <1>1, <1>5, TimerKept DEF TxStage, CadStage
  <1> QED
    BY <1>2, <1>3, <1>4, <1>5

\* Steps that touch neither the chip nor the guard; and serving DIO1, which forgets
\* every flag on its way to the re-arm.
LEMMA QuietTimed ==
    ASSUME SafetyInv, SafetyInv', PlacementInv, TimedInv,
           \/ LoopIrq \/ HostDone \/ MaintIdle \/ SetLna \/ AnswerOnly \/ NvWrite
           \/ Acknowledge \/ RadioResume \/ SetAutoCad \/ Reboot \/ UNCHANGED vars
    PROVE  TimedInv'
PROOF
  <1>1. CASE UNCHANGED <<chip, guardVars, heard, placed, pc>>
    BY <1>1 DEF TimedInv, FramesHeard, FlagsLatched, Timed, TimerRuns
  <1>2. CASE /\ UNCHANGED <<chip, guardVars, heard, placed>>
             /\ pc # "rearm" /\ pc' \notin StagePcs \cup {"acFail"}
    BY <1>2, TimerKept
  <1>3. CASE Reboot
    <2>1. /\ chip'.air = Silence /\ protected' = NoFrame /\ heard' = heard
      BY <1>3 DEF Reboot, PoweredOff
    <2>2. chip' \in ChipStates
      BY DEF SafetyInv, TypeInv, TypeOK
    <2> QED
      BY <2>1, <2>2, AirShape DEF TimedInv, FramesHeard, FlagsLatched, Timed
  <1>4. CASE LoopIrq /\ dio1Flag /\ ~isTxActive
    <2>1. pc' = "rearm" /\ UNCHANGED <<guardVars, heard, placed>>
      BY <1>4 DEF LoopIrq
    <2>2. chip' = chip \/ (chip'.air = chip.air /\ chip'.irq = {})
      <3>1. chip \in ChipStates /\ IrqFlags \in SUBSET IrqFlags
        BY DEF SafetyInv, TypeInv, TypeOK
      <3>2. chip.irq \ IrqFlags = {}
        BY <3>1 DEF ChipStates
      <3> QED
        BY <1>4, <3>1, <3>2, ClearLemma DEF LoopIrq
    <2> QED
      BY <2>1, <2>2 DEF TimedInv, FramesHeard, FlagsLatched, StagePcs
  <1> QED
    BY <1>1, <1>2, <1>3, <1>4 DEF LoopIrq, HostDone, MaintIdle, SetLna, AnswerOnly, NvWrite,
       Acknowledge, RadioResume, SetAutoCad, StagePcs

\* A new preamble is of a frame never heard; a header follows its preamble within
\* PreambleTime; time passes for the timer and for the frame alike.
LEMMA AirTimed ==
    ASSUME SafetyInv, SafetyInv', PlacementInv, TimedInv, Air \/ Chip \/ Tick
    PROVE  TimedInv'
PROOF
  <1>1. /\ chip \in ChipStates /\ chip' \in ChipStates /\ rxHeaderSeen \in BOOLEAN
        /\ rxActivityAge \in -1 .. HeaderBound + 1 /\ heard \in SUBSET Frames
        /\ HeaderBound \in Nat /\ PreambleTime \in Nat
    BY TimeAssumption DEF SafetyInv, TypeInv, TypeOK
  <1>2. CASE PreambleCaught
    <2>1. PICK f \in Frames \ heard :
            /\ heard' = heard \cup {f}
            /\ chip'.air.frame = f /\ chip'.air.stage = "preamble"
            /\ chip'.irq = chip.irq \cup {"PREAMBLE"}
            /\ UNCHANGED <<pc, placed, guardVars>>
      BY <1>1, <1>2 DEF PreambleCaught, ChipStates
    <2>2. f # protected
      BY <2>1, FrameAssumption DEF TimedInv, FramesHeard
    <2>3. ~Timed'
      BY <2>1, <2>2 DEF Timed
    <2> QED
      BY <2>1, <2>3 DEF TimedInv, FramesHeard, FlagsLatched
  <1>3. CASE HeaderReceived
    <2>1. /\ chip.air.stage = "preamble" /\ chip'.air.stage = "header"
          /\ chip'.air.frame = chip.air.frame /\ chip'.air.age = 0
          /\ chip'.irq = chip.irq \cup {"HEADER"}
          /\ UNCHANGED <<pc, placed, guardVars, heard>>
      BY <1>1, <1>3 DEF HeaderReceived, ChipStates, AirStates
    <2>2. Timed' => Timed
      BY <2>1 DEF Timed
    <2>3. chip.air.age \in 0 .. PreambleTime
      BY <1>1, <2>1, AirShape
    <2>4. TimerRuns => TimerRuns'
      BY <1>1, <2>1, <2>3 DEF TimerRuns
    <2> QED
      BY <2>1, <2>2, <2>4 DEF TimedInv, FramesHeard, FlagsLatched
  <1>4. CASE PreambleLost \/ FrameReceived
    <2>1. chip'.air = Silence /\ UNCHANGED <<guardVars, heard>>
      BY <1>1, <1>4 DEF PreambleLost, FrameReceived, ChipStates
    <2> QED
      BY <2>1, TimerKept
  <1>5. CASE ScanCompleted \/ TransmissionCompleted
    <2>1. chip'.air = chip.air /\ chip.mode # "RX" /\ UNCHANGED <<guardVars, heard>>
      BY <1>1, <1>5 DEF ScanCompleted, TransmissionCompleted, ChipStates
    <2> QED
      BY <2>1, TimerKept DEF PlacementInv, AirWhileListening
  <1>6. CASE Tick /\ chip.air = Silence
    <2>1. chip' = chip /\ UNCHANGED <<heard, protected>>
      BY <1>6 DEF Tick
    <2> QED
      BY <1>1, <1>6, <2>1, AirShape DEF TimedInv, FramesHeard, FlagsLatched, Timed
  <1>7. CASE Tick /\ chip.air # Silence
    <2>1. /\ chip'.air.stage = chip.air.stage /\ chip'.air.frame = chip.air.frame
          /\ chip'.air.age = chip.air.age + 1 /\ chip'.irq = chip.irq
          /\ UNCHANGED <<pc, placed, protected, heard, rxHeaderSeen>>
      <3>1. chip' = [chip EXCEPT !.air.age = @ + 1]
        BY <1>7 DEF Tick
      <3> QED
        BY <1>1, <1>7, <3>1 DEF Tick, ChipStates, AirStates
    <2>2. rxActivityAge' \in {rxActivityAge, rxActivityAge + 1}
      BY <1>7 DEF Tick
    <2>3. Timed' => Timed
      BY <2>1 DEF Timed
    <2>4. chip.air.age \in Nat
      BY <1>1, <1>7, AirShape, TimeAssumption
    <2>5. TimerRuns => TimerRuns'
      BY <1>1, <2>1, <2>2, <2>4 DEF TimerRuns
    <2> QED
      BY <2>1, <2>3, <2>5 DEF TimedInv, FramesHeard, FlagsLatched
  <1> QED
    BY <1>2, <1>3, <1>4, <1>5, <1>6, <1>7 DEF Air, Chip

\* TimedInv is inductive relative to SafetyInv and PlacementInv.
LEMMA TimedStep == SafetyInv /\ SafetyInv' /\ PlacementInv /\ TimedInv /\ [Next]_vars => TimedInv'
PROOF
  <1> SUFFICES ASSUME SafetyInv, SafetyInv', PlacementInv, TimedInv, [Next]_vars
               PROVE  TimedInv'
    OBVIOUS
  <1>1. CASE \/ Boot \/ TxFinish \/ CadPoll \/ SetConfig \/ ResumeApply
             \/ (TxStage \/ CadStage) /\ pc' = "host"
    BY <1>1, ResettledTimed
  <1>2. CASE \/ AcScan \/ AcPoll \/ TxWait \/ RadioStandby
             \/ (TxStage \/ CadStage) /\ pc' # "host"
    BY <1>2, HandlerTimed
  <1>3. CASE Rearm \/ AcFail \/ RxStart \/ AgcRun \/ AgcRestart
    BY <1>3, RestartTimed
  <1>4. CASE \/ LoopIrq \/ HostDone \/ MaintIdle \/ SetLna \/ AnswerOnly \/ NvWrite
             \/ Acknowledge \/ RadioResume \/ SetAutoCad \/ Reboot \/ UNCHANGED vars
    BY <1>4, QuietTimed
  <1>5. CASE Air \/ Chip \/ Tick
    BY <1>5, AirTimed
  <1>6. CASE AgcGuard \/ TxRequest \/ AcGuard \/ CadRequest
    BY <1>6, GuardTimed
  <1> QED
    BY <1>1, <1>2, <1>3, <1>4, <1>5, <1>6 DEF Next, Loop, Handler, Host

\* TimedInv holds in every reachable state.
LEMMA TimedInvariant == Spec => []TimedInv
PROOF
  <1>1. Init => TimedInv
    <2> SUFFICES ASSUME Init PROVE TimedInv
      OBVIOUS
    <2>1. pc = "boot" /\ chip.air = Silence /\ heard = {} /\ protected = NoFrame
      BY DEF Init, Powered, PoweredOff
    <2>2. chip.air.stage = "none" /\ chip.air.frame = NoFrame
      BY <2>1 DEF Silence
    <2> QED
      BY <2>1, <2>2 DEF TimedInv, FramesHeard, FlagsLatched, Timed
  <1>2. SafetyInv /\ PlacementInv /\ TimedInv /\ [Next]_vars => TimedInv'
    BY TimedStep, SafetyStep
  <1> QED
    BY <1>1, <1>2, SafetyInvariant, PlacementInvariant, PTL DEF Spec

\* A frame the guard has timed is not aborted by a TX, a scan or an AGC pass within
\* its airtime: isReceivingPacket() gives up on latched flags alone, never on a
\* reception it has started to time.
THEOREM ReceptionsProtected == Spec => []TimedReceptionSurvives
PROOF
  <1>1. SafetyInv /\ TimedInv => TimedReceptionSurvives
    <2> SUFFICES ASSUME SafetyInv, TimedInv PROVE TimedReceptionSurvives
      OBVIOUS
    <2>1. chip \in ChipStates
      BY DEF SafetyInv, TypeInv, TypeOK
    <2> QED
      BY <2>1, AirShape DEF TimedInv, Timed, TimedReceptionSurvives
  <1> QED
    BY <1>1, TimedInvariant, SafetyInvariant, PTL
-----------------------------------------------------------------------------
(* What loop() serves.                                                     *)

\* The handlers that wait for the chip; they forget the edge when they stop.
WaitPcs == {"acWait", "cadWait", "txWait", "txFinish"}

\* Every frame goes from the air to the buffer to the host once, and outside the
\* waits an edge on DIO1 announces a frame that has not gone the last step.
ServedInv ==
    /\ delivered \subseteq heard
    /\ chip.buf \in heard \cup {NoFrame}
    /\ chip.air.frame \in heard \cup {NoFrame}
    /\ chip.air.frame \notin delivered
    /\ chip.air.stage # "none" => chip.buf # chip.air.frame
    /\ dio1Flag /\ pc \notin WaitPcs => chip.buf \notin delivered \cup {NoFrame}

\* A step that raises no edge and at most silences the air.
LEMMA ServedKept ==
    ASSUME SafetyInv, ServedInv, UNCHANGED <<heard, delivered>>,
           chip'.buf = chip.buf, chip'.air = chip.air \/ chip'.air = Silence,
           dio1Flag' = FALSE \/ (dio1Flag' = dio1Flag /\ (pc \in WaitPcs => pc' \in WaitPcs))
    PROVE  ServedInv'
PROOF
  <1>1. chip \in ChipStates /\ delivered \in SUBSET Frames
    BY DEF SafetyInv, TypeInv, TypeOK
  <1>2. Silence.frame = NoFrame /\ Silence.stage = "none" /\ NoFrame \notin delivered
    BY <1>1, FrameAssumption DEF Silence
  <1>3. CASE chip'.air = chip.air
    BY <1>3 DEF ServedInv
  <1>4. CASE chip'.air = Silence
    BY <1>2, <1>4 DEF ServedInv
  <1> QED
    BY <1>3, <1>4

\* Every way back to startReceive() and every applyConfig().
LEMMA RestartServed ==
    ASSUME SafetyInv, PlacementInv, ServedInv,
           \/ Boot \/ Rearm \/ AcFail \/ RxStart \/ AgcRun \/ AgcRestart \/ TxFinish
           \/ CadPoll \/ SetConfig \/ ResumeApply
           \/ (TxStage \/ CadStage) /\ pc' = "host"
    PROVE  ServedInv'
PROOF
  <1>1. /\ UNCHANGED <<heard, delivered>>
        /\ dio1Flag' = FALSE \/ (dio1Flag' = dio1Flag /\ pc \notin WaitPcs)
    BY DEF Boot, BootRadio, BootWithoutRadio, Rearm, AcFail, RxStart, AgcRun, AgcRestart,
       TxFinish, CadPoll, SetConfig, ResumeApply, TxStage, CadStage, WaitPcs
  <1>2. CASE chip' = chip
    BY <1>1, <1>2, ServedKept
  <1>3. CASE Resettled
    BY <1>1, <1>3, ServedKept DEF Resettled
  <1>4. BootWithoutRadio \/ (AgcRun /\ dio1Flag) => chip' = chip
    BY DEF BootWithoutRadio, AgcRun
  <1> QED
    BY <1>2, <1>3, <1>4, RestartsResettle, MaintenanceResettles, FailedStartsResettle,
       TxFinishResettles, CadPollResettles, ConfigurationResettles, BootRadioResettles DEF Boot

\* The guards, the starts of scans and transmissions, and their waits.
LEMMA HandlerServed ==
    ASSUME SafetyInv, PlacementInv, ServedInv,
           \/ AgcGuard \/ TxRequest \/ AcGuard \/ CadRequest \/ AcScan \/ AcPoll \/ TxWait
           \/ RadioStandby
           \/ (TxStage \/ CadStage) /\ pc' # "host"
    PROVE  ServedInv'
PROOF
  <1>1. chip \in ChipStates
    BY DEF SafetyInv, TypeInv, TypeOK
  <1>2. /\ UNCHANGED <<heard, delivered>>
        /\ dio1Flag' = FALSE \/ (dio1Flag' = dio1Flag /\ (pc \in WaitPcs => pc' \in WaitPcs))
    BY DEF AgcGuard, TxRequest, AcGuard, CadRequest, AcScan, AcPoll, TxWait, RadioStandby,
       TxStage, CadStage, WaitPcs
  <1>3. chip'.buf = chip.buf /\ (chip'.air = chip.air \/ chip'.air = Silence)
    <2>1. CASE AgcGuard \/ TxRequest \/ AcGuard \/ CadRequest
      <3>1. \E busyPc, clearPc : Guard(busyPc, clearPc)
        BY <2>1 DEF AgcGuard, TxRequest, AcGuard, CadRequest
      <3> QED
        BY <3>1, GuardAir
    <2>2. CASE AcScan \/ RadioStandby \/ ((TxStage \/ CadStage) /\ pc' # "host")
      <3>1. chip' \in {chip, Standby(chip), Enter(chip, "CAD"), Enter(chip, "TX")}
        BY <2>2 DEF AcScan, RadioStandby, TxStage, CadStage
      <3> QED
        BY <1>1, <3>1, StandbyLemma, EnterLemma
    <2>3. CASE AcPoll \/ TxWait
      <3>1. {"CAD_DONE", "CAD_DETECTED"} \in SUBSET IrqFlags
        BY DEF IrqFlags
      <3> QED
        BY <1>1, <2>3, <3>1, ClearLemma DEF AcPoll, TxWait
    <2> QED
      BY <2>1, <2>2, <2>3
  <1> QED
    BY <1>2, <1>3, ServedKept

\* handleLoRaRx() hands over the buffer, which is not the frame in the air.
LEMMA LoopIrqServed ==
    ASSUME SafetyInv, ServedInv, LoopIrq
    PROVE  ServedInv'
PROOF
  <1>1. /\ chip \in ChipStates /\ IrqFlags \in SUBSET IrqFlags
        /\ delivered \in SUBSET Frames
    BY DEF SafetyInv, TypeInv, TypeOK
  <1>2. chip'.buf = chip.buf /\ chip'.air = chip.air /\ heard' = heard
    BY <1>1, ClearLemma DEF LoopIrq
  <1>3. CASE delivered' = delivered
    BY <1>2, <1>3, ServedKept DEF LoopIrq, WaitPcs
  <1>4. CASE delivered' = delivered \cup {chip.buf} /\ chip.buf # NoFrame /\ dio1Flag' = FALSE
    <2>1. chip.air.frame # chip.buf
      BY <1>1, <1>4, AirShape DEF ServedInv
    <2> QED
      BY <1>2, <1>4, <2>1 DEF ServedInv
  <1> QED
    BY <1>3, <1>4 DEF LoopIrq

\* A preamble is of a frame nobody has heard; a frame that ends replaces the buffer
\* by one that was not delivered; without overruns the other edges are of a scan or
\* a transmission that a handler waits for.
LEMMA ChipServed ==
    ASSUME SafetyInv, PlacementInv, ServedInv, CadOverruns = FALSE, Air \/ Chip \/ Tick
    PROVE  ServedInv'
PROOF
  <1>1. /\ chip \in ChipStates /\ delivered \in SUBSET Frames /\ heard \in SUBSET Frames
        /\ dio1Flag \in BOOLEAN
    BY DEF SafetyInv, TypeInv, TypeOK
  <1>2. CASE PreambleCaught
    <2>1. PICK f \in Frames \ heard :
            /\ heard' = heard \cup {f}
            /\ chip'.air.frame = f /\ chip'.buf = chip.buf
            /\ UNCHANGED <<pc, delivered, dio1Flag>>
      BY <1>1, <1>2 DEF PreambleCaught, ChipStates
    <2>2. f # chip.buf /\ f \notin delivered
      BY <2>1, FrameAssumption DEF ServedInv
    <2> QED
      BY <2>1, <2>2 DEF ServedInv
  <1>3. CASE HeaderReceived \/ (Tick /\ chip.air # Silence)
    <2>1. /\ chip'.air.frame = chip.air.frame /\ chip'.buf = chip.buf
          /\ UNCHANGED <<pc, delivered, heard, dio1Flag>>
      <3>1. CASE HeaderReceived
        BY <1>1, <3>1 DEF HeaderReceived, ChipStates, AirStates
      <3>2. CASE Tick /\ chip.air # Silence
        <4>1. chip' = [chip EXCEPT !.air.age = @ + 1]
          BY <3>2 DEF Tick
        <4> QED
          BY <1>1, <3>2, <4>1 DEF Tick, ChipStates, AirStates
      <3> QED
        BY <1>3, <3>1, <3>2
    <2>2. chip.air.stage # "none"
      BY <1>1, <1>3, AirShape DEF HeaderReceived
    <2> QED
      BY <2>1, <2>2 DEF ServedInv
  <1>4. CASE PreambleLost \/ (Tick /\ chip.air = Silence)
    <2>1. /\ chip'.air = Silence /\ chip'.buf = chip.buf
          /\ UNCHANGED <<pc, delivered, heard, dio1Flag>>
      BY <1>1, <1>4 DEF PreambleLost, Tick, ChipStates
    <2> QED
      BY <2>1, ServedKept
  <1>5. CASE FrameReceived
    <2>1. /\ chip'.air = Silence /\ chip'.buf = chip.air.frame /\ chip.air.stage = "header"
          /\ UNCHANGED <<pc, delivered, heard>>
      BY <1>1, <1>5 DEF FrameReceived, ChipStates
    <2>2. chip.air.frame # NoFrame
      BY <1>1, <2>1, AirShape, FrameAssumption
    <2>3. Silence.frame = NoFrame /\ Silence.stage = "none" /\ NoFrame \notin delivered
      BY <1>1, FrameAssumption DEF Silence
    <2> QED
      BY <2>1, <2>2, <2>3 DEF ServedInv
  <1>6. CASE ScanCompleted \/ TransmissionCompleted
    <2>1. /\ chip'.air = chip.air /\ chip'.buf = chip.buf
          /\ UNCHANGED <<pc, delivered, heard>>
      BY <1>1, <1>6 DEF ScanCompleted, TransmissionCompleted, ChipStates
    <2>2. pc \in WaitPcs
      BY <1>6 DEF ScanCompleted, TransmissionCompleted, SafetyInv, ChipModes, WaitPcs
    <2> QED
      BY <2>1, <2>2 DEF ServedInv
  <1> QED
    BY <1>2, <1>3, <1>4, <1>5, <1>6 DEF Air, Chip

\* ServedInv is inductive relative to SafetyInv and PlacementInv, as long as every
\* scan ends while it is waited for.
LEMMA ServedStep ==
    ASSUME CadOverruns = FALSE
    PROVE  SafetyInv /\ PlacementInv /\ ServedInv /\ [Next]_vars => ServedInv'
PROOF
  <1> SUFFICES ASSUME SafetyInv, PlacementInv, ServedInv, [Next]_vars PROVE ServedInv'
    OBVIOUS
  <1>1. CASE \/ Boot \/ Rearm \/ AcFail \/ RxStart \/ AgcRun \/ AgcRestart \/ TxFinish
             \/ CadPoll \/ SetConfig \/ ResumeApply
             \/ (TxStage \/ CadStage) /\ pc' = "host"
    BY <1>1, RestartServed
  <1>2. CASE \/ AgcGuard \/ TxRequest \/ AcGuard \/ CadRequest \/ AcScan \/ AcPoll \/ TxWait
             \/ RadioStandby
             \/ (TxStage \/ CadStage) /\ pc' # "host"
    BY <1>2, HandlerServed
  <1>3. CASE LoopIrq
    BY <1>3, LoopIrqServed
  <1>4. CASE Air \/ Chip \/ Tick
    BY <1>4, ChipServed
  <1>5. CASE \/ HostDone \/ MaintIdle \/ SetLna \/ AnswerOnly \/ NvWrite \/ Acknowledge
             \/ RadioResume \/ SetAutoCad \/ UNCHANGED vars
    <2>1. /\ UNCHANGED <<chip, heard, delivered, dio1Flag>>
          /\ pc' = pc \/ pc \notin WaitPcs
      BY <1>5 DEF HostDone, MaintIdle, SetLna, AnswerOnly, NvWrite, Acknowledge, RadioResume,
         SetAutoCad, WaitPcs
    <2> QED
      BY <2>1, ServedKept
  <1>6. CASE Reboot
    <2>1. /\ chip'.air = Silence /\ chip'.buf = NoFrame /\ dio1Flag' = FALSE
          /\ UNCHANGED <<heard, delivered>>
      BY <1>6 DEF Reboot, PoweredOff
    <2>2. Silence.frame = NoFrame /\ Silence.stage = "none" /\ NoFrame \notin delivered
      BY FrameAssumption DEF Silence, SafetyInv, TypeInv, TypeOK
    <2> QED
      BY <2>1, <2>2 DEF ServedInv
  <1> QED
    BY <1>1, <1>2, <1>3, <1>4, <1>5, <1>6 DEF Next, Loop, Handler, Host

\* As long as every scan ends while its handler waits for it, what loop() serves as a
\* reception is one the host has not been handed: no edge of a transmission or a
\* scan outlives its handler.  (A scan that ends late breaks this: see the run
\* radio_late_cad.)
THEOREM ServedOnce ==
    ASSUME CadOverruns = FALSE
    PROVE  Spec => ServedIrqIsReception
PROOF
  <1>1. Init => ServedInv
    <2> SUFFICES ASSUME Init PROVE ServedInv
      OBVIOUS
    <2>1. /\ chip.air = Silence /\ chip.buf = NoFrame /\ heard = {} /\ delivered = {}
          /\ dio1Flag = FALSE
      BY DEF Init, Powered, PoweredOff
    <2>2. Silence.frame = NoFrame /\ Silence.stage = "none"
      BY DEF Silence
    <2> QED
      BY <2>1, <2>2 DEF ServedInv
  <1>2. SafetyInv /\ PlacementInv /\ ServedInv /\ [Next]_vars => ServedInv'
    BY ServedStep
  <1>3. ServedInv /\ [Next]_vars
        => [pc = "irq" /\ pc' = "rearm" => chip.buf \notin delivered \cup {NoFrame}]_vars
    <2> SUFFICES ASSUME ServedInv, [Next]_vars, pc = "irq", pc' = "rearm"
                 PROVE  chip.buf \notin delivered \cup {NoFrame}
      OBVIOUS
    <2>1. LoopIrq
      BY DEF Next, Boot, BootRadio, BootWithoutRadio, Loop, Rearm, HostDone, MaintIdle,
         AgcGuard, AgcRun, AgcRestart, Handler, AcGuard, AcScan, AcPoll, AcFail, TxStage,
         TxWait, TxFinish, CadStage, CadPoll, NvWrite, Acknowledge, ResumeApply, Host,
         AnswerOnly, TxRequest, CadRequest, RxStart, SetConfig, RadioStandby, RadioResume,
         SetAutoCad, SetLna, Reboot, Air, PreambleCaught, HeaderReceived, PreambleLost,
         FrameReceived, Chip, ScanCompleted, TransmissionCompleted, Tick
    <2> QED
      BY <2>1 DEF LoopIrq, ServedInv, WaitPcs
  <1> QED
    BY <1>1, <1>2, <1>3, SafetyInvariant, PlacementInvariant, PTL DEF Spec, ServedIrqIsReception
=============================================================================
