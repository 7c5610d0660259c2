-------------------------- MODULE RadioSafetyProofs --------------------------
(***************************************************************************)
(* Types and safety of the radio core, for any set of frames and           *)
(* configurations, any airtime bounds and any number of driver failures.   *)
(*                                                                         *)
(* First the types: what each operation of the driver and each handler     *)
(* returns.  Then SafetyInv, which joins what the properties need to be    *)
(* inductive: which chip modes a point of the loop allows, whose           *)
(* configuration the chip holds, and which IRQ flags it can have latched.  *)
(***************************************************************************)
EXTENDS RadioCore, TLAPS

\* The reset of dio1Flag and the groups of variables that the actions leave alone
\* are always expanded.
USE DEF EdgeForgotten, vars, fwVars, guardVars, nvVars, hostVars, airVars, faultVars, chipOnly

(* Types *)

\* A chip configured in standby: what applyConfig() leaves behind.
LEMMA ConfiguredLemma ==
    ASSUME NEW c \in ChipStates, NEW held \in Configs \cup {PartialConfig}
    PROVE  LET d == [Standby(c) EXCEPT !.cfg = held]
           IN  /\ d \in ChipStates
               /\ d.mode = "STDBY" /\ d.irq = c.irq /\ d.buf = c.buf /\ d.cfg = held
BY DEF Standby, ChipStates, AirStates, Silence

\* Every outcome of applyConfig(): the chip is untouched or in standby, and
\* success means that it holds the configuration asked for.
LEMMA ApplyLemma ==
    ASSUME NEW cfg \in Configs, NEW c \in ChipStates, NEW spent \in 0 .. MaxFaults,
           NEW r \in ApplyResults(cfg, c, spent)
    PROVE  /\ r.ok \in BOOLEAN
           /\ r.chip \in ChipStates
           /\ r.faults \in 0 .. MaxFaults
           /\ r.chip = c \/ (r.chip.mode = "STDBY" /\ r.chip.irq = c.irq /\ r.chip.buf = c.buf)
           /\ r.ok => r.chip.cfg = cfg /\ r.chip.mode = "STDBY"
PROOF
  <1> DEFINE whole == [Standby(c) EXCEPT !.cfg = cfg]
             half == [Standby(c) EXCEPT !.cfg = PartialConfig]
  <1>1. MaxFaults \in Nat
    BY SwitchAssumption
  <1>2. /\ \/ r = [ok |-> TRUE, chip |-> whole, faults |-> spent + 0]
           \/ r = [ok |-> FALSE, chip |-> half, faults |-> spent + 1]
           \/ r = [ok |-> FALSE, chip |-> half, faults |-> spent + 0]
           \/ r = [ok |-> FALSE, chip |-> c, faults |-> spent + 1]
        /\ r.faults <= MaxFaults
    BY DEF ApplyResults
  <1>3. /\ whole \in ChipStates /\ whole.mode = "STDBY" /\ whole.cfg = cfg
        /\ whole.irq = c.irq /\ whole.buf = c.buf
    BY ConfiguredLemma
  <1>4. /\ half \in ChipStates /\ half.mode = "STDBY"
        /\ half.irq = c.irq /\ half.buf = c.buf
    BY ConfiguredLemma
  <1>5. r.faults \in 0 .. MaxFaults
    BY <1>1, <1>2
  <1> HIDE DEF whole, half
  <1>6. \/ r.ok = TRUE /\ r.chip = whole
        \/ r.ok = FALSE /\ r.chip = half
        \/ r.ok = FALSE /\ r.chip = c
    BY <1>2
  <1> QED
    BY <1>3, <1>4, <1>5, <1>6

\* What the chip operations do to a chip state.
LEMMA ChipLemma ==
    ASSUME NEW c \in ChipStates
    PROVE  /\ Standby(c) \in ChipStates
           /\ Standby(c).mode = "STDBY" /\ Standby(c).cfg = c.cfg
           /\ Standby(c).irq = c.irq /\ Standby(c).buf = c.buf
           /\ \A m \in {"STDBY", "RX", "CAD", "TX"} :
                /\ Enter(c, m) \in ChipStates
                /\ Enter(c, m).mode = m /\ Enter(c, m).cfg = c.cfg
                /\ Enter(c, m).irq = {} /\ Enter(c, m).buf = c.buf
           /\ \A flags \in SUBSET IrqFlags :
                /\ ClearIrq(c, flags) \in ChipStates
                /\ ClearIrq(c, flags).mode = c.mode /\ ClearIrq(c, flags).cfg = c.cfg
                /\ ClearIrq(c, flags).irq = c.irq \ flags
                /\ ClearIrq(c, flags).buf = c.buf
BY DEF Standby, Enter, ClearIrq, ChipStates, AirStates, Silence

\* The two front-end states of rf_frontend.cpp are front-end states.
LEMMA FrontEndLemma ==
    ASSUME NEW f \in FrontEndStates
    PROVE  ReceiveFrontEnd(f) \in FrontEndStates /\ BypassedFrontEnd(f) \in FrontEndStates
BY DEF FrontEndStates, ReceiveFrontEnd, BypassedFrontEnd

\* Every outcome of startReceive(): nothing in hard standby, else RX or a failure
\* that leaves the chip alone.
LEMMA StartReceiveLemma ==
    ASSUME NEW c \in ChipStates, NEW f \in FrontEndStates, NEW standby,
           NEW spent \in 0 .. MaxFaults, placed \in BOOLEAN,
           StartReceive(c, f, standby, spent)
    PROVE  /\ chip' \in ChipStates /\ rf' \in FrontEndStates
           /\ placed' \in BOOLEAN /\ faults' \in 0 .. MaxFaults
           /\ chip' = c \/ chip' = Enter(c, "RX")
PROOF
  <1>1. MaxFaults \in Nat
    BY SwitchAssumption
  <1>2. Enter(c, "RX") \in ChipStates
    BY ChipLemma
  <1>3. ReceiveFrontEnd(f) \in FrontEndStates
    BY FrontEndLemma
  <1> QED
    <2>1. CASE chip' = c /\ rf' = f /\ placed' = placed /\ faults' = spent
      BY <2>1
    <2>2. CASE /\ chip' = Enter(c, "RX") /\ rf' = ReceiveFrontEnd(f)
               /\ placed' = TRUE /\ faults' = spent
      BY <1>2, <1>3, <2>2
    <2>3. CASE /\ spent < MaxFaults
               /\ chip' = c /\ rf' = ReceiveFrontEnd(f)
               /\ placed' = FALSE /\ faults' = spent + 1
      <3>1. faults' \in 0 .. MaxFaults
        BY <1>1, <2>3
      <3> QED
        BY <1>3, <2>3, <3>1
    <2> QED
      BY <2>1, <2>2, <2>3 DEF StartReceive, EnterReceive, StayParked

\* What isReceivingPacket() changes.
LEMMA GuardLemma ==
    ASSUME NEW busyPc, NEW clearPc, TypeOK, Guard(busyPc, clearPc)
    PROVE  /\ rxHeaderSeen' \in BOOLEAN
           /\ rxActivityAge' \in -1 .. HeaderBound + 1
           /\ protected' \in Frames \cup {NoFrame}
           /\ chip' \in ChipStates
           /\ chip'.mode = chip.mode /\ chip'.cfg = chip.cfg /\ chip'.buf = chip.buf
           /\ chip'.irq \cap DioMask = chip.irq \cap DioMask
           /\ Receiving => chip'.irq = chip.irq
           /\ pc' = IF Receiving THEN busyPc ELSE clearPc
PROOF
  <1>1. HeaderBound \in Nat
    BY TimeAssumption
  <1>2. StaleFlags \in {{}, {"PREAMBLE"}, {"PREAMBLE", "HEADER"}}
        /\ (Receiving => StaleFlags = {})
    BY DEF StaleFlags
  <1>3. /\ chip \in ChipStates /\ protected \in Frames \cup {NoFrame}
        /\ chip.air.frame \in Frames \cup {NoFrame}
        /\ rxActivityAge \in -1 .. HeaderBound + 1
    BY DEF TypeOK, ChipStates, AirStates
  <1>4. /\ chip' = ClearIrq(chip, StaleFlags)
        /\ StaleFlags \in SUBSET IrqFlags /\ StaleFlags \cap DioMask = {}
    BY <1>2 DEF Guard, IrqFlags, DioMask
  <1>5. HeaderAge \in -1 .. HeaderBound + 1 /\ PreambleAge \in -1 .. HeaderBound + 1
    BY <1>1, <1>3 DEF HeaderAge, PreambleAge
  <1>6. rxActivityAge' \in {-1, HeaderAge, PreambleAge}
    BY DEF Guard
  <1>7. chip' \in ChipStates /\ chip'.mode = chip.mode /\ chip'.cfg = chip.cfg
        /\ chip'.buf = chip.buf /\ chip'.irq = chip.irq \ StaleFlags
    BY <1>3, <1>4, ChipLemma
  <1>8. rxActivityAge' \in -1 .. HeaderBound + 1
    BY <1>1, <1>5, <1>6
  <1>9. rxHeaderSeen' \in BOOLEAN /\ pc' = IF Receiving THEN busyPc ELSE clearPc
    BY DEF Guard
  <1>10. protected' \in Frames \cup {NoFrame}
    BY <1>3 DEF Guard
  <1>11. chip'.irq \cap DioMask = chip.irq \cap DioMask
    BY <1>4, <1>7
  <1>12. Receiving => chip'.irq = chip.irq
    BY <1>2, <1>7
  <1> QED
    BY <1>7, <1>8, <1>9, <1>10, <1>11, <1>12
-----------------------------------------------------------------------------
\* Init establishes the types.
LEMMA InitTypeOK == Init => TypeOK
PROOF
  <1>1. PoweredOff \in ChipStates
    BY DEF PoweredOff, ChipStates, AirStates, Silence
  <1> SUFFICES ASSUME Init PROVE TypeOK
    OBVIOUS
  <1>2. PICK b \in Boards : Powered(b, [standby |-> "missing", autocad |-> "missing"])
    BY DEF Init
  <1>3. /\ nv \in [standby : {"missing", "off", "on"}, autocad : {"missing", "off", "on"}]
        /\ board \in Boards /\ currentConfig \in Configs /\ chip \in ChipStates
        /\ pc = "boot" /\ persist = "none" /\ rxActivityAge = -1 /\ attempt = 0
    BY <1>1, <1>2, ConfigAssumption DEF Powered, Configs
  <1>4. /\ radioReady = FALSE /\ radioStandby = FALSE /\ autoCadEnabled = FALSE
        /\ isTxActive = FALSE /\ radioTxReady = FALSE /\ dio1Flag = FALSE
        /\ rxHeaderSeen = FALSE /\ txOk = FALSE
    BY <1>2 DEF Powered
  <1>5. /\ rf \in FrontEndStates
        /\ reply = "none" /\ witness = "none" /\ heard = {} /\ delivered = {}
        /\ protected = NoFrame /\ placed = TRUE /\ faults = 0
    BY DEF Init, FrontEndStates
  <1>6. HeaderBound \in Nat /\ MaxFaults \in Nat
    BY TimeAssumption, SwitchAssumption
  <1>7. /\ radioReady \in BOOLEAN /\ radioStandby \in BOOLEAN
        /\ autoCadEnabled \in BOOLEAN /\ isTxActive \in BOOLEAN
        /\ radioTxReady \in BOOLEAN /\ dio1Flag \in BOOLEAN
        /\ rxHeaderSeen \in BOOLEAN /\ txOk \in BOOLEAN
    BY <1>4
  <1>8. placed \in BOOLEAN
    BY <1>5
  <1>9. faults \in 0 .. MaxFaults
    BY <1>5, <1>6
  <1>10. rxActivityAge \in -1 .. HeaderBound + 1 /\ attempt \in 0 .. CAD_AUTO_RETRIES
    BY <1>3, <1>6 DEF CAD_AUTO_RETRIES
  <1>11. protected \in Frames \cup {NoFrame} /\ heard \in SUBSET Frames /\ delivered \in SUBSET Frames
    BY <1>5
  <1>12. reply \in {"none", "pending", "OK", "ERR", "BUSY", "TX_DONE", "CLEAR", "DETECTED"}
    BY <1>5
  <1> QED
    BY <1>3, <1>5, <1>7, <1>8, <1>9, <1>10, <1>11, <1>12 DEF TypeOK, Pcs

\* A scan is only made while attempts are left.
AttemptsLeft == pc \in {"acGuard", "acScan", "acWait"} => attempt < CAD_AUTO_RETRIES

FlagTypes ==
    /\ radioReady \in BOOLEAN /\ radioStandby \in BOOLEAN
    /\ autoCadEnabled \in BOOLEAN /\ isTxActive \in BOOLEAN
    /\ radioTxReady \in BOOLEAN /\ dio1Flag \in BOOLEAN
    /\ rxHeaderSeen \in BOOLEAN /\ txOk \in BOOLEAN /\ placed \in BOOLEAN

NumberTypes ==
    /\ rxActivityAge \in -1 .. HeaderBound + 1
    /\ attempt \in 0 .. CAD_AUTO_RETRIES
    /\ faults \in 0 .. MaxFaults

NameTypes ==
    /\ pc \in Pcs /\ board \in Boards
    /\ currentConfig \in Configs
    /\ nv \in [standby : {"missing", "off", "on"}, autocad : {"missing", "off", "on"}]
    /\ persist \in {"none", "standby", "autocad"}
    /\ reply \in {"none", "pending", "OK", "ERR", "BUSY", "TX_DONE", "CLEAR", "DETECTED"}
    /\ witness \in {"none", "aired", "clear", "busy"}
    /\ heard \in SUBSET Frames
    /\ delivered \in SUBSET Frames
    /\ protected \in Frames \cup {NoFrame}

DeviceTypes == rf \in FrontEndStates /\ chip \in ChipStates

LEMMA TypeParts == TypeOK <=> FlagTypes /\ NumberTypes /\ NameTypes /\ DeviceTypes
BY DEF TypeOK, FlagTypes, NumberTypes, NameTypes, DeviceTypes

LEMMA TypePartsPrime == TypeOK' <=> FlagTypes' /\ NumberTypes' /\ NameTypes' /\ DeviceTypes'
BY DEF TypeOK, FlagTypes, NumberTypes, NameTypes, DeviceTypes


\* The variables startReceive() and applyConfig() write, after them.
RadioOutputs ==
    /\ chip' \in ChipStates /\ rf' \in FrontEndStates
    /\ placed' \in BOOLEAN /\ faults' \in 0 .. MaxFaults

\* setup() without a radio keeps the type of every variable.
LEMMA BootWithoutRadioTypes ==
    ASSUME FlagTypes, NumberTypes, NameTypes, DeviceTypes, BootWithoutRadio
    PROVE  FlagTypes' /\ NumberTypes' /\ NameTypes' /\ DeviceTypes'
PROOF
  <1>1. FlagTypes'
    BY DEF FlagTypes, BootWithoutRadio, Restored
  <1>2. NumberTypes'
    BY SwitchAssumption, TimeAssumption DEF NumberTypes, BootWithoutRadio, CAD_AUTO_RETRIES
  <1>3. NameTypes'
    BY DEF NameTypes, BootWithoutRadio, Pcs, LoopPcs, HandlerPcs, TxPcs, CadPcs, AckPcs
  <1>4. DeviceTypes'
    BY ChipLemma, FrontEndLemma DEF DeviceTypes, BootWithoutRadio, BootFrontEnd, FrontEndStates
  <1> QED
    BY <1>1, <1>2, <1>3, <1>4

\* setup() with a radio keeps the type of every variable.
LEMMA BootRadioTypes ==
    ASSUME FlagTypes, NumberTypes, NameTypes, DeviceTypes, BootRadio
    PROVE  FlagTypes' /\ NumberTypes' /\ NameTypes' /\ DeviceTypes'
PROOF
  <1>1. /\ RadioOutputs /\ radioTxReady' \in BOOLEAN /\ radioReady' \in BOOLEAN
        /\ radioStandby' \in BOOLEAN /\ autoCadEnabled' \in BOOLEAN
    <2>1. /\ chip \in ChipStates /\ rf \in FrontEndStates /\ placed \in BOOLEAN
          /\ faults \in 0 .. MaxFaults
      BY DEF DeviceTypes, FlagTypes, NumberTypes
    <2>2. radioStandby' \in BOOLEAN /\ autoCadEnabled' \in BOOLEAN
      BY DEF BootRadio, Restored
    <2>3. /\ Standby(chip) \in ChipStates /\ BootFrontEnd \in FrontEndStates
          /\ currentConfig \in Configs
      BY <2>1, ChipLemma DEF BootFrontEnd, FrontEndStates, NameTypes
    <2>4. PICK a \in ApplyResults(currentConfig, Standby(chip), faults) :
            /\ radioTxReady' = a.ok
            /\ \/ /\ StartReceive(a.chip, BootFrontEnd, radioStandby', a.faults)
                  /\ radioReady' = (radioStandby' \/ placed')
               \/ /\ radioReady' = FALSE
                  /\ chip' = a.chip /\ faults' = a.faults
                  /\ rf' = BootFrontEnd /\ placed' = placed
      BY DEF BootRadio
    <2>5. a.ok \in BOOLEAN /\ a.chip \in ChipStates /\ a.faults \in 0 .. MaxFaults
      BY <2>1, <2>3, <2>4, ApplyLemma
    <2>6. CASE /\ StartReceive(a.chip, BootFrontEnd, radioStandby', a.faults)
               /\ radioReady' = (radioStandby' \/ placed')
      <3>1. RadioOutputs
        BY <2>1, <2>3, <2>5, <2>6, StartReceiveLemma DEF RadioOutputs
      <3>2. radioReady' \in BOOLEAN
        BY <2>6
      <3> QED
        BY <2>2, <2>4, <2>5, <3>1, <3>2
    <2>7. CASE /\ radioReady' = FALSE
               /\ chip' = a.chip /\ faults' = a.faults
               /\ rf' = BootFrontEnd /\ placed' = placed
      <3>1. RadioOutputs
        BY <2>1, <2>3, <2>5, <2>7 DEF RadioOutputs
      <3> QED
        BY <2>2, <2>4, <2>5, <2>7, <3>1
    <2> QED
      BY <2>4, <2>6, <2>7
  <1>2. FlagTypes'
    BY <1>1 DEF FlagTypes, BootRadio, RadioOutputs, Restored
  <1>3. NumberTypes'
    BY <1>1 DEF NumberTypes, BootRadio, RadioOutputs, CAD_AUTO_RETRIES
  <1>4. NameTypes'
    BY <1>1 DEF NameTypes, BootRadio, Pcs, LoopPcs, HandlerPcs, TxPcs, CadPcs, AckPcs
  <1>5. DeviceTypes'
    BY <1>1 DEF DeviceTypes, BootRadio, RadioOutputs
  <1> QED
    BY <1>2, <1>3, <1>4, <1>5

\* A restart keeps the type of every variable.
LEMMA RebootTypes ==
    ASSUME FlagTypes, NumberTypes, NameTypes, DeviceTypes, Reboot
    PROVE  FlagTypes' /\ NumberTypes' /\ NameTypes' /\ DeviceTypes'
PROOF
  <1>1. FlagTypes'
    BY DEF FlagTypes, Reboot
  <1>2. NumberTypes'
    BY SwitchAssumption, TimeAssumption DEF NumberTypes, Reboot, CAD_AUTO_RETRIES
  <1>3. NameTypes'
    BY ConfigAssumption DEF NameTypes, Reboot, Configs, Pcs, LoopPcs, HandlerPcs, TxPcs, CadPcs, AckPcs
  <1>4. DeviceTypes'
    BY ChipLemma, FrontEndLemma DEF DeviceTypes, Reboot, PoweredOff, ChipStates, AirStates, Silence
  <1> QED
    BY <1>1, <1>2, <1>3, <1>4

\* Serving DIO1 in loop() keeps the type of every variable.
LEMMA LoopIrqTypes ==
    ASSUME FlagTypes, NumberTypes, NameTypes, DeviceTypes, LoopIrq
    PROVE  FlagTypes' /\ NumberTypes' /\ NameTypes' /\ DeviceTypes'
PROOF
  <1>1. FlagTypes'
    BY DEF FlagTypes, LoopIrq
  <1>2. NumberTypes'
    BY SwitchAssumption, TimeAssumption DEF NumberTypes, LoopIrq, CAD_AUTO_RETRIES
  <1>3. NameTypes'
    BY DEF NameTypes, LoopIrq, DeviceTypes, ChipStates, Pcs, LoopPcs, HandlerPcs, TxPcs, CadPcs, AckPcs
  <1>4. DeviceTypes'
    BY ChipLemma, FrontEndLemma DEF DeviceTypes, LoopIrq, IrqFlags
  <1> QED
    BY <1>1, <1>2, <1>3, <1>4

\* The re-arm after a reception keeps the type of every variable.
LEMMA RearmTypes ==
    ASSUME FlagTypes, NumberTypes, NameTypes, DeviceTypes, Rearm
    PROVE  FlagTypes' /\ NumberTypes' /\ NameTypes' /\ DeviceTypes'
PROOF
  <1>1. RadioOutputs
    <2>1. /\ chip \in ChipStates /\ rf \in FrontEndStates /\ placed \in BOOLEAN
          /\ faults \in 0 .. MaxFaults
      BY DEF DeviceTypes, FlagTypes, NumberTypes
    <2>2. StartReceive(chip, rf, radioStandby, faults)
      BY DEF Rearm
    <2> QED
      BY <2>1, <2>2, StartReceiveLemma DEF RadioOutputs
  <1>2. FlagTypes'
    BY <1>1 DEF FlagTypes, Rearm, RadioOutputs
  <1>3. NumberTypes'
    BY <1>1 DEF NumberTypes, Rearm, RadioOutputs, CAD_AUTO_RETRIES
  <1>4. NameTypes'
    BY <1>1 DEF NameTypes, Rearm, Pcs, LoopPcs, HandlerPcs, TxPcs, CadPcs, AckPcs
  <1>5. DeviceTypes'
    BY <1>1 DEF DeviceTypes, Rearm, RadioOutputs
  <1> QED
    BY <1>2, <1>3, <1>4, <1>5

\* The end of the host's bytes keeps the type of every variable.
LEMMA HostDoneTypes ==
    ASSUME FlagTypes, NumberTypes, NameTypes, DeviceTypes, HostDone
    PROVE  FlagTypes' /\ NumberTypes' /\ NameTypes' /\ DeviceTypes'
PROOF
  <1>1. FlagTypes'
    BY DEF FlagTypes, HostDone
  <1>2. NumberTypes'
    BY SwitchAssumption, TimeAssumption DEF NumberTypes, HostDone, CAD_AUTO_RETRIES
  <1>3. NameTypes'
    BY DEF NameTypes, HostDone, Pcs, LoopPcs, HandlerPcs, TxPcs, CadPcs, AckPcs
  <1>4. DeviceTypes'
    BY ChipLemma, FrontEndLemma DEF DeviceTypes, HostDone
  <1> QED
    BY <1>1, <1>2, <1>3, <1>4

\* A change of the LNA setting keeps the type of every variable.
LEMMA SetLnaTypes ==
    ASSUME FlagTypes, NumberTypes, NameTypes, DeviceTypes, SetLna
    PROVE  FlagTypes' /\ NumberTypes' /\ NameTypes' /\ DeviceTypes'
PROOF
  <1>1. FlagTypes'
    BY DEF FlagTypes, SetLna
  <1>2. NumberTypes'
    BY SwitchAssumption, TimeAssumption DEF NumberTypes, SetLna, CAD_AUTO_RETRIES
  <1>3. NameTypes'
    BY DEF NameTypes, SetLna, Pcs, LoopPcs, HandlerPcs, TxPcs, CadPcs, AckPcs
  <1>4. DeviceTypes'
    BY ChipLemma, FrontEndLemma DEF DeviceTypes, SetLna, FrontEndStates
  <1> QED
    BY <1>1, <1>2, <1>3, <1>4

\* A loop() pass without maintenance keeps the type of every variable.
LEMMA MaintIdleTypes ==
    ASSUME FlagTypes, NumberTypes, NameTypes, DeviceTypes, MaintIdle
    PROVE  FlagTypes' /\ NumberTypes' /\ NameTypes' /\ DeviceTypes'
PROOF
  <1>1. FlagTypes'
    BY DEF FlagTypes, MaintIdle
  <1>2. NumberTypes'
    BY SwitchAssumption, TimeAssumption DEF NumberTypes, MaintIdle, CAD_AUTO_RETRIES
  <1>3. NameTypes'
    BY DEF NameTypes, MaintIdle, Pcs, LoopPcs, HandlerPcs, TxPcs, CadPcs, AckPcs
  <1>4. DeviceTypes'
    BY ChipLemma, FrontEndLemma DEF DeviceTypes, MaintIdle
  <1> QED
    BY <1>1, <1>2, <1>3, <1>4

\* MaybeResetAgc() consulting the guard keeps the type of every variable.
LEMMA AgcGuardTypes ==
    ASSUME FlagTypes, NumberTypes, NameTypes, DeviceTypes, AgcGuard
    PROVE  FlagTypes' /\ NumberTypes' /\ NameTypes' /\ DeviceTypes'
PROOF
  <1>1. /\ rxHeaderSeen' \in BOOLEAN /\ rxActivityAge' \in -1 .. HeaderBound + 1
        /\ protected' \in Frames \cup {NoFrame} /\ chip' \in ChipStates
        /\ pc' \in Pcs
    BY TypeParts, GuardLemma DEF AgcGuard, Pcs, LoopPcs, HandlerPcs, TxPcs, CadPcs, AckPcs
  <1>2. FlagTypes'
    BY <1>1 DEF FlagTypes, AgcGuard
  <1>3. NumberTypes'
    BY <1>1, SwitchAssumption, TimeAssumption DEF NumberTypes, AgcGuard, CAD_AUTO_RETRIES
  <1>4. NameTypes'
    BY <1>1 DEF NameTypes, AgcGuard, Pcs, LoopPcs, HandlerPcs, TxPcs, CadPcs, AckPcs
  <1>5. DeviceTypes'
    BY <1>1 DEF DeviceTypes, AgcGuard
  <1> QED
    BY <1>2, <1>3, <1>4, <1>5

\* The AGC reset of the Station keeps the type of every variable.
LEMMA AgcRunTypes ==
    ASSUME FlagTypes, NumberTypes, NameTypes, DeviceTypes, AgcRun
    PROVE  FlagTypes' /\ NumberTypes' /\ NameTypes' /\ DeviceTypes'
PROOF
  <1>1. RadioOutputs
    <2>1. /\ chip \in ChipStates /\ rf \in FrontEndStates /\ placed \in BOOLEAN
          /\ faults \in 0 .. MaxFaults
      BY DEF DeviceTypes, FlagTypes, NumberTypes
    <2>2. Standby(chip) \in ChipStates /\ BypassedFrontEnd(rf) \in FrontEndStates
      BY <2>1, ChipLemma, FrontEndLemma
    <2>3. CASE dio1Flag
      BY <2>1, <2>3 DEF AgcRun, RadioOutputs, faultVars
    <2>4. CASE StartReceive(Standby(chip), BypassedFrontEnd(rf), radioStandby, faults)
      BY <2>1, <2>2, <2>4, StartReceiveLemma DEF RadioOutputs
    <2>5. CASE /\ faults < MaxFaults
               /\ StartReceive(chip, BypassedFrontEnd(rf), radioStandby, faults + 1)
      <3>1. faults + 1 \in 0 .. MaxFaults
        BY <2>1, <2>5, SwitchAssumption
      <3> QED
        BY <2>1, <2>2, <2>5, <3>1, StartReceiveLemma DEF RadioOutputs
    <2> QED
      BY <2>3, <2>4, <2>5 DEF AgcRun
  <1>2. FlagTypes'
    BY <1>1 DEF FlagTypes, AgcRun, RadioOutputs
  <1>3. NumberTypes'
    BY <1>1 DEF NumberTypes, AgcRun, RadioOutputs, CAD_AUTO_RETRIES
  <1>4. NameTypes'
    BY <1>1 DEF NameTypes, AgcRun, Pcs, LoopPcs, HandlerPcs, TxPcs, CadPcs, AckPcs
  <1>5. DeviceTypes'
    BY <1>1 DEF DeviceTypes, AgcRun, RadioOutputs
  <1> QED
    BY <1>2, <1>3, <1>4, <1>5

\* The AGC restart of the V4.3 keeps the type of every variable.
LEMMA AgcRestartTypes ==
    ASSUME FlagTypes, NumberTypes, NameTypes, DeviceTypes, AgcRestart
    PROVE  FlagTypes' /\ NumberTypes' /\ NameTypes' /\ DeviceTypes'
PROOF
  <1>1. RadioOutputs
    <2>1. /\ chip \in ChipStates /\ rf \in FrontEndStates /\ placed \in BOOLEAN
          /\ faults \in 0 .. MaxFaults
      BY DEF DeviceTypes, FlagTypes, NumberTypes
    <2>2. StartReceive(Standby(chip), rf, radioStandby, faults)
      BY DEF AgcRestart
    <2>3. Standby(chip) \in ChipStates
      BY <2>1, ChipLemma
    <2> QED
      BY <2>1, <2>2, <2>3, StartReceiveLemma DEF RadioOutputs
  <1>2. FlagTypes'
    BY <1>1 DEF FlagTypes, AgcRestart, RadioOutputs
  <1>3. NumberTypes'
    BY <1>1 DEF NumberTypes, AgcRestart, RadioOutputs, CAD_AUTO_RETRIES
  <1>4. NameTypes'
    BY <1>1 DEF NameTypes, AgcRestart, Pcs, LoopPcs, HandlerPcs, TxPcs, CadPcs, AckPcs
  <1>5. DeviceTypes'
    BY <1>1 DEF DeviceTypes, AgcRestart, RadioOutputs
  <1> QED
    BY <1>2, <1>3, <1>4, <1>5

\* A command that only answers keeps the type of every variable.
LEMMA AnswerOnlyTypes ==
    ASSUME FlagTypes, NumberTypes, NameTypes, DeviceTypes, AnswerOnly
    PROVE  FlagTypes' /\ NumberTypes' /\ NameTypes' /\ DeviceTypes'
PROOF
  <1>1. FlagTypes'
    BY DEF FlagTypes, AnswerOnly
  <1>2. NumberTypes'
    BY SwitchAssumption, TimeAssumption DEF NumberTypes, AnswerOnly, CAD_AUTO_RETRIES
  <1>3. NameTypes'
    BY DEF NameTypes, AnswerOnly, Pcs, LoopPcs, HandlerPcs, TxPcs, CadPcs, AckPcs
  <1>4. DeviceTypes'
    BY ChipLemma, FrontEndLemma DEF DeviceTypes, AnswerOnly
  <1> QED
    BY <1>1, <1>2, <1>3, <1>4

\* The checks of CMD_TX_REQUEST keeps the type of every variable.
LEMMA TxRequestTypes ==
    ASSUME FlagTypes, NumberTypes, NameTypes, DeviceTypes, TxRequest
    PROVE  FlagTypes' /\ NumberTypes' /\ NameTypes' /\ DeviceTypes'
PROOF
  <1>1. /\ rxHeaderSeen' \in BOOLEAN /\ rxActivityAge' \in -1 .. HeaderBound + 1
        /\ protected' \in Frames \cup {NoFrame} /\ chip' \in ChipStates
        /\ pc' \in Pcs
    BY TypeParts, GuardLemma DEF TxRequest, Pcs, LoopPcs, HandlerPcs, TxPcs, CadPcs, AckPcs
  <1>2. FlagTypes'
    BY <1>1 DEF FlagTypes, TxRequest
  <1>3. NumberTypes'
    BY <1>1, SwitchAssumption, TimeAssumption DEF NumberTypes, TxRequest, CAD_AUTO_RETRIES
  <1>4. NameTypes'
    BY <1>1 DEF NameTypes, TxRequest, Pcs, LoopPcs, HandlerPcs, TxPcs, CadPcs, AckPcs
  <1>5. DeviceTypes'
    BY <1>1 DEF DeviceTypes, TxRequest
  <1> QED
    BY <1>2, <1>3, <1>4, <1>5

\* The guard before an auto-CAD scan keeps the type of every variable.
LEMMA AcGuardTypes ==
    ASSUME FlagTypes, NumberTypes, NameTypes, DeviceTypes, AcGuard
    PROVE  FlagTypes' /\ NumberTypes' /\ NameTypes' /\ DeviceTypes'
PROOF
  <1>1. /\ rxHeaderSeen' \in BOOLEAN /\ rxActivityAge' \in -1 .. HeaderBound + 1
        /\ protected' \in Frames \cup {NoFrame} /\ chip' \in ChipStates
        /\ pc' \in Pcs
    BY TypeParts, GuardLemma DEF AcGuard, Pcs, LoopPcs, HandlerPcs, TxPcs, CadPcs, AckPcs
  <1>2. FlagTypes'
    BY <1>1 DEF FlagTypes, AcGuard
  <1>3. NumberTypes'
    BY <1>1, SwitchAssumption, TimeAssumption DEF NumberTypes, AcGuard, CAD_AUTO_RETRIES
  <1>4. NameTypes'
    BY <1>1 DEF NameTypes, AcGuard, Pcs, LoopPcs, HandlerPcs, TxPcs, CadPcs, AckPcs
  <1>5. DeviceTypes'
    BY <1>1 DEF DeviceTypes, AcGuard
  <1> QED
    BY <1>2, <1>3, <1>4, <1>5

\* Starting an auto-CAD scan keeps the type of every variable.
LEMMA AcScanTypes ==
    ASSUME FlagTypes, NumberTypes, NameTypes, DeviceTypes, AcScan
    PROVE  FlagTypes' /\ NumberTypes' /\ NameTypes' /\ DeviceTypes'
PROOF
  <1>1. FlagTypes'
    BY DEF FlagTypes, AcScan
  <1>2. NumberTypes'
    BY SwitchAssumption, TimeAssumption DEF NumberTypes, AcScan, CAD_AUTO_RETRIES
  <1>3. NameTypes'
    BY DEF NameTypes, AcScan, Pcs, LoopPcs, HandlerPcs, TxPcs, CadPcs, AckPcs
  <1>4. DeviceTypes'
    BY ChipLemma, FrontEndLemma DEF DeviceTypes, AcScan
  <1> QED
    BY <1>1, <1>2, <1>3, <1>4

\* The wait for an auto-CAD scan keeps the type of every variable.
LEMMA AcPollTypes ==
    ASSUME FlagTypes, NumberTypes, NameTypes, DeviceTypes, AttemptsLeft, AcPoll
    PROVE  FlagTypes' /\ NumberTypes' /\ NameTypes' /\ DeviceTypes'
PROOF
  <1>1. FlagTypes'
    BY DEF FlagTypes, AcPoll
  <1>2. NumberTypes'
    BY DEF NumberTypes, AcPoll, CAD_AUTO_RETRIES, AttemptsLeft
  <1>3. NameTypes'
    BY DEF NameTypes, AcPoll, Pcs, LoopPcs, HandlerPcs, TxPcs, CadPcs, AckPcs
  <1>4. DeviceTypes'
    BY ChipLemma, FrontEndLemma DEF DeviceTypes, AcPoll, IrqFlags
  <1> QED
    BY <1>1, <1>2, <1>3, <1>4

\* The way out of auto-CAD without a transmission keeps the type of every variable.
LEMMA AcFailTypes ==
    ASSUME FlagTypes, NumberTypes, NameTypes, DeviceTypes, AcFail
    PROVE  FlagTypes' /\ NumberTypes' /\ NameTypes' /\ DeviceTypes'
PROOF
  <1>1. RadioOutputs
    <2>1. /\ chip \in ChipStates /\ rf \in FrontEndStates /\ placed \in BOOLEAN
          /\ faults \in 0 .. MaxFaults
      BY DEF DeviceTypes, FlagTypes, NumberTypes
    <2>2. StartReceive(chip, rf, radioStandby, faults)
      BY DEF AcFail
    <2> QED
      BY <2>1, <2>2, StartReceiveLemma DEF RadioOutputs
  <1>2. FlagTypes'
    BY <1>1 DEF FlagTypes, AcFail, RadioOutputs
  <1>3. NumberTypes'
    BY <1>1 DEF NumberTypes, AcFail, RadioOutputs, CAD_AUTO_RETRIES
  <1>4. NameTypes'
    BY <1>1 DEF NameTypes, AcFail, Pcs, LoopPcs, HandlerPcs, TxPcs, CadPcs, AckPcs
  <1>5. DeviceTypes'
    BY <1>1 DEF DeviceTypes, AcFail, RadioOutputs
  <1> QED
    BY <1>2, <1>3, <1>4, <1>5

\* The start of a transmission keeps the type of every variable.
LEMMA TxStageTypes ==
    ASSUME FlagTypes, NumberTypes, NameTypes, DeviceTypes, TxStage
    PROVE  FlagTypes' /\ NumberTypes' /\ NameTypes' /\ DeviceTypes'
PROOF
  <1>1. RadioOutputs
    <2>1. /\ chip \in ChipStates /\ rf \in FrontEndStates /\ placed \in BOOLEAN
          /\ faults \in 0 .. MaxFaults
      BY DEF DeviceTypes, FlagTypes, NumberTypes
    <2>2. /\ Enter(chip, "TX") \in ChipStates /\ FinishTransmit(chip) \in ChipStates
          /\ BypassedFrontEnd(rf) \in FrontEndStates
      BY <2>1, ChipLemma, FrontEndLemma DEF FinishTransmit
    <2>3. CASE /\ chip' = Enter(chip, "TX")
               /\ rf' = BypassedFrontEnd(rf)
               /\ UNCHANGED faultVars
      BY <2>1, <2>2, <2>3 DEF RadioOutputs, faultVars
    <2>4. CASE /\ faults < MaxFaults
               /\ StartReceive(FinishTransmit(chip), BypassedFrontEnd(rf), radioStandby,
                               faults + 1)
      <3>1. faults + 1 \in 0 .. MaxFaults
        BY <2>1, <2>4, SwitchAssumption
      <3> QED
        BY <2>1, <2>2, <2>4, <3>1, StartReceiveLemma DEF RadioOutputs
    <2> QED
      BY <2>3, <2>4 DEF TxStage
  <1>2. FlagTypes'
    BY <1>1 DEF FlagTypes, TxStage, RadioOutputs
  <1>3. NumberTypes'
    BY <1>1 DEF NumberTypes, TxStage, RadioOutputs, CAD_AUTO_RETRIES
  <1>4. NameTypes'
    BY <1>1 DEF NameTypes, TxStage, Pcs, LoopPcs, HandlerPcs, TxPcs, CadPcs, AckPcs
  <1>5. DeviceTypes'
    BY <1>1 DEF DeviceTypes, TxStage, RadioOutputs
  <1> QED
    BY <1>2, <1>3, <1>4, <1>5

\* The wait for TX_DONE keeps the type of every variable.
LEMMA TxWaitTypes ==
    ASSUME FlagTypes, NumberTypes, NameTypes, DeviceTypes, TxWait
    PROVE  FlagTypes' /\ NumberTypes' /\ NameTypes' /\ DeviceTypes'
PROOF
  <1>1. FlagTypes'
    BY DEF FlagTypes, TxWait
  <1>2. NumberTypes'
    BY SwitchAssumption, TimeAssumption DEF NumberTypes, TxWait, CAD_AUTO_RETRIES
  <1>3. NameTypes'
    BY DEF NameTypes, TxWait, Pcs, LoopPcs, HandlerPcs, TxPcs, CadPcs, AckPcs
  <1>4. DeviceTypes'
    BY ChipLemma, FrontEndLemma DEF DeviceTypes, TxWait
  <1> QED
    BY <1>1, <1>2, <1>3, <1>4

\* The end of CMD_TX_REQUEST keeps the type of every variable.
LEMMA TxFinishTypes ==
    ASSUME FlagTypes, NumberTypes, NameTypes, DeviceTypes, TxFinish
    PROVE  FlagTypes' /\ NumberTypes' /\ NameTypes' /\ DeviceTypes'
PROOF
  <1>1. RadioOutputs /\ radioTxReady' \in BOOLEAN
    <2>1. /\ chip \in ChipStates /\ rf \in FrontEndStates /\ placed \in BOOLEAN
          /\ faults \in 0 .. MaxFaults
      BY DEF DeviceTypes, FlagTypes, NumberTypes
    <2>2. FinishTransmit(chip) \in ChipStates /\ currentConfig \in Configs
      BY <2>1, ChipLemma DEF FinishTransmit, NameTypes
    <2>3. CASE txOk
      <3>1. /\ StartReceive(FinishTransmit(chip), rf, radioStandby, faults)
            /\ radioTxReady' = radioTxReady
        BY <2>3 DEF TxFinish
      <3> QED
        BY <2>1, <2>2, <3>1, StartReceiveLemma DEF RadioOutputs, FlagTypes
    <2>4. CASE ~txOk
      <3>1. PICK a \in ApplyResults(currentConfig, FinishTransmit(chip), faults) :
                /\ radioTxReady' = a.ok
                /\ StartReceive(a.chip, rf, radioStandby, a.faults)
        BY <2>4 DEF TxFinish
      <3>2. a.ok \in BOOLEAN /\ a.chip \in ChipStates /\ a.faults \in 0 .. MaxFaults
        BY <2>1, <2>2, <3>1, ApplyLemma
      <3> QED
        BY <2>1, <3>1, <3>2, StartReceiveLemma DEF RadioOutputs
    <2> QED
      BY <2>3, <2>4
  <1>2. FlagTypes'
    BY <1>1 DEF FlagTypes, TxFinish, RadioOutputs
  <1>3. NumberTypes'
    BY <1>1 DEF NumberTypes, TxFinish, RadioOutputs, CAD_AUTO_RETRIES
  <1>4. NameTypes'
    BY <1>1 DEF NameTypes, TxFinish, Pcs, LoopPcs, HandlerPcs, TxPcs, CadPcs, AckPcs
  <1>5. DeviceTypes'
    BY <1>1 DEF DeviceTypes, TxFinish, RadioOutputs
  <1> QED
    BY <1>2, <1>3, <1>4, <1>5

\* The checks of CMD_CAD_REQUEST keeps the type of every variable.
LEMMA CadRequestTypes ==
    ASSUME FlagTypes, NumberTypes, NameTypes, DeviceTypes, CadRequest
    PROVE  FlagTypes' /\ NumberTypes' /\ NameTypes' /\ DeviceTypes'
PROOF
  <1>1. /\ rxHeaderSeen' \in BOOLEAN /\ rxActivityAge' \in -1 .. HeaderBound + 1
        /\ protected' \in Frames \cup {NoFrame} /\ chip' \in ChipStates
        /\ pc' \in Pcs
    BY TypeParts, GuardLemma DEF CadRequest, Pcs, LoopPcs, HandlerPcs, TxPcs, CadPcs, AckPcs
  <1>2. FlagTypes'
    BY <1>1 DEF FlagTypes, CadRequest
  <1>3. NumberTypes'
    BY <1>1, SwitchAssumption, TimeAssumption DEF NumberTypes, CadRequest, CAD_AUTO_RETRIES
  <1>4. NameTypes'
    BY <1>1 DEF NameTypes, CadRequest, Pcs, LoopPcs, HandlerPcs, TxPcs, CadPcs, AckPcs
  <1>5. DeviceTypes'
    BY <1>1 DEF DeviceTypes, CadRequest
  <1> QED
    BY <1>2, <1>3, <1>4, <1>5

\* The start of a CAD scan keeps the type of every variable.
LEMMA CadStageTypes ==
    ASSUME FlagTypes, NumberTypes, NameTypes, DeviceTypes, CadStage
    PROVE  FlagTypes' /\ NumberTypes' /\ NameTypes' /\ DeviceTypes'
PROOF
  <1>1. RadioOutputs
    <2>1. /\ chip \in ChipStates /\ rf \in FrontEndStates /\ placed \in BOOLEAN
          /\ faults \in 0 .. MaxFaults
      BY DEF DeviceTypes, FlagTypes, NumberTypes
    <2>2. Enter(chip, "CAD") \in ChipStates /\ Standby(chip) \in ChipStates
      BY <2>1, ChipLemma
    <2>3. CASE chip' = Enter(chip, "CAD") /\ UNCHANGED <<rf, reply, faultVars>>
      BY <2>1, <2>2, <2>3 DEF RadioOutputs, faultVars
    <2>4. CASE faults < MaxFaults /\ StartReceive(Standby(chip), rf, radioStandby, faults + 1)
      <3>1. faults + 1 \in 0 .. MaxFaults
        BY <2>1, <2>4, SwitchAssumption
      <3> QED
        BY <2>1, <2>2, <2>4, <3>1, StartReceiveLemma DEF RadioOutputs
    <2> QED
      BY <2>3, <2>4 DEF CadStage
  <1>2. FlagTypes'
    BY <1>1 DEF FlagTypes, CadStage, RadioOutputs
  <1>3. NumberTypes'
    BY <1>1 DEF NumberTypes, CadStage, RadioOutputs, CAD_AUTO_RETRIES
  <1>4. NameTypes'
    BY <1>1 DEF NameTypes, CadStage, Pcs, LoopPcs, HandlerPcs, TxPcs, CadPcs, AckPcs
  <1>5. DeviceTypes'
    BY <1>1 DEF DeviceTypes, CadStage, RadioOutputs
  <1> QED
    BY <1>2, <1>3, <1>4, <1>5

\* The wait for a CAD scan and its answer keeps the type of every variable.
LEMMA CadPollTypes ==
    ASSUME FlagTypes, NumberTypes, NameTypes, DeviceTypes, CadPoll
    PROVE  FlagTypes' /\ NumberTypes' /\ NameTypes' /\ DeviceTypes'
PROOF
  <1>1. RadioOutputs /\ radioTxReady' \in BOOLEAN
    <2>1. /\ chip \in ChipStates /\ rf \in FrontEndStates /\ placed \in BOOLEAN
          /\ faults \in 0 .. MaxFaults
      BY DEF DeviceTypes, FlagTypes, NumberTypes
    <2> DEFINE cleared == ClearIrq(chip, {"CAD_DONE", "CAD_DETECTED"})
    <2>2. /\ cleared \in ChipStates /\ Standby(chip) \in ChipStates
          /\ currentConfig \in Configs
      BY <2>1, ChipLemma DEF IrqFlags, NameTypes
    <2>3. CASE "CAD_DONE" \in chip.irq
      <3>1. /\ StartReceive(cleared, rf, radioStandby, faults)
            /\ radioTxReady' = radioTxReady
        BY <2>3 DEF CadPoll
      <3> QED
        BY <2>1, <2>2, <3>1, StartReceiveLemma DEF RadioOutputs, FlagTypes
    <2>4. CASE "CAD_DONE" \notin chip.irq
      <3>1. PICK a \in ApplyResults(currentConfig, Standby(chip), faults) :
                /\ radioTxReady' = a.ok
                /\ StartReceive(a.chip, rf, radioStandby, a.faults)
        BY <2>4 DEF CadPoll
      <3>2. a.ok \in BOOLEAN /\ a.chip \in ChipStates /\ a.faults \in 0 .. MaxFaults
        BY <2>1, <2>2, <3>1, ApplyLemma
      <3> QED
        BY <2>1, <3>1, <3>2, StartReceiveLemma DEF RadioOutputs
    <2> QED
      BY <2>3, <2>4
  <1>2. FlagTypes'
    BY <1>1 DEF FlagTypes, CadPoll, RadioOutputs
  <1>3. NumberTypes'
    BY <1>1 DEF NumberTypes, CadPoll, RadioOutputs, CAD_AUTO_RETRIES
  <1>4. NameTypes'
    BY <1>1 DEF NameTypes, CadPoll, Pcs, LoopPcs, HandlerPcs, TxPcs, CadPcs, AckPcs
  <1>5. DeviceTypes'
    BY <1>1 DEF DeviceTypes, CadPoll, RadioOutputs
  <1> QED
    BY <1>2, <1>3, <1>4, <1>5

\* CMD_RX_START keeps the type of every variable.
LEMMA RxStartTypes ==
    ASSUME FlagTypes, NumberTypes, NameTypes, DeviceTypes, RxStart
    PROVE  FlagTypes' /\ NumberTypes' /\ NameTypes' /\ DeviceTypes'
PROOF
  <1>1. RadioOutputs
    <2>1. /\ chip \in ChipStates /\ rf \in FrontEndStates /\ placed \in BOOLEAN
          /\ faults \in 0 .. MaxFaults
      BY DEF DeviceTypes, FlagTypes, NumberTypes
    <2>2. StartReceive(chip, rf, radioStandby, faults)
      BY DEF RxStart
    <2> QED
      BY <2>1, <2>2, StartReceiveLemma DEF RadioOutputs
  <1>2. FlagTypes'
    BY <1>1 DEF FlagTypes, RxStart, RadioOutputs
  <1>3. NumberTypes'
    BY <1>1 DEF NumberTypes, RxStart, RadioOutputs, CAD_AUTO_RETRIES
  <1>4. NameTypes'
    BY <1>1 DEF NameTypes, RxStart, Pcs, LoopPcs, HandlerPcs, TxPcs, CadPcs, AckPcs
  <1>5. DeviceTypes'
    BY <1>1 DEF DeviceTypes, RxStart, RadioOutputs
  <1> QED
    BY <1>2, <1>3, <1>4, <1>5

\* CMD_SET_CONFIG keeps the type of every variable.
LEMMA SetConfigTypes ==
    ASSUME FlagTypes, NumberTypes, NameTypes, DeviceTypes, SetConfig
    PROVE  FlagTypes' /\ NumberTypes' /\ NameTypes' /\ DeviceTypes'
PROOF
  <1>1. RadioOutputs /\ radioTxReady' \in BOOLEAN /\ currentConfig' \in Configs
    <2>1. /\ chip \in ChipStates /\ rf \in FrontEndStates /\ placed \in BOOLEAN
          /\ faults \in 0 .. MaxFaults
      BY DEF DeviceTypes, FlagTypes, NumberTypes
    <2>2. PICK cfg \in Configs :
            /\ currentConfig' = cfg
            /\ \E a \in ApplyResults(cfg, chip, faults) :
                /\ radioTxReady' = a.ok
                /\ \/ StartReceive(a.chip, rf, radioStandby, a.faults)
                   \/ chip' = a.chip /\ faults' = a.faults /\ rf' = rf /\ placed' = placed
      BY DEF SetConfig
    <2>3. PICK a \in ApplyResults(cfg, chip, faults) :
            /\ radioTxReady' = a.ok
            /\ \/ StartReceive(a.chip, rf, radioStandby, a.faults)
               \/ chip' = a.chip /\ faults' = a.faults /\ rf' = rf /\ placed' = placed
      BY <2>2
    <2>4. a.ok \in BOOLEAN /\ a.chip \in ChipStates /\ a.faults \in 0 .. MaxFaults
      BY <2>2, <2>1, <2>3, ApplyLemma
    <2>5. CASE StartReceive(a.chip, rf, radioStandby, a.faults)
      BY <2>2, <2>1, <2>3, <2>4, <2>5, StartReceiveLemma DEF RadioOutputs
    <2>6. CASE chip' = a.chip /\ faults' = a.faults /\ rf' = rf /\ placed' = placed
      BY <2>2, <2>1, <2>3, <2>4, <2>6 DEF RadioOutputs
    <2> QED
      BY <2>2, <2>3, <2>5, <2>6
  <1>2. FlagTypes'
    BY <1>1 DEF FlagTypes, SetConfig, RadioOutputs
  <1>3. NumberTypes'
    BY <1>1 DEF NumberTypes, SetConfig, RadioOutputs, CAD_AUTO_RETRIES
  <1>4. NameTypes'
    BY <1>1 DEF NameTypes, SetConfig, Pcs, LoopPcs, HandlerPcs, TxPcs, CadPcs, AckPcs
  <1>5. DeviceTypes'
    BY <1>1 DEF DeviceTypes, SetConfig, RadioOutputs
  <1> QED
    BY <1>2, <1>3, <1>4, <1>5

\* The write of a NodeState file keeps the type of every variable.
LEMMA NvWriteTypes ==
    ASSUME FlagTypes, NumberTypes, NameTypes, DeviceTypes, NvWrite
    PROVE  FlagTypes' /\ NumberTypes' /\ NameTypes' /\ DeviceTypes'
PROOF
  <1>1. FlagTypes'
    BY DEF FlagTypes, NvWrite
  <1>2. NumberTypes'
    BY SwitchAssumption, TimeAssumption DEF NumberTypes, NvWrite, CAD_AUTO_RETRIES
  <1>3. NameTypes'
    BY DEF NameTypes, NvWrite, Pcs, LoopPcs, HandlerPcs, TxPcs, CadPcs, AckPcs
  <1>4. DeviceTypes'
    BY ChipLemma, FrontEndLemma DEF DeviceTypes, NvWrite
  <1> QED
    BY <1>1, <1>2, <1>3, <1>4

\* CMD_RADIO_STANDBY keeps the type of every variable.
LEMMA RadioStandbyTypes ==
    ASSUME FlagTypes, NumberTypes, NameTypes, DeviceTypes, RadioStandby
    PROVE  FlagTypes' /\ NumberTypes' /\ NameTypes' /\ DeviceTypes'
PROOF
  <1>1. FlagTypes'
    BY DEF FlagTypes, RadioStandby
  <1>2. NumberTypes'
    BY SwitchAssumption, TimeAssumption DEF NumberTypes, RadioStandby, CAD_AUTO_RETRIES
  <1>3. NameTypes'
    BY DEF NameTypes, RadioStandby, Forget, Pcs, LoopPcs, HandlerPcs, TxPcs, CadPcs, AckPcs
  <1>4. DeviceTypes'
    BY ChipLemma, FrontEndLemma DEF DeviceTypes, RadioStandby
  <1> QED
    BY <1>1, <1>2, <1>3, <1>4

\* The first half of CMD_RADIO_RESUME keeps the type of every variable.
LEMMA RadioResumeTypes ==
    ASSUME FlagTypes, NumberTypes, NameTypes, DeviceTypes, RadioResume
    PROVE  FlagTypes' /\ NumberTypes' /\ NameTypes' /\ DeviceTypes'
PROOF
  <1>1. FlagTypes'
    BY DEF FlagTypes, RadioResume
  <1>2. NumberTypes'
    BY SwitchAssumption, TimeAssumption DEF NumberTypes, RadioResume, CAD_AUTO_RETRIES
  <1>3. NameTypes'
    BY DEF NameTypes, RadioResume, Forget, Pcs, LoopPcs, HandlerPcs, TxPcs, CadPcs, AckPcs
  <1>4. DeviceTypes'
    BY ChipLemma, FrontEndLemma DEF DeviceTypes, RadioResume
  <1> QED
    BY <1>1, <1>2, <1>3, <1>4

\* CMD_SET_AUTO_CAD keeps the type of every variable.
LEMMA SetAutoCadTypes ==
    ASSUME FlagTypes, NumberTypes, NameTypes, DeviceTypes, SetAutoCad
    PROVE  FlagTypes' /\ NumberTypes' /\ NameTypes' /\ DeviceTypes'
PROOF
  <1>1. FlagTypes'
    BY DEF FlagTypes, SetAutoCad
  <1>2. NumberTypes'
    BY SwitchAssumption, TimeAssumption DEF NumberTypes, SetAutoCad, CAD_AUTO_RETRIES
  <1>3. NameTypes'
    BY DEF NameTypes, SetAutoCad, Forget, Pcs, LoopPcs, HandlerPcs, TxPcs, CadPcs, AckPcs
  <1>4. DeviceTypes'
    BY ChipLemma, FrontEndLemma DEF DeviceTypes, SetAutoCad
  <1> QED
    BY <1>1, <1>2, <1>3, <1>4

\* An acknowledgement keeps the type of every variable.
LEMMA AcknowledgeTypes ==
    ASSUME FlagTypes, NumberTypes, NameTypes, DeviceTypes, Acknowledge
    PROVE  FlagTypes' /\ NumberTypes' /\ NameTypes' /\ DeviceTypes'
PROOF
  <1>1. FlagTypes'
    BY DEF FlagTypes, Acknowledge
  <1>2. NumberTypes'
    BY SwitchAssumption, TimeAssumption DEF NumberTypes, Acknowledge, CAD_AUTO_RETRIES
  <1>3. NameTypes'
    BY DEF NameTypes, Acknowledge, Pcs, LoopPcs, HandlerPcs, TxPcs, CadPcs, AckPcs
  <1>4. DeviceTypes'
    BY ChipLemma, FrontEndLemma DEF DeviceTypes, Acknowledge
  <1> QED
    BY <1>1, <1>2, <1>3, <1>4

\* The second half of CMD_RADIO_RESUME keeps the type of every variable.
LEMMA ResumeApplyTypes ==
    ASSUME FlagTypes, NumberTypes, NameTypes, DeviceTypes, ResumeApply
    PROVE  FlagTypes' /\ NumberTypes' /\ NameTypes' /\ DeviceTypes'
PROOF
  <1>1. RadioOutputs /\ radioTxReady' \in BOOLEAN
    <2>1. /\ chip \in ChipStates /\ rf \in FrontEndStates /\ placed \in BOOLEAN
          /\ faults \in 0 .. MaxFaults
      BY DEF DeviceTypes, FlagTypes, NumberTypes
    <2>2. PICK a \in ApplyResults(currentConfig, chip, faults) :
            /\ radioTxReady' = a.ok
            /\ \/ StartReceive(a.chip, rf, radioStandby, a.faults)
               \/ chip' = a.chip /\ faults' = a.faults /\ rf' = rf /\ placed' = placed
      BY DEF ResumeApply
    <2>3. a.ok \in BOOLEAN /\ a.chip \in ChipStates /\ a.faults \in 0 .. MaxFaults
      BY <2>1, <2>2, ApplyLemma DEF NameTypes
    <2>4. CASE StartReceive(a.chip, rf, radioStandby, a.faults)
      BY <2>1, <2>2, <2>3, <2>4, StartReceiveLemma DEF RadioOutputs
    <2>5. CASE chip' = a.chip /\ faults' = a.faults /\ rf' = rf /\ placed' = placed
      BY <2>1, <2>2, <2>3, <2>5 DEF RadioOutputs
    <2> QED
      BY <2>2, <2>4, <2>5
  <1>2. FlagTypes'
    BY <1>1 DEF FlagTypes, ResumeApply, RadioOutputs
  <1>3. NumberTypes'
    BY <1>1 DEF NumberTypes, ResumeApply, RadioOutputs, CAD_AUTO_RETRIES
  <1>4. NameTypes'
    BY <1>1 DEF NameTypes, ResumeApply, Pcs, LoopPcs, HandlerPcs, TxPcs, CadPcs, AckPcs
  <1>5. DeviceTypes'
    BY <1>1 DEF DeviceTypes, ResumeApply, RadioOutputs
  <1> QED
    BY <1>2, <1>3, <1>4, <1>5

\* A preamble caught keeps the type of every variable.
LEMMA PreambleCaughtTypes ==
    ASSUME FlagTypes, NumberTypes, NameTypes, DeviceTypes, PreambleCaught
    PROVE  FlagTypes' /\ NumberTypes' /\ NameTypes' /\ DeviceTypes'
PROOF
  <1>1. FlagTypes'
    BY DEF FlagTypes, PreambleCaught
  <1>2. NumberTypes'
    BY SwitchAssumption, TimeAssumption DEF NumberTypes, PreambleCaught, CAD_AUTO_RETRIES
  <1>3. NameTypes'
    BY DEF NameTypes, PreambleCaught, Pcs, LoopPcs, HandlerPcs, TxPcs, CadPcs, AckPcs
  <1>4. DeviceTypes'
    <2>1. PICK f \in Frames :
            chip' = [chip EXCEPT !.air = [frame |-> f, stage |-> "preamble", age |-> 0],
                                 !.irq = @ \cup {"PREAMBLE"}]
      BY DEF PreambleCaught
    <2>2. [frame |-> f, stage |-> "preamble", age |-> 0] \in AirStates
      BY TimeAssumption DEF AirStates
    <2> QED
      BY <2>1, <2>2 DEF DeviceTypes, PreambleCaught, chipOnly, ChipStates, IrqFlags
  <1> QED
    BY <1>1, <1>2, <1>3, <1>4

\* A valid header keeps the type of every variable.
LEMMA HeaderReceivedTypes ==
    ASSUME FlagTypes, NumberTypes, NameTypes, DeviceTypes, HeaderReceived
    PROVE  FlagTypes' /\ NumberTypes' /\ NameTypes' /\ DeviceTypes'
PROOF
  <1>1. FlagTypes'
    BY DEF FlagTypes, HeaderReceived
  <1>2. NumberTypes'
    BY SwitchAssumption, TimeAssumption DEF NumberTypes, HeaderReceived, CAD_AUTO_RETRIES
  <1>3. NameTypes'
    BY DEF NameTypes, HeaderReceived, Pcs, LoopPcs, HandlerPcs, TxPcs, CadPcs, AckPcs
  <1>4. DeviceTypes'
    <2> DEFINE air == [frame |-> chip.air.frame, stage |-> "header", age |-> 0]
    <2>1. /\ chip.air.frame \in Frames
          /\ chip.irq \cup {"HEADER"} \in SUBSET IrqFlags
      BY DEF DeviceTypes, ChipStates, AirStates, HeaderReceived, IrqFlags
    <2>2. air \in [frame : Frames, stage : {"header"}, age : 0 .. PayloadTime]
      BY <2>1, TimeAssumption
    <2>3. air \in AirStates
      BY <2>2 DEF AirStates
    <2>4. chip' = [chip EXCEPT !.air = air, !.irq = chip.irq \cup {"HEADER"}]
      BY DEF HeaderReceived, DeviceTypes, ChipStates
    <2> HIDE DEF air
    <2> QED
      BY <2>1, <2>3, <2>4 DEF DeviceTypes, HeaderReceived, chipOnly, ChipStates
  <1> QED
    BY <1>1, <1>2, <1>3, <1>4

\* A preamble lost keeps the type of every variable.
LEMMA PreambleLostTypes ==
    ASSUME FlagTypes, NumberTypes, NameTypes, DeviceTypes, PreambleLost
    PROVE  FlagTypes' /\ NumberTypes' /\ NameTypes' /\ DeviceTypes'
PROOF
  <1>1. FlagTypes'
    BY DEF FlagTypes, PreambleLost
  <1>2. NumberTypes'
    BY SwitchAssumption, TimeAssumption DEF NumberTypes, PreambleLost, CAD_AUTO_RETRIES
  <1>3. NameTypes'
    BY DEF NameTypes, PreambleLost, Pcs, LoopPcs, HandlerPcs, TxPcs, CadPcs, AckPcs
  <1>4. DeviceTypes'
    BY TimeAssumption DEF DeviceTypes, PreambleLost, ChipStates, AirStates, Silence, IrqFlags
  <1> QED
    BY <1>1, <1>2, <1>3, <1>4

\* The end of a frame keeps the type of every variable.
LEMMA FrameReceivedTypes ==
    ASSUME FlagTypes, NumberTypes, NameTypes, DeviceTypes, FrameReceived
    PROVE  FlagTypes' /\ NumberTypes' /\ NameTypes' /\ DeviceTypes'
PROOF
  <1>1. FlagTypes'
    BY DEF FlagTypes, FrameReceived, Raise
  <1>2. NumberTypes'
    BY SwitchAssumption, TimeAssumption DEF NumberTypes, FrameReceived, CAD_AUTO_RETRIES
  <1>3. NameTypes'
    BY DEF NameTypes, FrameReceived, Pcs, LoopPcs, HandlerPcs, TxPcs, CadPcs, AckPcs
  <1>4. DeviceTypes'
    BY TimeAssumption DEF DeviceTypes, FrameReceived, ChipStates, AirStates, Silence, IrqFlags
  <1> QED
    BY <1>1, <1>2, <1>3, <1>4

\* The end of a scan keeps the type of every variable.
LEMMA ScanCompletedTypes ==
    ASSUME FlagTypes, NumberTypes, NameTypes, DeviceTypes, ScanCompleted
    PROVE  FlagTypes' /\ NumberTypes' /\ NameTypes' /\ DeviceTypes'
PROOF
  <1>1. FlagTypes'
    BY DEF FlagTypes, ScanCompleted, Raise
  <1>2. NumberTypes'
    BY SwitchAssumption, TimeAssumption DEF NumberTypes, ScanCompleted, CAD_AUTO_RETRIES
  <1>3. NameTypes'
    BY DEF NameTypes, ScanCompleted, Pcs, LoopPcs, HandlerPcs, TxPcs, CadPcs, AckPcs
  <1>4. DeviceTypes'
    <2>1. PICK flags \in SUBSET {"CAD_DONE", "CAD_DETECTED"} :
            chip' = [chip EXCEPT !.mode = "STDBY", !.irq = @ \cup flags]
      BY DEF ScanCompleted
    <2>2. chip.irq \cup flags \in SUBSET IrqFlags
      BY DEF DeviceTypes, ChipStates, IrqFlags
    <2> QED
      BY <2>1, <2>2 DEF DeviceTypes, ScanCompleted, chipOnly, ChipStates
  <1> QED
    BY <1>1, <1>2, <1>3, <1>4

\* The end of a transmission keeps the type of every variable.
LEMMA TransmissionCompletedTypes ==
    ASSUME FlagTypes, NumberTypes, NameTypes, DeviceTypes, TransmissionCompleted
    PROVE  FlagTypes' /\ NumberTypes' /\ NameTypes' /\ DeviceTypes'
PROOF
  <1>1. FlagTypes'
    BY DEF FlagTypes, TransmissionCompleted, Raise
  <1>2. NumberTypes'
    BY SwitchAssumption, TimeAssumption DEF NumberTypes, TransmissionCompleted, CAD_AUTO_RETRIES
  <1>3. NameTypes'
    BY DEF NameTypes, TransmissionCompleted, Pcs, LoopPcs, HandlerPcs, TxPcs, CadPcs, AckPcs
  <1>4. DeviceTypes'
    BY TimeAssumption DEF DeviceTypes, TransmissionCompleted, ChipStates, AirStates, Silence, IrqFlags
  <1> QED
    BY <1>1, <1>2, <1>3, <1>4

\* A tick of time keeps the type of every variable.
LEMMA TickTypes ==
    ASSUME FlagTypes, NumberTypes, NameTypes, DeviceTypes, Tick
    PROVE  FlagTypes' /\ NumberTypes' /\ NameTypes' /\ DeviceTypes'
PROOF
  <1>1. FlagTypes'
    BY DEF FlagTypes, Tick
  <1>2. NumberTypes'
    BY SwitchAssumption, TimeAssumption DEF NumberTypes, Tick, CAD_AUTO_RETRIES
  <1>3. NameTypes'
    BY DEF NameTypes, Tick, Pcs, LoopPcs, HandlerPcs, TxPcs, CadPcs, AckPcs
  <1>4. DeviceTypes'
    BY TimeAssumption DEF DeviceTypes, Tick, ChipStates, AirStates, Silence, IrqFlags
  <1> QED
    BY <1>1, <1>2, <1>3, <1>4

-----------------------------------------------------------------------------
TypeInv == TypeOK /\ AttemptsLeft

\* The guarded scans: no other action touches what AttemptsLeft speaks of.
LEMMA AttemptsLeftStep == AttemptsLeft /\ Next => AttemptsLeft'
PROOF
  <1> SUFFICES ASSUME AttemptsLeft, Next PROVE AttemptsLeft'
    OBVIOUS
  <1> USE DEF AttemptsLeft, fwVars
  <1>1. CASE Boot
    BY <1>1 DEF Boot, BootRadio, BootWithoutRadio
  <1>2. CASE Loop
    BY <1>2 DEF Loop, LoopIrq, Rearm, HostDone, MaintIdle, AgcGuard, AgcRun, AgcRestart, Guard
  <1>3. CASE Handler
    <2>1. CASE AcGuard
      BY <2>1 DEF AcGuard, Guard
    <2>2. CASE AcScan
      BY <2>2 DEF AcScan
    <2>3. CASE AcPoll
      BY <2>3 DEF AcPoll, ScanClear, ScansLeft
    <2>4. CASE AcFail \/ TxStage \/ TxWait \/ TxFinish
      BY <2>4 DEF AcFail, TxStage, TxWait, TxFinish
    <2>5. CASE CadStage \/ CadPoll \/ NvWrite \/ Acknowledge \/ ResumeApply
      BY <2>5 DEF CadStage, CadPoll, NvWrite, Acknowledge, ResumeApply
    <2> QED
      BY <1>3, <2>1, <2>2, <2>3, <2>4, <2>5 DEF Handler
  <1>4. CASE Host
    <2>1. CASE TxRequest
      BY <2>1 DEF TxRequest, Guard, CAD_AUTO_RETRIES
    <2>2. CASE AnswerOnly \/ CadRequest \/ RxStart \/ SetConfig
      BY <2>2 DEF AnswerOnly, CadRequest, Guard, RxStart, SetConfig
    <2>3. CASE RadioStandby \/ RadioResume \/ SetAutoCad \/ SetLna
      BY <2>3 DEF RadioStandby, RadioResume, SetAutoCad, SetLna
    <2> QED
      BY <1>4, <2>1, <2>2, <2>3 DEF Host
  <1>5. CASE Reboot
    BY <1>5 DEF Reboot
  <1>6. CASE Air \/ Chip \/ Tick
    BY <1>6 DEF Air, Chip, Tick, PreambleCaught, HeaderReceived, PreambleLost,
                FrameReceived, ScanCompleted, TransmissionCompleted, chipOnly
  <1> QED
    BY <1>1, <1>2, <1>3, <1>4, <1>5, <1>6 DEF Next

\* TypeInv is inductive: every action of Next preserves its parts.
LEMMA TypeStep == TypeInv /\ [Next]_vars => TypeInv'
PROOF
  <1> SUFFICES ASSUME TypeInv, [Next]_vars PROVE TypeInv'
    OBVIOUS
  <1>1. FlagTypes /\ NumberTypes /\ NameTypes /\ DeviceTypes /\ AttemptsLeft
    BY TypeParts DEF TypeInv
  <1>2. CASE Next
    <2> SUFFICES FlagTypes' /\ NumberTypes' /\ NameTypes' /\ DeviceTypes'
      BY <1>1, <1>2, AttemptsLeftStep, TypePartsPrime DEF TypeInv
    <2>1. CASE Boot
      BY <1>1, <2>1,
         BootRadioTypes, BootWithoutRadioTypes
      DEF Boot
    <2>2. CASE Loop
      BY <1>1, <2>2,
         LoopIrqTypes, RearmTypes, HostDoneTypes, MaintIdleTypes, AgcGuardTypes,
         AgcRunTypes, AgcRestartTypes
      DEF Loop
    <2>3. CASE Handler
      BY <1>1, <2>3,
         AcGuardTypes, AcScanTypes, AcPollTypes, AcFailTypes, TxStageTypes,
         TxWaitTypes, TxFinishTypes, CadStageTypes, CadPollTypes, NvWriteTypes,
         AcknowledgeTypes, ResumeApplyTypes
      DEF Handler
    <2>4. CASE Host
      BY <1>1, <2>4,
         AnswerOnlyTypes, TxRequestTypes, CadRequestTypes, RxStartTypes,
         SetConfigTypes, RadioStandbyTypes, RadioResumeTypes, SetAutoCadTypes,
         SetLnaTypes
      DEF Host
    <2>5. CASE Reboot
      BY <1>1, <2>5,
         RebootTypes
    <2>6. CASE Air
      BY <1>1, <2>6,
         PreambleCaughtTypes, HeaderReceivedTypes, PreambleLostTypes,
         FrameReceivedTypes
      DEF Air
    <2>7. CASE Chip
      BY <1>1, <2>7,
         ScanCompletedTypes, TransmissionCompletedTypes
      DEF Chip
    <2>8. CASE Tick
      BY <1>1, <2>8,
         TickTypes
    <2> QED
      BY <1>2, <2>1, <2>2, <2>3, <2>4, <2>5, <2>6, <2>7, <2>8 DEF Next
  <1>3. CASE UNCHANGED vars
    BY <1>1, <1>3, TypePartsPrime
    DEF TypeInv, AttemptsLeft, TypeOK, vars
  <1> QED
    BY <1>2, <1>3

\* Every variable has its type in every reachable state.
THEOREM TypeCorrect == Spec => []TypeOK
PROOF
  <1>1. Init => TypeInv
    BY InitTypeOK DEF TypeInv, AttemptsLeft, Init, Powered
  <1>2. TypeInv /\ [Next]_vars => TypeInv'
    BY TypeStep
  <1>3. TypeInv => TypeOK
    BY DEF TypeInv
  <1> QED
    BY <1>1, <1>2, <1>3, PTL DEF Spec
-----------------------------------------------------------------------------
(* Safety *)

\* A request is being answered in the handlers, and isTxActive is up in
\* CMD_TX_REQUEST.
Answering ==
    /\ (reply = "pending") <=> (pc \in HandlerPcs)
    /\ isTxActive <=> (pc \in TxPcs)

\* The chip transmits only under the wait loop, is out of RX while a handler waits
\* for it, and is not in RX in a hard standby that was carried out.
ChipModes ==
    /\ chip.mode = "TX" => pc \in {"txWait", "txFinish"}
    /\ pc \in {"acWait", "cadWait", "txWait", "txFinish"} => chip.mode # "RX"
    /\ pc = "boot" => chip.mode = "OFF"
    /\ radioStandby /\ placed => chip.mode # "RX"

\* radioTxReady vouches for the chip's configuration, throughout CMD_TX_REQUEST.
ConfigHeld ==
    /\ radioTxReady => chip.cfg = currentConfig
    /\ pc \in TxPcs => radioTxReady

\* In RX the only flag that holds DIO1 up is RX_DONE, and there is a frame behind it.
IrqsLatched ==
    /\ chip.mode = "RX" => {"CAD_DONE", "TX_DONE"} \cap chip.irq = {}
    /\ "RX_DONE" \in chip.irq => chip.buf # NoFrame

SafetyInv ==
    TypeInv /\ Answering /\ ChipModes /\ ConfigHeld /\ IrqsLatched /\ PendingFrameVisible
-----------------------------------------------------------------------------
\* startReceive() from chip state c, when c is what an earlier step of the same
\* handler made of the chip: it settles the chip's mode and its flags.
LEMMA SettleLemma ==
    ASSUME NEW c \in ChipStates, NEW f, NEW standby, NEW spent,
           StartReceive(c, f, standby, spent),
           c.mode # "TX",
           c.mode = "RX" => ~(standby /\ placed),
           c.mode = "RX" => {"CAD_DONE", "TX_DONE"} \cap c.irq = {},
           "RX_DONE" \in c.irq => c.buf # NoFrame
    PROVE  /\ chip'.mode # "TX" /\ chip'.cfg = c.cfg
           /\ chip'.mode = "RX" => ~(standby /\ placed')
           /\ IrqsLatched' /\ PendingFrameVisible'
PROOF
  <1>1. CASE standby /\ chip' = c /\ placed' = placed
    BY <1>1 DEF IrqsLatched, PendingFrameVisible
  <1>2. CASE ~standby /\ chip' = Enter(c, "RX")
    <2>1. chip'.mode = "RX" /\ chip'.irq = {} /\ chip'.cfg = c.cfg
      BY <1>2, ChipLemma
    <2> QED
      BY <1>2, <2>1 DEF IrqsLatched, PendingFrameVisible
  <1>3. CASE ~standby /\ chip' = c /\ placed' = FALSE
    BY <1>3 DEF IrqsLatched, PendingFrameVisible
  <1> QED
    BY <1>1, <1>2, <1>3 DEF StartReceive, EnterReceive, StayParked

\* The same when the chip was configured first, with the outcome a.
LEMMA AppliedLemma ==
    ASSUME NEW cfg \in Configs, NEW c \in ChipStates, NEW spent \in 0 .. MaxFaults,
           NEW a \in ApplyResults(cfg, c, spent),
           c.mode # "TX",
           c.mode = "RX" => {"CAD_DONE", "TX_DONE"} \cap c.irq = {},
           "RX_DONE" \in c.irq => c.buf # NoFrame
    PROVE  /\ a.chip \in ChipStates /\ a.chip.mode # "TX"
           /\ a.chip.mode = "RX" => a.chip = c
           /\ a.chip.mode = "RX" => {"CAD_DONE", "TX_DONE"} \cap a.chip.irq = {}
           /\ "RX_DONE" \in a.chip.irq => a.chip.buf # NoFrame
           /\ a.ok => a.chip.cfg = cfg /\ a.chip.mode = "STDBY"
BY ApplyLemma
-----------------------------------------------------------------------------

\* setup() without a radio keeps the parts of SafetyInv.
LEMMA BootWithoutRadioSafe ==
    ASSUME SafetyInv, BootWithoutRadio
    PROVE  Answering' /\ ChipModes' /\ ConfigHeld' /\ IrqsLatched' /\ PendingFrameVisible'
PROOF
  <1>1. Answering'
    BY DEF Answering, SafetyInv, BootWithoutRadio, LoopPcs, HandlerPcs, TxPcs, CadPcs, AckPcs
  <1>2. ChipModes'
    BY DEF ChipModes, SafetyInv, BootWithoutRadio
  <1>3. ConfigHeld'
    BY DEF ConfigHeld, SafetyInv, BootWithoutRadio, TxPcs
  <1>4. IrqsLatched'
    BY DEF IrqsLatched, SafetyInv, BootWithoutRadio
  <1>5. PendingFrameVisible'
    BY DEF PendingFrameVisible, SafetyInv, BootWithoutRadio
  <1> QED
    BY <1>1, <1>2, <1>3, <1>4, <1>5

\* setup() with a radio keeps the parts of SafetyInv.
LEMMA BootRadioSafe ==
    ASSUME SafetyInv, BootRadio
    PROVE  Answering' /\ ChipModes' /\ ConfigHeld' /\ IrqsLatched' /\ PendingFrameVisible'
PROOF
  <1>1. /\ chip'.mode # "TX" /\ (chip'.mode = "RX" => ~(radioStandby' /\ placed'))
        /\ IrqsLatched' /\ PendingFrameVisible'
        /\ radioTxReady' => chip'.cfg = currentConfig'
    <2>1. /\ chip \in ChipStates /\ faults \in 0 .. MaxFaults /\ currentConfig \in Configs
          /\ chip.mode = "RX" => ~(radioStandby /\ placed)
          /\ chip.mode = "RX" => {"CAD_DONE", "TX_DONE"} \cap chip.irq = {}
          /\ "RX_DONE" \in chip.irq => chip.buf # NoFrame
      BY DEF SafetyInv, TypeInv, TypeOK, ChipModes, IrqsLatched
    <2>2. /\ Standby(chip) \in ChipStates /\ Standby(chip).mode = "STDBY"
          /\ Standby(chip).irq = chip.irq /\ Standby(chip).buf = chip.buf
      BY <2>1, ChipLemma
    <2>3. PICK a \in ApplyResults(currentConfig, Standby(chip), faults) :
            /\ radioTxReady' = a.ok
            /\ \/ StartReceive(a.chip, BootFrontEnd, radioStandby', a.faults)
               \/ chip' = a.chip /\ placed' = placed
      BY DEF BootRadio
    <2>4. /\ a.chip \in ChipStates /\ a.chip.mode # "TX" /\ a.chip.mode # "RX"
          /\ "RX_DONE" \in a.chip.irq => a.chip.buf # NoFrame
          /\ a.ok => a.chip.cfg = currentConfig
      BY <2>1, <2>2, <2>3, AppliedLemma
    <2>5. currentConfig' = currentConfig
      BY DEF BootRadio
    <2>6. CASE StartReceive(a.chip, BootFrontEnd, radioStandby', a.faults)
      BY <2>3, <2>4, <2>5, <2>6, SettleLemma
    <2>7. CASE chip' = a.chip /\ placed' = placed
      BY <2>3, <2>4, <2>5, <2>7 DEF IrqsLatched, PendingFrameVisible
    <2> QED
      BY <2>3, <2>6, <2>7
  <1>2. Answering'
    BY DEF Answering, SafetyInv, BootRadio, LoopPcs, HandlerPcs, TxPcs, CadPcs, AckPcs
  <1>3. ChipModes'
    BY <1>1 DEF ChipModes, SafetyInv, BootRadio
  <1>4. ConfigHeld'
    BY <1>1 DEF ConfigHeld, SafetyInv, BootRadio, TxPcs
  <1> QED
    BY <1>1, <1>2, <1>3, <1>4

\* A restart keeps the parts of SafetyInv.
LEMMA RebootSafe ==
    ASSUME SafetyInv, Reboot
    PROVE  Answering' /\ ChipModes' /\ ConfigHeld' /\ IrqsLatched' /\ PendingFrameVisible'
PROOF
  <1>1. chip'.mode = "OFF" /\ chip'.irq = {}
    BY DEF Reboot, PoweredOff
  <1>2. Answering'
    BY DEF Answering, SafetyInv, Reboot, LoopPcs, HandlerPcs, TxPcs, CadPcs, AckPcs
  <1>3. ChipModes'
    BY <1>1 DEF ChipModes, SafetyInv, Reboot
  <1>4. ConfigHeld'
    BY <1>1 DEF ConfigHeld, SafetyInv, Reboot, TxPcs
  <1>5. IrqsLatched'
    BY <1>1 DEF IrqsLatched, SafetyInv, Reboot
  <1>6. PendingFrameVisible'
    BY <1>1 DEF PendingFrameVisible, SafetyInv, Reboot
  <1> QED
    BY <1>2, <1>3, <1>4, <1>5, <1>6

\* Serving DIO1 in loop() keeps the parts of SafetyInv.
LEMMA LoopIrqSafe ==
    ASSUME SafetyInv, LoopIrq
    PROVE  Answering' /\ ChipModes' /\ ConfigHeld' /\ IrqsLatched' /\ PendingFrameVisible'
PROOF
  <1>1. \/ /\ chip' = chip
           /\ (dio1Flag' <=> dio1Flag) \/ chip.buf = NoFrame
        \/ chip'.mode = chip.mode /\ chip'.cfg = chip.cfg /\ chip'.irq = {}
    <2>1. chip \in ChipStates /\ IrqFlags \in SUBSET IrqFlags
      BY DEF SafetyInv, TypeInv, TypeOK
    <2>2. /\ ClearIrq(chip, IrqFlags).mode = chip.mode
          /\ ClearIrq(chip, IrqFlags).cfg = chip.cfg
          /\ ClearIrq(chip, IrqFlags).irq = {}
      BY <2>1, ChipLemma DEF ChipStates
    <2> QED
      BY <2>2 DEF LoopIrq
  <1>2. Answering'
    BY DEF Answering, SafetyInv, LoopIrq, LoopPcs, HandlerPcs, TxPcs, CadPcs, AckPcs
  <1>3. ChipModes'
    BY <1>1 DEF ChipModes, SafetyInv, LoopIrq
  <1>4. ConfigHeld'
    BY <1>1 DEF ConfigHeld, SafetyInv, LoopIrq, TxPcs
  <1>5. IrqsLatched'
    BY <1>1 DEF IrqsLatched, SafetyInv, LoopIrq
  <1>6. PendingFrameVisible'
    <2>1. /\ radioReady' = radioReady /\ placed' = placed /\ pc # "acFail"
          /\ PendingFrameVisible
          /\ "RX_DONE" \in chip.irq => chip.buf # NoFrame
      BY DEF LoopIrq, fwVars, faultVars, SafetyInv, IrqsLatched
    <2> QED
      BY <1>1, <2>1 DEF PendingFrameVisible
  <1> QED
    BY <1>2, <1>3, <1>4, <1>5, <1>6

\* The re-arm after a reception keeps the parts of SafetyInv.
LEMMA RearmSafe ==
    ASSUME SafetyInv, Rearm
    PROVE  Answering' /\ ChipModes' /\ ConfigHeld' /\ IrqsLatched' /\ PendingFrameVisible'
PROOF
  <1>1. /\ chip'.mode # "TX" /\ (chip'.mode = "RX" => ~(radioStandby /\ placed'))
        /\ IrqsLatched' /\ PendingFrameVisible'
        /\ chip'.cfg = chip.cfg
    <2>1. /\ chip \in ChipStates /\ faults \in 0 .. MaxFaults /\ currentConfig \in Configs
          /\ chip.mode = "RX" => ~(radioStandby /\ placed)
          /\ chip.mode = "RX" => {"CAD_DONE", "TX_DONE"} \cap chip.irq = {}
          /\ "RX_DONE" \in chip.irq => chip.buf # NoFrame
      BY DEF SafetyInv, TypeInv, TypeOK, ChipModes, IrqsLatched
    <2>2. chip.mode # "TX" /\ StartReceive(chip, rf, radioStandby, faults)
      BY DEF Rearm, SafetyInv, ChipModes
    <2> QED
      BY <2>1, <2>2, SettleLemma
  <1>2. Answering'
    BY DEF Answering, SafetyInv, Rearm, LoopPcs, HandlerPcs, TxPcs, CadPcs, AckPcs
  <1>3. ChipModes'
    BY <1>1 DEF ChipModes, SafetyInv, Rearm
  <1>4. ConfigHeld'
    BY <1>1 DEF ConfigHeld, SafetyInv, Rearm, TxPcs
  <1> QED
    BY <1>1, <1>2, <1>3, <1>4

\* The end of the host's bytes keeps the parts of SafetyInv.
LEMMA HostDoneSafe ==
    ASSUME SafetyInv, HostDone
    PROVE  Answering' /\ ChipModes' /\ ConfigHeld' /\ IrqsLatched' /\ PendingFrameVisible'
PROOF
  <1>1. Answering'
    BY DEF Answering, SafetyInv, HostDone, LoopPcs, HandlerPcs, TxPcs, CadPcs, AckPcs
  <1>2. ChipModes'
    BY DEF ChipModes, SafetyInv, HostDone
  <1>3. ConfigHeld'
    BY DEF ConfigHeld, SafetyInv, HostDone, TxPcs
  <1>4. IrqsLatched'
    BY DEF IrqsLatched, SafetyInv, HostDone
  <1>5. PendingFrameVisible'
    BY DEF PendingFrameVisible, SafetyInv, HostDone
  <1> QED
    BY <1>1, <1>2, <1>3, <1>4, <1>5

\* A change of the LNA setting keeps the parts of SafetyInv.
LEMMA SetLnaSafe ==
    ASSUME SafetyInv, SetLna
    PROVE  Answering' /\ ChipModes' /\ ConfigHeld' /\ IrqsLatched' /\ PendingFrameVisible'
PROOF
  <1>1. Answering'
    BY DEF Answering, SafetyInv, SetLna, LoopPcs, HandlerPcs, TxPcs, CadPcs, AckPcs
  <1>2. ChipModes'
    BY DEF ChipModes, SafetyInv, SetLna
  <1>3. ConfigHeld'
    BY DEF ConfigHeld, SafetyInv, SetLna, TxPcs
  <1>4. IrqsLatched'
    BY DEF IrqsLatched, SafetyInv, SetLna
  <1>5. PendingFrameVisible'
    BY DEF PendingFrameVisible, SafetyInv, SetLna
  <1> QED
    BY <1>1, <1>2, <1>3, <1>4, <1>5

\* A loop() pass without maintenance keeps the parts of SafetyInv.
LEMMA MaintIdleSafe ==
    ASSUME SafetyInv, MaintIdle
    PROVE  Answering' /\ ChipModes' /\ ConfigHeld' /\ IrqsLatched' /\ PendingFrameVisible'
PROOF
  <1>1. Answering'
    BY DEF Answering, SafetyInv, MaintIdle, LoopPcs, HandlerPcs, TxPcs, CadPcs, AckPcs
  <1>2. ChipModes'
    BY DEF ChipModes, SafetyInv, MaintIdle
  <1>3. ConfigHeld'
    BY DEF ConfigHeld, SafetyInv, MaintIdle, TxPcs
  <1>4. IrqsLatched'
    BY DEF IrqsLatched, SafetyInv, MaintIdle
  <1>5. PendingFrameVisible'
    BY DEF PendingFrameVisible, SafetyInv, MaintIdle
  <1> QED
    BY <1>1, <1>2, <1>3, <1>4, <1>5

\* MaybeResetAgc() consulting the guard keeps the parts of SafetyInv.
LEMMA AgcGuardSafe ==
    ASSUME SafetyInv, AgcGuard
    PROVE  Answering' /\ ChipModes' /\ ConfigHeld' /\ IrqsLatched' /\ PendingFrameVisible'
PROOF
  <1>1. /\ chip'.mode = chip.mode /\ chip'.cfg = chip.cfg /\ chip'.buf = chip.buf
        /\ chip'.irq \cap DioMask = chip.irq \cap DioMask
        /\ (Receiving /\ pc' = "irq") \/ (~Receiving /\ pc' \in {"agc"})
    BY GuardLemma DEF AgcGuard, SafetyInv, TypeInv
  <1>2. Answering'
    BY <1>1 DEF Answering, SafetyInv, AgcGuard, LoopPcs, HandlerPcs, TxPcs, CadPcs, AckPcs
  <1>3. ChipModes'
    BY <1>1 DEF ChipModes, SafetyInv, AgcGuard
  <1>4. ConfigHeld'
    BY <1>1 DEF ConfigHeld, SafetyInv, AgcGuard, TxPcs
  <1>5. IrqsLatched'
    BY <1>1 DEF IrqsLatched, SafetyInv, AgcGuard, DioMask
  <1>6. PendingFrameVisible'
    BY <1>1 DEF PendingFrameVisible, SafetyInv, AgcGuard, DioMask
  <1> QED
    BY <1>2, <1>3, <1>4, <1>5, <1>6

\* The AGC reset of the Station keeps the parts of SafetyInv.
LEMMA AgcRunSafe ==
    ASSUME SafetyInv, AgcRun
    PROVE  Answering' /\ ChipModes' /\ ConfigHeld' /\ IrqsLatched' /\ PendingFrameVisible'
PROOF
  <1>1. /\ chip'.mode # "TX" /\ (chip'.mode = "RX" => ~(radioStandby /\ placed'))
        /\ IrqsLatched' /\ PendingFrameVisible'
        /\ chip'.cfg = chip.cfg
    <2>1. /\ chip \in ChipStates /\ faults \in 0 .. MaxFaults /\ currentConfig \in Configs
          /\ chip.mode = "RX" => ~(radioStandby /\ placed)
          /\ chip.mode = "RX" => {"CAD_DONE", "TX_DONE"} \cap chip.irq = {}
          /\ "RX_DONE" \in chip.irq => chip.buf # NoFrame
      BY DEF SafetyInv, TypeInv, TypeOK, ChipModes, IrqsLatched
    <2>2. chip.mode # "TX"
      BY DEF AgcRun, SafetyInv, ChipModes
    <2>3. /\ Standby(chip) \in ChipStates /\ Standby(chip).mode = "STDBY"
          /\ Standby(chip).cfg = chip.cfg
          /\ Standby(chip).irq = chip.irq /\ Standby(chip).buf = chip.buf
      BY <2>1, ChipLemma
    <2>4. CASE dio1Flag
      <3>1. chip' = chip /\ placed' = placed /\ dio1Flag' = dio1Flag
        BY <2>4 DEF AgcRun, faultVars
      <3> QED
        BY <2>1, <2>2, <2>4, <3>1 DEF IrqsLatched, PendingFrameVisible
    <2>5. CASE StartReceive(Standby(chip), BypassedFrontEnd(rf), radioStandby, faults)
      BY <2>1, <2>3, <2>5, SettleLemma
    <2>6. CASE StartReceive(chip, BypassedFrontEnd(rf), radioStandby, faults + 1)
      BY <2>1, <2>2, <2>6, SettleLemma
    <2> QED
      BY <2>4, <2>5, <2>6 DEF AgcRun
  <1>2. Answering'
    BY DEF Answering, SafetyInv, AgcRun, LoopPcs, HandlerPcs, TxPcs, CadPcs, AckPcs
  <1>3. ChipModes'
    BY <1>1 DEF ChipModes, SafetyInv, AgcRun
  <1>4. ConfigHeld'
    BY <1>1 DEF ConfigHeld, SafetyInv, AgcRun, TxPcs
  <1> QED
    BY <1>1, <1>2, <1>3, <1>4

\* The AGC restart of the V4.3 keeps the parts of SafetyInv.
LEMMA AgcRestartSafe ==
    ASSUME SafetyInv, AgcRestart
    PROVE  Answering' /\ ChipModes' /\ ConfigHeld' /\ IrqsLatched' /\ PendingFrameVisible'
PROOF
  <1>1. /\ chip'.mode # "TX" /\ (chip'.mode = "RX" => ~(radioStandby /\ placed'))
        /\ IrqsLatched' /\ PendingFrameVisible'
        /\ chip'.cfg = chip.cfg
    <2>1. /\ chip \in ChipStates /\ faults \in 0 .. MaxFaults /\ currentConfig \in Configs
          /\ chip.mode = "RX" => ~(radioStandby /\ placed)
          /\ chip.mode = "RX" => {"CAD_DONE", "TX_DONE"} \cap chip.irq = {}
          /\ "RX_DONE" \in chip.irq => chip.buf # NoFrame
      BY DEF SafetyInv, TypeInv, TypeOK, ChipModes, IrqsLatched
    <2>2. StartReceive(Standby(chip), rf, radioStandby, faults)
      BY DEF AgcRestart
    <2>3. /\ Standby(chip) \in ChipStates /\ Standby(chip).mode = "STDBY"
          /\ Standby(chip).cfg = chip.cfg
          /\ Standby(chip).irq = chip.irq /\ Standby(chip).buf = chip.buf
      BY <2>1, ChipLemma
    <2> QED
      BY <2>1, <2>2, <2>3, SettleLemma
  <1>2. Answering'
    BY DEF Answering, SafetyInv, AgcRestart, LoopPcs, HandlerPcs, TxPcs, CadPcs, AckPcs
  <1>3. ChipModes'
    BY <1>1 DEF ChipModes, SafetyInv, AgcRestart
  <1>4. ConfigHeld'
    BY <1>1 DEF ConfigHeld, SafetyInv, AgcRestart, TxPcs
  <1> QED
    BY <1>1, <1>2, <1>3, <1>4

\* A command that only answers keeps the parts of SafetyInv.
LEMMA AnswerOnlySafe ==
    ASSUME SafetyInv, AnswerOnly
    PROVE  Answering' /\ ChipModes' /\ ConfigHeld' /\ IrqsLatched' /\ PendingFrameVisible'
PROOF
  <1>1. Answering'
    BY DEF Answering, SafetyInv, AnswerOnly, LoopPcs, HandlerPcs, TxPcs, CadPcs, AckPcs
  <1>2. ChipModes'
    BY DEF ChipModes, SafetyInv, AnswerOnly
  <1>3. ConfigHeld'
    BY DEF ConfigHeld, SafetyInv, AnswerOnly, TxPcs
  <1>4. IrqsLatched'
    BY DEF IrqsLatched, SafetyInv, AnswerOnly
  <1>5. PendingFrameVisible'
    BY DEF PendingFrameVisible, SafetyInv, AnswerOnly
  <1> QED
    BY <1>1, <1>2, <1>3, <1>4, <1>5

\* The checks of CMD_TX_REQUEST keeps the parts of SafetyInv.
LEMMA TxRequestSafe ==
    ASSUME SafetyInv, TxRequest
    PROVE  Answering' /\ ChipModes' /\ ConfigHeld' /\ IrqsLatched' /\ PendingFrameVisible'
PROOF
  <1>1. /\ chip'.mode = chip.mode /\ chip'.cfg = chip.cfg /\ chip'.buf = chip.buf
        /\ chip'.irq \cap DioMask = chip.irq \cap DioMask
        /\ (Receiving /\ pc' = "host") \/ (~Receiving /\ pc' \in {"acGuard", "txStage"})
    BY GuardLemma DEF TxRequest, SafetyInv, TypeInv
  <1>2. Answering'
    BY <1>1 DEF Answering, SafetyInv, TxRequest, LoopPcs, HandlerPcs, TxPcs, CadPcs, AckPcs
  <1>3. ChipModes'
    BY <1>1 DEF ChipModes, SafetyInv, TxRequest
  <1>4. ConfigHeld'
    BY <1>1 DEF ConfigHeld, SafetyInv, TxRequest, MayTransmit, TxPcs
  <1>5. IrqsLatched'
    BY <1>1 DEF IrqsLatched, SafetyInv, TxRequest, DioMask
  <1>6. PendingFrameVisible'
    BY <1>1 DEF PendingFrameVisible, SafetyInv, TxRequest, DioMask
  <1> QED
    BY <1>2, <1>3, <1>4, <1>5, <1>6

\* The guard before an auto-CAD scan keeps the parts of SafetyInv.
LEMMA AcGuardSafe ==
    ASSUME SafetyInv, AcGuard
    PROVE  Answering' /\ ChipModes' /\ ConfigHeld' /\ IrqsLatched' /\ PendingFrameVisible'
PROOF
  <1>1. /\ chip'.mode = chip.mode /\ chip'.cfg = chip.cfg /\ chip'.buf = chip.buf
        /\ chip'.irq \cap DioMask = chip.irq \cap DioMask
        /\ (Receiving /\ pc' = "host") \/ (~Receiving /\ pc' \in {"acScan"})
    BY GuardLemma DEF AcGuard, SafetyInv, TypeInv
  <1>2. Answering'
    BY <1>1 DEF Answering, SafetyInv, AcGuard, LoopPcs, HandlerPcs, TxPcs, CadPcs, AckPcs
  <1>3. ChipModes'
    BY <1>1 DEF ChipModes, SafetyInv, AcGuard
  <1>4. ConfigHeld'
    BY <1>1 DEF ConfigHeld, SafetyInv, AcGuard, TxPcs
  <1>5. IrqsLatched'
    BY <1>1 DEF IrqsLatched, SafetyInv, AcGuard, DioMask
  <1>6. PendingFrameVisible'
    BY <1>1 DEF PendingFrameVisible, SafetyInv, AcGuard, DioMask
  <1> QED
    BY <1>2, <1>3, <1>4, <1>5, <1>6

\* Starting an auto-CAD scan keeps the parts of SafetyInv.
LEMMA AcScanSafe ==
    ASSUME SafetyInv, AcScan
    PROVE  Answering' /\ ChipModes' /\ ConfigHeld' /\ IrqsLatched' /\ PendingFrameVisible'
PROOF
  <1>1. \/ /\ chip'.mode = "CAD" /\ chip'.cfg = chip.cfg /\ chip'.irq = {}
           /\ pc' = "acWait"
        \/ /\ chip'.cfg = chip.cfg /\ chip'.irq = chip.irq /\ chip'.buf = chip.buf
           /\ chip'.mode \in {chip.mode, "STDBY"} /\ pc' = "acFail"
    <2>1. chip \in ChipStates
      BY DEF SafetyInv, TypeInv, TypeOK
    <2> QED
      BY <2>1, ChipLemma DEF AcScan
  <1>2. Answering'
    BY DEF Answering, SafetyInv, AcScan, LoopPcs, HandlerPcs, TxPcs, CadPcs, AckPcs
  <1>3. ChipModes'
    BY <1>1 DEF ChipModes, SafetyInv, AcScan
  <1>4. ConfigHeld'
    BY <1>1 DEF ConfigHeld, SafetyInv, AcScan, TxPcs
  <1>5. IrqsLatched'
    BY <1>1 DEF IrqsLatched, SafetyInv, AcScan
  <1>6. PendingFrameVisible'
    BY <1>1 DEF PendingFrameVisible, SafetyInv, AcScan
  <1> QED
    BY <1>2, <1>3, <1>4, <1>5, <1>6

\* The wait for an auto-CAD scan keeps the parts of SafetyInv.
LEMMA AcPollSafe ==
    ASSUME SafetyInv, AcPoll
    PROVE  Answering' /\ ChipModes' /\ ConfigHeld' /\ IrqsLatched' /\ PendingFrameVisible'
PROOF
  <1>1. /\ chip'.mode = chip.mode /\ chip'.cfg = chip.cfg /\ chip'.buf = chip.buf
        /\ chip'.irq \subseteq chip.irq
        /\ pc' \in {"acGuard", "txStage", "acFail"} /\ chip.mode \notin {"RX", "TX"}
    <2>1. chip \in ChipStates /\ {"CAD_DONE", "CAD_DETECTED"} \in SUBSET IrqFlags
      BY DEF SafetyInv, TypeInv, TypeOK, IrqFlags
    <2>2. chip.mode \notin {"RX", "TX"}
      BY DEF SafetyInv, ChipModes, AcPoll
    <2>3. /\ chip' = ClearIrq(chip, {"CAD_DONE", "CAD_DETECTED"})
          /\ pc' \in {"acGuard", "txStage", "acFail"}
      BY DEF AcPoll
    <2> QED
      BY <2>1, <2>2, <2>3, ChipLemma
  <1>2. Answering'
    BY DEF Answering, SafetyInv, AcPoll, LoopPcs, HandlerPcs, TxPcs, CadPcs, AckPcs
  <1>3. ChipModes'
    BY <1>1 DEF ChipModes, SafetyInv, AcPoll
  <1>4. ConfigHeld'
    BY <1>1 DEF ConfigHeld, SafetyInv, AcPoll, TxPcs
  <1>5. IrqsLatched'
    BY <1>1 DEF IrqsLatched, SafetyInv, AcPoll
  <1>6. PendingFrameVisible'
    BY <1>1 DEF PendingFrameVisible, SafetyInv, AcPoll
  <1> QED
    BY <1>2, <1>3, <1>4, <1>5, <1>6

\* The way out of auto-CAD without a transmission keeps the parts of SafetyInv.
LEMMA AcFailSafe ==
    ASSUME SafetyInv, AcFail
    PROVE  Answering' /\ ChipModes' /\ ConfigHeld' /\ IrqsLatched' /\ PendingFrameVisible'
PROOF
  <1>1. /\ chip'.mode # "TX" /\ (chip'.mode = "RX" => ~(radioStandby /\ placed'))
        /\ IrqsLatched' /\ PendingFrameVisible'
        /\ chip'.cfg = chip.cfg
    <2>1. /\ chip \in ChipStates /\ faults \in 0 .. MaxFaults /\ currentConfig \in Configs
          /\ chip.mode = "RX" => ~(radioStandby /\ placed)
          /\ chip.mode = "RX" => {"CAD_DONE", "TX_DONE"} \cap chip.irq = {}
          /\ "RX_DONE" \in chip.irq => chip.buf # NoFrame
      BY DEF SafetyInv, TypeInv, TypeOK, ChipModes, IrqsLatched
    <2>2. chip.mode # "TX" /\ StartReceive(chip, rf, radioStandby, faults)
      BY DEF AcFail, SafetyInv, ChipModes
    <2> QED
      BY <2>1, <2>2, SettleLemma
  <1>2. Answering'
    BY DEF Answering, SafetyInv, AcFail, LoopPcs, HandlerPcs, TxPcs, CadPcs, AckPcs
  <1>3. ChipModes'
    BY <1>1 DEF ChipModes, SafetyInv, AcFail
  <1>4. ConfigHeld'
    BY <1>1 DEF ConfigHeld, SafetyInv, AcFail, TxPcs
  <1> QED
    BY <1>1, <1>2, <1>3, <1>4

\* The start of a transmission keeps the parts of SafetyInv.
LEMMA TxStageSafe ==
    ASSUME SafetyInv, TxStage
    PROVE  Answering' /\ ChipModes' /\ ConfigHeld' /\ IrqsLatched' /\ PendingFrameVisible'
PROOF
  <1>1. /\ (chip'.mode = "TX" => pc' = "txWait")
        /\ (chip'.mode = "RX" => ~(radioStandby /\ placed') /\ pc' = "host")
        /\ IrqsLatched' /\ PendingFrameVisible'
        /\ chip'.cfg = chip.cfg
    <2>1. /\ chip \in ChipStates /\ faults \in 0 .. MaxFaults /\ currentConfig \in Configs
          /\ chip.mode = "RX" => ~(radioStandby /\ placed)
          /\ chip.mode = "RX" => {"CAD_DONE", "TX_DONE"} \cap chip.irq = {}
          /\ "RX_DONE" \in chip.irq => chip.buf # NoFrame
      BY DEF SafetyInv, TypeInv, TypeOK, ChipModes, IrqsLatched
    <2> DEFINE c == FinishTransmit(chip)
               t == Enter(chip, "TX")
    <2>2. /\ c \in ChipStates /\ c.mode = "STDBY" /\ c.cfg = chip.cfg
          /\ c.irq = {} /\ c.buf = chip.buf
          /\ t.mode = "TX" /\ t.cfg = chip.cfg /\ t.irq = {}
      BY <2>1, ChipLemma DEF FinishTransmit
    <2> HIDE DEF c, t
    <2>3. CASE chip' = t /\ pc' = "txWait"
      BY <2>2, <2>3 DEF IrqsLatched, PendingFrameVisible
    <2>4. CASE StartReceive(c, BypassedFrontEnd(rf), radioStandby, faults + 1) /\ pc' = "host"
      BY <2>1, <2>2, <2>4, SettleLemma
    <2> QED
      BY <2>3, <2>4 DEF TxStage, c, t
  <1>2. Answering'
    BY DEF Answering, SafetyInv, TxStage, LoopPcs, HandlerPcs, TxPcs, CadPcs, AckPcs
  <1>3. ChipModes'
    BY <1>1 DEF ChipModes, SafetyInv, TxStage
  <1>4. ConfigHeld'
    BY <1>1 DEF ConfigHeld, SafetyInv, TxStage, TxPcs
  <1> QED
    BY <1>1, <1>2, <1>3, <1>4

\* The wait for TX_DONE keeps the parts of SafetyInv.
LEMMA TxWaitSafe ==
    ASSUME SafetyInv, TxWait
    PROVE  Answering' /\ ChipModes' /\ ConfigHeld' /\ IrqsLatched' /\ PendingFrameVisible'
PROOF
  <1>1. Answering'
    BY DEF Answering, SafetyInv, TxWait, LoopPcs, HandlerPcs, TxPcs, CadPcs, AckPcs
  <1>2. ChipModes'
    BY DEF ChipModes, SafetyInv, TxWait
  <1>3. ConfigHeld'
    BY DEF ConfigHeld, SafetyInv, TxWait, TxPcs
  <1>4. IrqsLatched'
    BY DEF IrqsLatched, SafetyInv, TxWait
  <1>5. PendingFrameVisible'
    BY DEF PendingFrameVisible, SafetyInv, TxWait
  <1> QED
    BY <1>1, <1>2, <1>3, <1>4, <1>5

\* The end of CMD_TX_REQUEST keeps the parts of SafetyInv.
LEMMA TxFinishSafe ==
    ASSUME SafetyInv, TxFinish
    PROVE  Answering' /\ ChipModes' /\ ConfigHeld' /\ IrqsLatched' /\ PendingFrameVisible'
PROOF
  <1>1. /\ chip'.mode # "TX" /\ (chip'.mode = "RX" => ~(radioStandby /\ placed'))
        /\ IrqsLatched' /\ PendingFrameVisible'
        /\ radioTxReady' => chip'.cfg = currentConfig'
    <2>1. /\ chip \in ChipStates /\ faults \in 0 .. MaxFaults /\ currentConfig \in Configs
          /\ chip.mode = "RX" => ~(radioStandby /\ placed)
          /\ chip.mode = "RX" => {"CAD_DONE", "TX_DONE"} \cap chip.irq = {}
          /\ "RX_DONE" \in chip.irq => chip.buf # NoFrame
      BY DEF SafetyInv, TypeInv, TypeOK, ChipModes, IrqsLatched
    <2> DEFINE c == FinishTransmit(chip)
    <2>2. /\ c \in ChipStates /\ c.mode = "STDBY" /\ c.cfg = chip.cfg
          /\ c.irq = {} /\ c.buf = chip.buf
      BY <2>1, ChipLemma DEF FinishTransmit
    <2> HIDE DEF c
    <2>3. CASE txOk
      <3>1. StartReceive(c, rf, radioStandby, faults) /\ radioTxReady' = radioTxReady
        BY <2>3 DEF TxFinish, c
      <3>2. currentConfig' = currentConfig /\ (radioTxReady => chip.cfg = currentConfig)
        BY DEF TxFinish, SafetyInv, ConfigHeld
      <3> QED
        BY <2>1, <2>2, <3>1, <3>2, SettleLemma
    <2>4. CASE ~txOk
      <3>1. PICK a \in ApplyResults(currentConfig, c, faults) :
                /\ radioTxReady' = a.ok
                /\ StartReceive(a.chip, rf, radioStandby, a.faults)
        BY <2>4 DEF TxFinish, c
      <3>2. currentConfig' = currentConfig
        BY DEF TxFinish
      <3>3. /\ a.chip \in ChipStates /\ a.chip.mode # "TX" /\ a.chip.mode # "RX"
            /\ "RX_DONE" \in a.chip.irq => a.chip.buf # NoFrame
            /\ a.ok => a.chip.cfg = currentConfig
        BY <2>1, <2>2, <3>1, AppliedLemma
      <3> QED
        BY <3>1, <3>2, <3>3, SettleLemma
    <2> QED
      BY <2>3, <2>4
  <1>2. Answering'
    BY DEF Answering, SafetyInv, TxFinish, LoopPcs, HandlerPcs, TxPcs, CadPcs, AckPcs
  <1>3. ChipModes'
    BY <1>1 DEF ChipModes, SafetyInv, TxFinish
  <1>4. ConfigHeld'
    BY <1>1 DEF ConfigHeld, SafetyInv, TxFinish, TxPcs
  <1> QED
    BY <1>1, <1>2, <1>3, <1>4

\* The checks of CMD_CAD_REQUEST keeps the parts of SafetyInv.
LEMMA CadRequestSafe ==
    ASSUME SafetyInv, CadRequest
    PROVE  Answering' /\ ChipModes' /\ ConfigHeld' /\ IrqsLatched' /\ PendingFrameVisible'
PROOF
  <1>1. /\ chip'.mode = chip.mode /\ chip'.cfg = chip.cfg /\ chip'.buf = chip.buf
        /\ chip'.irq \cap DioMask = chip.irq \cap DioMask
        /\ (Receiving /\ pc' = "host") \/ (~Receiving /\ pc' \in {"cadStage"})
    BY GuardLemma DEF CadRequest, SafetyInv, TypeInv
  <1>2. Answering'
    BY <1>1 DEF Answering, SafetyInv, CadRequest, LoopPcs, HandlerPcs, TxPcs, CadPcs, AckPcs
  <1>3. ChipModes'
    BY <1>1 DEF ChipModes, SafetyInv, CadRequest
  <1>4. ConfigHeld'
    BY <1>1 DEF ConfigHeld, SafetyInv, CadRequest, TxPcs
  <1>5. IrqsLatched'
    BY <1>1 DEF IrqsLatched, SafetyInv, CadRequest, DioMask
  <1>6. PendingFrameVisible'
    BY <1>1 DEF PendingFrameVisible, SafetyInv, CadRequest, DioMask
  <1> QED
    BY <1>2, <1>3, <1>4, <1>5, <1>6

\* The start of a CAD scan keeps the parts of SafetyInv.
LEMMA CadStageSafe ==
    ASSUME SafetyInv, CadStage
    PROVE  Answering' /\ ChipModes' /\ ConfigHeld' /\ IrqsLatched' /\ PendingFrameVisible'
PROOF
  <1>1. /\ chip'.mode # "TX"
        /\ (chip'.mode = "RX" => ~(radioStandby /\ placed') /\ pc' = "host")
        /\ IrqsLatched' /\ PendingFrameVisible'
        /\ chip'.cfg = chip.cfg
    <2>1. /\ chip \in ChipStates /\ faults \in 0 .. MaxFaults /\ currentConfig \in Configs
          /\ chip.mode = "RX" => ~(radioStandby /\ placed)
          /\ chip.mode = "RX" => {"CAD_DONE", "TX_DONE"} \cap chip.irq = {}
          /\ "RX_DONE" \in chip.irq => chip.buf # NoFrame
      BY DEF SafetyInv, TypeInv, TypeOK, ChipModes, IrqsLatched
    <2> DEFINE c == Standby(chip)
               t == Enter(chip, "CAD")
    <2>2. /\ c \in ChipStates /\ c.mode = "STDBY" /\ c.cfg = chip.cfg
          /\ c.irq = chip.irq /\ c.buf = chip.buf
          /\ t.mode = "CAD" /\ t.cfg = chip.cfg /\ t.irq = {}
      BY <2>1, ChipLemma
    <2> HIDE DEF c, t
    <2>3. CASE chip' = t /\ pc' = "cadWait"
      BY <2>2, <2>3 DEF IrqsLatched, PendingFrameVisible
    <2>4. CASE StartReceive(c, rf, radioStandby, faults + 1) /\ pc' = "host"
      BY <2>1, <2>2, <2>4, SettleLemma
    <2> QED
      BY <2>3, <2>4 DEF CadStage, c, t
  <1>2. Answering'
    BY DEF Answering, SafetyInv, CadStage, LoopPcs, HandlerPcs, TxPcs, CadPcs, AckPcs
  <1>3. ChipModes'
    BY <1>1 DEF ChipModes, SafetyInv, CadStage
  <1>4. ConfigHeld'
    BY <1>1 DEF ConfigHeld, SafetyInv, CadStage, TxPcs
  <1> QED
    BY <1>1, <1>2, <1>3, <1>4

\* The wait for a CAD scan and its answer keeps the parts of SafetyInv.
LEMMA CadPollSafe ==
    ASSUME SafetyInv, CadPoll
    PROVE  Answering' /\ ChipModes' /\ ConfigHeld' /\ IrqsLatched' /\ PendingFrameVisible'
PROOF
  <1>1. /\ chip'.mode # "TX" /\ (chip'.mode = "RX" => ~(radioStandby /\ placed'))
        /\ IrqsLatched' /\ PendingFrameVisible'
        /\ radioTxReady' => chip'.cfg = currentConfig'
    <2>1. /\ chip \in ChipStates /\ faults \in 0 .. MaxFaults /\ currentConfig \in Configs
          /\ chip.mode = "RX" => ~(radioStandby /\ placed)
          /\ chip.mode = "RX" => {"CAD_DONE", "TX_DONE"} \cap chip.irq = {}
          /\ "RX_DONE" \in chip.irq => chip.buf # NoFrame
      BY DEF SafetyInv, TypeInv, TypeOK, ChipModes, IrqsLatched
    <2> DEFINE c == ClearIrq(chip, {"CAD_DONE", "CAD_DETECTED"})
               s == Standby(chip)
    <2>2. /\ c \in ChipStates /\ c.mode = chip.mode /\ c.cfg = chip.cfg
          /\ c.irq \subseteq chip.irq /\ c.buf = chip.buf
          /\ s \in ChipStates /\ s.mode = "STDBY"
          /\ s.irq = chip.irq /\ s.buf = chip.buf
      BY <2>1, ChipLemma DEF IrqFlags
    <2>3. chip.mode # "TX" /\ chip.mode # "RX"
      BY DEF CadPoll, SafetyInv, ChipModes
    <2> HIDE DEF c, s
    <2>4. CASE "CAD_DONE" \in chip.irq
      <3>1. StartReceive(c, rf, radioStandby, faults) /\ radioTxReady' = radioTxReady
        BY <2>4 DEF CadPoll, c
      <3>2. currentConfig' = currentConfig /\ (radioTxReady => chip.cfg = currentConfig)
        BY DEF CadPoll, SafetyInv, ConfigHeld
      <3> QED
        BY <2>1, <2>2, <2>3, <3>1, <3>2, SettleLemma
    <2>5. CASE "CAD_DONE" \notin chip.irq
      <3>1. PICK a \in ApplyResults(currentConfig, s, faults) :
                /\ radioTxReady' = a.ok
                /\ StartReceive(a.chip, rf, radioStandby, a.faults)
        BY <2>5 DEF CadPoll, s
      <3>2. currentConfig' = currentConfig
        BY DEF CadPoll
      <3>3. /\ a.chip \in ChipStates /\ a.chip.mode # "TX" /\ a.chip.mode # "RX"
            /\ "RX_DONE" \in a.chip.irq => a.chip.buf # NoFrame
            /\ a.ok => a.chip.cfg = currentConfig
        BY <2>1, <2>2, <3>1, AppliedLemma
      <3> QED
        BY <3>1, <3>2, <3>3, SettleLemma
    <2> QED
      BY <2>4, <2>5
  <1>2. Answering'
    BY DEF Answering, SafetyInv, CadPoll, LoopPcs, HandlerPcs, TxPcs, CadPcs, AckPcs
  <1>3. ChipModes'
    BY <1>1 DEF ChipModes, SafetyInv, CadPoll
  <1>4. ConfigHeld'
    BY <1>1 DEF ConfigHeld, SafetyInv, CadPoll, TxPcs
  <1> QED
    BY <1>1, <1>2, <1>3, <1>4

\* CMD_RX_START keeps the parts of SafetyInv.
LEMMA RxStartSafe ==
    ASSUME SafetyInv, RxStart
    PROVE  Answering' /\ ChipModes' /\ ConfigHeld' /\ IrqsLatched' /\ PendingFrameVisible'
PROOF
  <1>1. /\ chip'.mode # "TX" /\ (chip'.mode = "RX" => ~(radioStandby /\ placed'))
        /\ IrqsLatched' /\ PendingFrameVisible'
        /\ chip'.cfg = chip.cfg
    <2>1. /\ chip \in ChipStates /\ faults \in 0 .. MaxFaults /\ currentConfig \in Configs
          /\ chip.mode = "RX" => ~(radioStandby /\ placed)
          /\ chip.mode = "RX" => {"CAD_DONE", "TX_DONE"} \cap chip.irq = {}
          /\ "RX_DONE" \in chip.irq => chip.buf # NoFrame
      BY DEF SafetyInv, TypeInv, TypeOK, ChipModes, IrqsLatched
    <2>2. chip.mode # "TX" /\ StartReceive(chip, rf, radioStandby, faults)
      BY DEF RxStart, SafetyInv, ChipModes
    <2> QED
      BY <2>1, <2>2, SettleLemma
  <1>2. Answering'
    BY DEF Answering, SafetyInv, RxStart, LoopPcs, HandlerPcs, TxPcs, CadPcs, AckPcs
  <1>3. ChipModes'
    BY <1>1 DEF ChipModes, SafetyInv, RxStart
  <1>4. ConfigHeld'
    BY <1>1 DEF ConfigHeld, SafetyInv, RxStart, TxPcs
  <1> QED
    BY <1>1, <1>2, <1>3, <1>4

\* CMD_SET_CONFIG keeps the parts of SafetyInv.
LEMMA SetConfigSafe ==
    ASSUME SafetyInv, SetConfig
    PROVE  Answering' /\ ChipModes' /\ ConfigHeld' /\ IrqsLatched' /\ PendingFrameVisible'
PROOF
  <1>1. /\ chip'.mode # "TX" /\ (chip'.mode = "RX" => ~(radioStandby /\ placed'))
        /\ IrqsLatched' /\ PendingFrameVisible'
        /\ radioTxReady' => chip'.cfg = currentConfig'
    <2>1. /\ chip \in ChipStates /\ faults \in 0 .. MaxFaults /\ currentConfig \in Configs
          /\ chip.mode = "RX" => ~(radioStandby /\ placed)
          /\ chip.mode = "RX" => {"CAD_DONE", "TX_DONE"} \cap chip.irq = {}
          /\ "RX_DONE" \in chip.irq => chip.buf # NoFrame
      BY DEF SafetyInv, TypeInv, TypeOK, ChipModes, IrqsLatched
    <2>2. chip.mode # "TX"
      BY DEF SetConfig, SafetyInv, ChipModes
    <2>3. PICK cfg \in Configs :
            /\ currentConfig' = cfg
            /\ \E a \in ApplyResults(cfg, chip, faults) :
                /\ radioTxReady' = a.ok
                /\ \/ StartReceive(a.chip, rf, radioStandby, a.faults)
                   \/ chip' = a.chip /\ placed' = placed
      BY DEF SetConfig
    <2>4. PICK a \in ApplyResults(cfg, chip, faults) :
            /\ radioTxReady' = a.ok
            /\ \/ StartReceive(a.chip, rf, radioStandby, a.faults)
               \/ chip' = a.chip /\ placed' = placed
      BY <2>3
    <2>5. cfg \in Configs
      BY <2>3
    <2>6. /\ a.chip \in ChipStates /\ a.chip.mode # "TX"
          /\ a.chip.mode = "RX" => a.chip = chip
          /\ a.chip.mode = "RX" => {"CAD_DONE", "TX_DONE"} \cap a.chip.irq = {}
          /\ "RX_DONE" \in a.chip.irq => a.chip.buf # NoFrame
          /\ a.ok => a.chip.cfg = cfg
      BY <2>1, <2>2, <2>4, <2>5, AppliedLemma
    <2>7. CASE StartReceive(a.chip, rf, radioStandby, a.faults)
      BY <2>3, <2>1, <2>4, <2>6, <2>7, SettleLemma
    <2>8. CASE chip' = a.chip /\ placed' = placed
      <3>1. dio1Flag' = dio1Flag /\ radioReady' = radioReady /\ pc # "acFail"
        BY DEF SetConfig
      <3>2. (chip.mode = "RX" /\ radioReady /\ placed /\ "RX_DONE" \in chip.irq) => dio1Flag
        BY <3>1 DEF SafetyInv, PendingFrameVisible
      <3> QED
        BY <2>3, <2>1, <2>4, <2>6, <2>8, <3>1, <3>2 DEF IrqsLatched, PendingFrameVisible
    <2> QED
      BY <2>4, <2>7, <2>8
  <1>2. Answering'
    BY DEF Answering, SafetyInv, SetConfig, LoopPcs, HandlerPcs, TxPcs, CadPcs, AckPcs
  <1>3. ChipModes'
    BY <1>1 DEF ChipModes, SafetyInv, SetConfig
  <1>4. ConfigHeld'
    BY <1>1 DEF ConfigHeld, SafetyInv, SetConfig, TxPcs
  <1> QED
    BY <1>1, <1>2, <1>3, <1>4

\* The write of a NodeState file keeps the parts of SafetyInv.
LEMMA NvWriteSafe ==
    ASSUME SafetyInv, NvWrite
    PROVE  Answering' /\ ChipModes' /\ ConfigHeld' /\ IrqsLatched' /\ PendingFrameVisible'
PROOF
  <1>1. Answering'
    BY DEF Answering, SafetyInv, NvWrite, LoopPcs, HandlerPcs, TxPcs, CadPcs, AckPcs
  <1>2. ChipModes'
    BY DEF ChipModes, SafetyInv, NvWrite
  <1>3. ConfigHeld'
    BY DEF ConfigHeld, SafetyInv, NvWrite, TxPcs
  <1>4. IrqsLatched'
    BY DEF IrqsLatched, SafetyInv, NvWrite
  <1>5. PendingFrameVisible'
    BY DEF PendingFrameVisible, SafetyInv, NvWrite
  <1> QED
    BY <1>1, <1>2, <1>3, <1>4, <1>5

\* CMD_RADIO_STANDBY keeps the parts of SafetyInv.
LEMMA RadioStandbySafe ==
    ASSUME SafetyInv, RadioStandby
    PROVE  Answering' /\ ChipModes' /\ ConfigHeld' /\ IrqsLatched' /\ PendingFrameVisible'
PROOF
  <1>1. /\ chip'.cfg = chip.cfg /\ chip'.irq = chip.irq /\ chip'.buf = chip.buf
        /\ chip'.mode \in {chip.mode, "STDBY"}
        /\ chip'.mode = "STDBY" \/ placed' = FALSE
    <2>1. chip \in ChipStates
      BY DEF SafetyInv, TypeInv, TypeOK
    <2> QED
      BY <2>1, ChipLemma DEF RadioStandby
  <1>2. Answering'
    BY DEF Answering, SafetyInv, RadioStandby, LoopPcs, HandlerPcs, TxPcs, CadPcs, AckPcs
  <1>3. ChipModes'
    BY <1>1 DEF ChipModes, SafetyInv, RadioStandby
  <1>4. ConfigHeld'
    BY <1>1 DEF ConfigHeld, SafetyInv, RadioStandby, TxPcs
  <1>5. IrqsLatched'
    BY <1>1 DEF IrqsLatched, SafetyInv, RadioStandby
  <1>6. PendingFrameVisible'
    BY <1>1 DEF PendingFrameVisible, SafetyInv, RadioStandby
  <1> QED
    BY <1>2, <1>3, <1>4, <1>5, <1>6

\* The first half of CMD_RADIO_RESUME keeps the parts of SafetyInv.
LEMMA RadioResumeSafe ==
    ASSUME SafetyInv, RadioResume
    PROVE  Answering' /\ ChipModes' /\ ConfigHeld' /\ IrqsLatched' /\ PendingFrameVisible'
PROOF
  <1>1. Answering'
    BY DEF Answering, SafetyInv, RadioResume, LoopPcs, HandlerPcs, TxPcs, CadPcs, AckPcs
  <1>2. ChipModes'
    BY DEF ChipModes, SafetyInv, RadioResume
  <1>3. ConfigHeld'
    BY DEF ConfigHeld, SafetyInv, RadioResume, TxPcs
  <1>4. IrqsLatched'
    BY DEF IrqsLatched, SafetyInv, RadioResume
  <1>5. PendingFrameVisible'
    BY DEF PendingFrameVisible, SafetyInv, RadioResume
  <1> QED
    BY <1>1, <1>2, <1>3, <1>4, <1>5

\* CMD_SET_AUTO_CAD keeps the parts of SafetyInv.
LEMMA SetAutoCadSafe ==
    ASSUME SafetyInv, SetAutoCad
    PROVE  Answering' /\ ChipModes' /\ ConfigHeld' /\ IrqsLatched' /\ PendingFrameVisible'
PROOF
  <1>1. Answering'
    BY DEF Answering, SafetyInv, SetAutoCad, LoopPcs, HandlerPcs, TxPcs, CadPcs, AckPcs
  <1>2. ChipModes'
    BY DEF ChipModes, SafetyInv, SetAutoCad
  <1>3. ConfigHeld'
    BY DEF ConfigHeld, SafetyInv, SetAutoCad, TxPcs
  <1>4. IrqsLatched'
    BY DEF IrqsLatched, SafetyInv, SetAutoCad
  <1>5. PendingFrameVisible'
    BY DEF PendingFrameVisible, SafetyInv, SetAutoCad
  <1> QED
    BY <1>1, <1>2, <1>3, <1>4, <1>5

\* An acknowledgement keeps the parts of SafetyInv.
LEMMA AcknowledgeSafe ==
    ASSUME SafetyInv, Acknowledge
    PROVE  Answering' /\ ChipModes' /\ ConfigHeld' /\ IrqsLatched' /\ PendingFrameVisible'
PROOF
  <1>1. Answering'
    BY DEF Answering, SafetyInv, Acknowledge, LoopPcs, HandlerPcs, TxPcs, CadPcs, AckPcs
  <1>2. ChipModes'
    BY DEF ChipModes, SafetyInv, Acknowledge
  <1>3. ConfigHeld'
    BY DEF ConfigHeld, SafetyInv, Acknowledge, TxPcs
  <1>4. IrqsLatched'
    BY DEF IrqsLatched, SafetyInv, Acknowledge
  <1>5. PendingFrameVisible'
    BY DEF PendingFrameVisible, SafetyInv, Acknowledge
  <1> QED
    BY <1>1, <1>2, <1>3, <1>4, <1>5

\* The second half of CMD_RADIO_RESUME keeps the parts of SafetyInv.
LEMMA ResumeApplySafe ==
    ASSUME SafetyInv, ResumeApply
    PROVE  Answering' /\ ChipModes' /\ ConfigHeld' /\ IrqsLatched' /\ PendingFrameVisible'
PROOF
  <1>1. /\ chip'.mode # "TX" /\ (chip'.mode = "RX" => ~(radioStandby /\ placed'))
        /\ IrqsLatched' /\ PendingFrameVisible'
        /\ radioTxReady' => chip'.cfg = currentConfig'
    <2>1. /\ chip \in ChipStates /\ faults \in 0 .. MaxFaults /\ currentConfig \in Configs
          /\ chip.mode = "RX" => ~(radioStandby /\ placed)
          /\ chip.mode = "RX" => {"CAD_DONE", "TX_DONE"} \cap chip.irq = {}
          /\ "RX_DONE" \in chip.irq => chip.buf # NoFrame
      BY DEF SafetyInv, TypeInv, TypeOK, ChipModes, IrqsLatched
    <2>2. chip.mode # "TX"
      BY DEF ResumeApply, SafetyInv, ChipModes
    <2>3. currentConfig' = currentConfig
      BY DEF ResumeApply
    <2>4. PICK a \in ApplyResults(currentConfig, chip, faults) :
            /\ radioTxReady' = a.ok
            /\ \/ StartReceive(a.chip, rf, radioStandby, a.faults)
               \/ chip' = a.chip /\ placed' = placed
      BY DEF ResumeApply
    <2>5. /\ a.chip \in ChipStates /\ a.chip.mode # "TX"
          /\ a.chip.mode = "RX" => a.chip = chip
          /\ a.chip.mode = "RX" => {"CAD_DONE", "TX_DONE"} \cap a.chip.irq = {}
          /\ "RX_DONE" \in a.chip.irq => a.chip.buf # NoFrame
          /\ a.ok => a.chip.cfg = currentConfig'
      BY <2>1, <2>2, <2>4, <2>3, AppliedLemma
    <2>6. CASE StartReceive(a.chip, rf, radioStandby, a.faults)
      BY <2>1, <2>4, <2>5, <2>6, SettleLemma
    <2>7. CASE chip' = a.chip /\ placed' = placed
      <3>1. dio1Flag' = dio1Flag /\ radioReady' = radioReady /\ pc # "acFail"
        BY DEF ResumeApply
      <3>2. (chip.mode = "RX" /\ radioReady /\ placed /\ "RX_DONE" \in chip.irq) => dio1Flag
        BY <3>1 DEF SafetyInv, PendingFrameVisible
      <3> QED
        BY <2>1, <2>4, <2>5, <2>7, <3>1, <3>2 DEF IrqsLatched, PendingFrameVisible
    <2> QED
      BY <2>4, <2>6, <2>7
  <1>2. Answering'
    BY DEF Answering, SafetyInv, ResumeApply, LoopPcs, HandlerPcs, TxPcs, CadPcs, AckPcs
  <1>3. ChipModes'
    BY <1>1 DEF ChipModes, SafetyInv, ResumeApply
  <1>4. ConfigHeld'
    BY <1>1 DEF ConfigHeld, SafetyInv, ResumeApply, TxPcs
  <1> QED
    BY <1>1, <1>2, <1>3, <1>4

\* A preamble caught keeps the parts of SafetyInv.
LEMMA PreambleCaughtSafe ==
    ASSUME SafetyInv, PreambleCaught
    PROVE  Answering' /\ ChipModes' /\ ConfigHeld' /\ IrqsLatched' /\ PendingFrameVisible'
PROOF
  <1>1. Answering'
    BY DEF Answering, SafetyInv, PreambleCaught, LoopPcs, HandlerPcs, TxPcs, CadPcs, AckPcs
  <1>2. ChipModes'
    BY DEF ChipModes, SafetyInv, PreambleCaught
  <1>3. ConfigHeld'
    BY DEF ConfigHeld, SafetyInv, PreambleCaught, TxPcs
  <1>4. IrqsLatched'
    BY DEF IrqsLatched, SafetyInv, PreambleCaught
  <1>5. PendingFrameVisible'
    BY DEF PendingFrameVisible, SafetyInv, PreambleCaught
  <1> QED
    BY <1>1, <1>2, <1>3, <1>4, <1>5

\* A valid header keeps the parts of SafetyInv.
LEMMA HeaderReceivedSafe ==
    ASSUME SafetyInv, HeaderReceived
    PROVE  Answering' /\ ChipModes' /\ ConfigHeld' /\ IrqsLatched' /\ PendingFrameVisible'
PROOF
  <1>1. Answering'
    BY DEF Answering, SafetyInv, HeaderReceived, LoopPcs, HandlerPcs, TxPcs, CadPcs, AckPcs
  <1>2. ChipModes'
    BY DEF ChipModes, SafetyInv, HeaderReceived
  <1>3. ConfigHeld'
    BY DEF ConfigHeld, SafetyInv, HeaderReceived, TxPcs
  <1>4. IrqsLatched'
    BY DEF IrqsLatched, SafetyInv, HeaderReceived
  <1>5. PendingFrameVisible'
    BY DEF PendingFrameVisible, SafetyInv, HeaderReceived
  <1> QED
    BY <1>1, <1>2, <1>3, <1>4, <1>5

\* A preamble lost keeps the parts of SafetyInv.
LEMMA PreambleLostSafe ==
    ASSUME SafetyInv, PreambleLost
    PROVE  Answering' /\ ChipModes' /\ ConfigHeld' /\ IrqsLatched' /\ PendingFrameVisible'
PROOF
  <1>1. Answering'
    BY DEF Answering, SafetyInv, PreambleLost, LoopPcs, HandlerPcs, TxPcs, CadPcs, AckPcs
  <1>2. ChipModes'
    BY DEF ChipModes, SafetyInv, PreambleLost
  <1>3. ConfigHeld'
    BY DEF ConfigHeld, SafetyInv, PreambleLost, TxPcs
  <1>4. IrqsLatched'
    BY DEF IrqsLatched, SafetyInv, PreambleLost
  <1>5. PendingFrameVisible'
    BY DEF PendingFrameVisible, SafetyInv, PreambleLost
  <1> QED
    BY <1>1, <1>2, <1>3, <1>4, <1>5

\* The end of a frame keeps the parts of SafetyInv.
LEMMA FrameReceivedSafe ==
    ASSUME SafetyInv, FrameReceived
    PROVE  Answering' /\ ChipModes' /\ ConfigHeld' /\ IrqsLatched' /\ PendingFrameVisible'
PROOF
  <1>1. /\ chip'.mode = chip.mode /\ chip'.cfg = chip.cfg
        /\ chip'.irq = chip.irq \cup {"RX_DONE"} /\ chip'.buf # NoFrame
        /\ radioReady /\ chip.irq \cap DioMask = {} => dio1Flag' = TRUE
        /\ dio1Flag => dio1Flag' = TRUE
    <2>1. chip \in ChipStates /\ chip.air.frame \in Frames
      BY DEF FrameReceived, SafetyInv, TypeInv, TypeOK, ChipStates, AirStates
    <2>2. /\ chip'.mode = chip.mode /\ chip'.cfg = chip.cfg
          /\ chip'.irq = chip.irq \cup {"RX_DONE"} /\ chip'.buf = chip.air.frame
      BY <2>1 DEF FrameReceived, ChipStates
    <2>3. {"RX_DONE"} \cap DioMask # {}
      BY DEF DioMask
    <2> QED
      BY <2>1, <2>2, <2>3, FrameAssumption DEF FrameReceived, Raise
  <1>2. Answering'
    BY DEF Answering, SafetyInv, FrameReceived, LoopPcs, HandlerPcs, TxPcs, CadPcs, AckPcs
  <1>3. ChipModes'
    BY <1>1 DEF ChipModes, SafetyInv, FrameReceived
  <1>4. ConfigHeld'
    BY <1>1 DEF ConfigHeld, SafetyInv, FrameReceived, TxPcs
  <1>5. IrqsLatched'
    BY <1>1 DEF IrqsLatched, SafetyInv, FrameReceived, DioMask
  <1>6. PendingFrameVisible'
    <2>1. /\ radioReady' = radioReady /\ placed' = placed /\ pc' = pc
          /\ PendingFrameVisible
          /\ chip.mode = "RX" => {"CAD_DONE", "TX_DONE"} \cap chip.irq = {}
      BY DEF FrameReceived, chipOnly, fwVars, faultVars, SafetyInv, IrqsLatched
    <2>2. SUFFICES ASSUME chip.mode = "RX", radioReady, placed, pc # "acFail"
                   PROVE  dio1Flag'
      BY <1>1, <2>1 DEF PendingFrameVisible
    <2>3. CASE "RX_DONE" \in chip.irq
      BY <1>1, <2>1, <2>2, <2>3 DEF PendingFrameVisible
    <2>4. CASE "RX_DONE" \notin chip.irq
      <3>1. chip.irq \cap DioMask = {}
        BY <2>1, <2>2, <2>4 DEF DioMask
      <3> QED
        BY <1>1, <2>2, <3>1
    <2> QED
      BY <2>3, <2>4
  <1> QED
    BY <1>2, <1>3, <1>4, <1>5, <1>6

\* The end of a scan keeps the parts of SafetyInv.
LEMMA ScanCompletedSafe ==
    ASSUME SafetyInv, ScanCompleted
    PROVE  Answering' /\ ChipModes' /\ ConfigHeld' /\ IrqsLatched' /\ PendingFrameVisible'
PROOF
  <1>1. Answering'
    BY DEF Answering, SafetyInv, ScanCompleted, LoopPcs, HandlerPcs, TxPcs, CadPcs, AckPcs
  <1>2. ChipModes'
    BY DEF ChipModes, SafetyInv, ScanCompleted
  <1>3. ConfigHeld'
    BY DEF ConfigHeld, SafetyInv, ScanCompleted, TxPcs
  <1>4. IrqsLatched'
    BY DEF IrqsLatched, SafetyInv, ScanCompleted
  <1>5. PendingFrameVisible'
    BY DEF PendingFrameVisible, SafetyInv, ScanCompleted
  <1> QED
    BY <1>1, <1>2, <1>3, <1>4, <1>5

\* The end of a transmission keeps the parts of SafetyInv.
LEMMA TransmissionCompletedSafe ==
    ASSUME SafetyInv, TransmissionCompleted
    PROVE  Answering' /\ ChipModes' /\ ConfigHeld' /\ IrqsLatched' /\ PendingFrameVisible'
PROOF
  <1>1. Answering'
    BY DEF Answering, SafetyInv, TransmissionCompleted, LoopPcs, HandlerPcs, TxPcs, CadPcs, AckPcs
  <1>2. ChipModes'
    BY DEF ChipModes, SafetyInv, TransmissionCompleted
  <1>3. ConfigHeld'
    BY DEF ConfigHeld, SafetyInv, TransmissionCompleted, TxPcs
  <1>4. IrqsLatched'
    BY DEF IrqsLatched, SafetyInv, TransmissionCompleted
  <1>5. PendingFrameVisible'
    BY DEF PendingFrameVisible, SafetyInv, TransmissionCompleted
  <1> QED
    BY <1>1, <1>2, <1>3, <1>4, <1>5

\* A tick of time keeps the parts of SafetyInv.
LEMMA TickSafe ==
    ASSUME SafetyInv, Tick
    PROVE  Answering' /\ ChipModes' /\ ConfigHeld' /\ IrqsLatched' /\ PendingFrameVisible'
PROOF
  <1>1. Answering'
    BY DEF Answering, SafetyInv, Tick, LoopPcs, HandlerPcs, TxPcs, CadPcs, AckPcs
  <1>2. ChipModes'
    BY DEF ChipModes, SafetyInv, Tick
  <1>3. ConfigHeld'
    BY DEF ConfigHeld, SafetyInv, Tick, TxPcs
  <1>4. IrqsLatched'
    BY DEF IrqsLatched, SafetyInv, Tick
  <1>5. PendingFrameVisible'
    BY DEF PendingFrameVisible, SafetyInv, Tick
  <1> QED
    BY <1>1, <1>2, <1>3, <1>4, <1>5
-----------------------------------------------------------------------------
\* SafetyInv is inductive: every action of Next preserves its parts.
LEMMA SafetyStep == SafetyInv /\ [Next]_vars => SafetyInv'
PROOF
  <1> SUFFICES ASSUME SafetyInv, [Next]_vars
               PROVE  SafetyInv'
    OBVIOUS
  <1>1. TypeInv'
    BY TypeStep DEF SafetyInv
  <1>2. CASE Next
    <2> SUFFICES Answering' /\ ChipModes' /\ ConfigHeld' /\ IrqsLatched' /\ PendingFrameVisible'
      BY <1>1 DEF SafetyInv
    <2>1. CASE Boot
      BY <2>1, BootRadioSafe, BootWithoutRadioSafe
      DEF Boot
    <2>2. CASE Loop
      BY <2>2, LoopIrqSafe, RearmSafe, HostDoneSafe, MaintIdleSafe,
         AgcGuardSafe, AgcRunSafe, AgcRestartSafe
      DEF Loop
    <2>3. CASE Handler
      BY <2>3, AcGuardSafe, AcScanSafe, AcPollSafe, AcFailSafe, TxStageSafe,
         TxWaitSafe, TxFinishSafe, CadStageSafe, CadPollSafe, NvWriteSafe,
         AcknowledgeSafe, ResumeApplySafe
      DEF Handler
    <2>4. CASE Host
      BY <2>4, AnswerOnlySafe, TxRequestSafe, CadRequestSafe, RxStartSafe,
         SetConfigSafe, RadioStandbySafe, RadioResumeSafe, SetAutoCadSafe,
         SetLnaSafe
      DEF Host
    <2>5. CASE Reboot
      BY <2>5, RebootSafe
    <2>6. CASE Air
      BY <2>6, PreambleCaughtSafe, HeaderReceivedSafe, PreambleLostSafe,
         FrameReceivedSafe
      DEF Air
    <2>7. CASE Chip
      BY <2>7, ScanCompletedSafe, TransmissionCompletedSafe
      DEF Chip
    <2>8. CASE Tick
      BY <2>8, TickSafe
    <2> QED
      BY <1>2, <2>1, <2>2, <2>3, <2>4, <2>5, <2>6, <2>7, <2>8 DEF Next
  <1>3. CASE UNCHANGED vars
    <2>1. Answering' /\ ChipModes'
      BY <1>3 DEF SafetyInv, Answering, ChipModes
    <2>2. ConfigHeld' /\ IrqsLatched' /\ PendingFrameVisible'
      BY <1>3 DEF SafetyInv, ConfigHeld, IrqsLatched, PendingFrameVisible
    <2> QED
      BY <1>1, <2>1, <2>2 DEF SafetyInv
  <1> QED
    BY <1>2, <1>3

\* The chip is off and nothing is asked when the modem is switched on.
LEMMA SafetyInit == Init => SafetyInv
PROOF
  <1> SUFFICES ASSUME Init
               PROVE  SafetyInv
    OBVIOUS
  <1>1. TypeInv
    BY InitTypeOK DEF TypeInv, AttemptsLeft, Init, Powered
  <1>2. /\ pc = "boot" /\ ~radioReady /\ ~radioStandby /\ ~isTxActive /\ ~radioTxReady
        /\ reply = "none" /\ chip.mode = "OFF" /\ chip.irq = {}
    BY DEF Init, Powered, PoweredOff
  <1>3. Answering /\ ChipModes
    BY <1>2 DEF Answering, ChipModes, HandlerPcs, TxPcs, CadPcs, AckPcs
  <1>4. ConfigHeld /\ IrqsLatched /\ PendingFrameVisible
    BY <1>2 DEF ConfigHeld, IrqsLatched, PendingFrameVisible, TxPcs
  <1> QED
    BY <1>1, <1>3, <1>4 DEF SafetyInv

\* The inductive invariant of the radio core holds in every reachable state.
THEOREM SafetyInvariant == Spec => []SafetyInv
PROOF
  <1>1. Init => SafetyInv
    BY SafetyInit
  <1>2. SafetyInv /\ [Next]_vars => SafetyInv'
    BY SafetyStep
  <1> QED
    BY <1>1, <1>2, PTL DEF Spec

\* Every path out of a handler has answered and has lowered isTxActive, and the
\* chip never transmits while loop() goes round.
THEOREM HandlersAccounted == Spec => []HandlerAccounting
PROOF
  <1>1. SafetyInv => HandlerAccounting
    BY DEF SafetyInv, Answering, ChipModes, HandlerAccounting, LoopPcs
  <1> QED
    BY <1>1, SafetyInvariant, PTL

\* A frame is transmitted with the configuration the host last set, all of it:
\* radioTxReady keeps a half-applied one off the air.
THEOREM ConfigurationWhole == Spec => []NoPartialConfigOnAir
PROOF
  <1>1. SafetyInv => NoPartialConfigOnAir
    BY DEF SafetyInv, ChipModes, ConfigHeld, NoPartialConfigOnAir, TxPcs
  <1> QED
    BY <1>1, SafetyInvariant, PTL

\* The receive path never goes deaf: while RX_DONE is latched in RX, dio1Flag is
\* up and the loop will serve it.
THEOREM ReceptionsVisible == Spec => []PendingFrameVisible
PROOF
  <1>1. SafetyInv => PendingFrameVisible
    BY DEF SafetyInv
  <1> QED
    BY <1>1, SafetyInvariant, PTL
=============================================================================
