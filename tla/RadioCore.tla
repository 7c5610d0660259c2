------------------------------ MODULE RadioCore ------------------------------
(***************************************************************************)
(* The half-duplex LoRa core of the modem: loop() and processHostCommand() *)
(* of src/firmware/src/main.cpp, the DIO1 interrupt handler, the SX1262    *)
(* behind RadioLib and the RX/TX front end of rf_frontend.cpp.             *)
(*                                                                         *)
(* One thread (the Arduino loop) runs everything except the interrupt; the *)
(* chip raises IRQ flags, and through them DIO1, between any two of its    *)
(* steps.  `pc' is the point the loop has reached: a handler is cut where  *)
(* it polls, delays or sends, since that is where the chip can get ahead.  *)
(* Time is counted in ticks longer than any code between two such points.  *)
(***************************************************************************)
EXTENDS Integers, FiniteSets

CONSTANTS
    Frames,         \* LoRa frames that other stations put on the air
    NoFrame,        \* "no frame"
    ValidConfigs,   \* RadioConfig values the chip accepts
    BadConfigs,     \* RadioConfig values some setter rejects
    DefaultConfig,  \* the preset currentConfig starts with
    PartialConfig,  \* what the chip holds after an apply that failed halfway
    Boards,         \* subset of {"station", "v43", "t114"}
    PreambleTime,   \* longest time from the first preamble symbol to the header
    PayloadTime,    \* longest time from a valid header to the end of the frame
    PreambleBound,  \* preMs of isReceivingPacket()
    HeaderBound,    \* maxMs of isReceivingPacket()
    CadOverruns,    \* may CAD_DONE come after the firmware stopped waiting?
    MaxFaults       \* bound: driver calls that may fail in a behaviour

Configs == ValidConfigs \cup BadConfigs

ASSUME FrameAssumption == NoFrame \notin Frames
ASSUME ConfigAssumption ==
    /\ DefaultConfig \in ValidConfigs
    /\ ValidConfigs \cap BadConfigs = {}
    /\ PartialConfig \notin Configs
ASSUME BoardAssumption == Boards \subseteq {"station", "v43", "t114"}
\* getTimeOnAir() padded by half: a bound outlives the phase it supervises, and
\* the header's is that of a whole frame of the longest payload, preamble included.
ASSUME TimeAssumption ==
    /\ PreambleTime \in Nat /\ PayloadTime \in Nat
    /\ PreambleBound \in Nat /\ HeaderBound \in Nat
    /\ 0 < PreambleTime /\ PreambleTime <= PreambleBound
    /\ 0 < PayloadTime /\ PayloadTime <= HeaderBound
    /\ PreambleBound <= HeaderBound
    /\ PreambleTime + PayloadTime <= HeaderBound
ASSUME SwitchAssumption == CadOverruns \in BOOLEAN /\ MaxFaults \in Nat

CAD_AUTO_RETRIES == 2

VARIABLES
    pc,             \* where the loop is
    board,          \* build variant, fixed
    radioReady, radioStandby, autoCadEnabled, isTxActive, radioTxReady,
    currentConfig,
    dio1Flag,       \* set by the interrupt, cleared by the loop
    rxActivityAge,  \* millis() - rxActivityAt in ticks; -1 is rxActivityAt = 0
    rxHeaderSeen,
    attempt,        \* auto-CAD scans made for the current request
    txOk,           \* local of CMD_TX_REQUEST
    rf,             \* front end: LNA pin, stationG3InReceive, wanted LNA setting
    nv,             \* NodeState files: [standby, autocad]
    persist,        \* NodeState file removed and not written yet, or "none"
    chip,           \* the SX1262: mode, config, IRQ register, air, RX buffer
    reply,          \* answer to the last host request ("pending": not yet)
    witness,        \* history: what the chip really did for that request
    heard,          \* history: frames whose preamble the chip has caught
    delivered,      \* history: frames handed to the host as RX_PACKET
    protected,      \* history: frame in the air the guard last timed afresh
    placed,         \* history: the last attempt to park the chip succeeded
    faults          \* history: driver failures so far

fwVars == <<radioReady, radioStandby, autoCadEnabled, isTxActive, radioTxReady,
            currentConfig, attempt, txOk>>
guardVars == <<rxActivityAge, rxHeaderSeen, protected>>
nvVars == <<nv, persist>>
hostVars == <<reply, witness>>
airVars == <<heard, delivered>>
faultVars == <<placed, faults>>
vars == <<pc, board, fwVars, dio1Flag, guardVars, rf, nvVars, chip, hostVars,
          airVars, faultVars>>

IrqFlags == {"PREAMBLE", "HEADER", "RX_DONE", "CAD_DONE", "CAD_DETECTED", "TX_DONE"}
\* Mutant: the flags startReceive() enables are routed to the pin as well.
DioMaskAllFlags == IrqFlags

\* Flags routed to DIO1 (RadioLib's RX, CAD and TX masks together): only
\* terminal events raise the pin.
DioMask == {"RX_DONE", "CAD_DONE", "TX_DONE"}

TxPcs == {"acGuard", "acScan", "acWait", "acFail", "txStage", "txWait", "txFinish"}
CadPcs == {"cadStage", "cadWait"}
AckPcs == {"stbyAck", "resApply", "acadAck"}
HandlerPcs == TxPcs \cup CadPcs \cup AckPcs
LoopPcs == {"irq", "rearm", "host", "maint", "agc"}
Pcs == LoopPcs \cup HandlerPcs \cup {"boot", "halted"}

\* Points where the loop has just looked at the IRQ flags and the next thing
\* it does is take the chip out of RX.
StagePcs == {"txStage", "acScan", "cadStage", "agc"}
-----------------------------------------------------------------------------
(* The chip, as RadioLib's calls change it.                                *)

Silence == [frame |-> NoFrame, stage |-> "none", age |-> 0]

PoweredOff == [mode |-> "OFF", cfg |-> PartialConfig, irq |-> {}, air |-> Silence,
               buf |-> NoFrame]

Standby(c) == [c EXCEPT !.mode = "STDBY", !.air = Silence]
Enter(c, m) == [c EXCEPT !.mode = m, !.air = Silence, !.irq = {}]
FinishTransmit(c) == Enter(c, "STDBY")
ClearIrq(c, flags) == [c EXCEPT !.irq = @ \ flags]

\* An IRQ flag is latched; DIO1 rises only if no routed flag held it high.
Raise(flags) ==
    dio1Flag' = (dio1Flag \/ (/\ radioReady
                              /\ flags \cap DioMask # {}
                              /\ chip.irq \cap DioMask = {}))
\* Mutant: an edge seen during a handler outlives it.
EdgeKept == UNCHANGED dio1Flag

\* dio1Flag = false, around every wait of a handler.
EdgeForgotten == dio1Flag' = FALSE
-----------------------------------------------------------------------------
(* Firmware helpers, as the set of results they may have.                  *)

\* applyConfig(): `ok' is its result, also the new radioTxReady.
ApplyResults(cfg, c, spent) ==
    LET applied(ok, held, cost) ==
            [ok |-> ok, chip |-> [Standby(c) EXCEPT !.cfg = held],
             faults |-> spent + cost]
    IN  {r \in {applied(TRUE, cfg, 0), applied(FALSE, PartialConfig, 1),
                [ok |-> FALSE, chip |-> c, faults |-> spent + 1]} :
            cfg \in ValidConfigs /\ r.faults <= MaxFaults}
        \cup
        {r \in {applied(FALSE, PartialConfig, 0),
                [ok |-> FALSE, chip |-> c, faults |-> spent + 1]} :
            cfg \in BadConfigs /\ r.faults <= MaxFaults}

ReceiveFrontEnd(f) == [f EXCEPT !.inReceive = TRUE, !.lna = f.wanted]

BypassedFrontEnd(f) == [f EXCEPT !.inReceive = FALSE, !.lna = FALSE]

\* radio.startReceive() after the front end: RX, or a failure that leaves the chip
\* alone.
EnterReceive(c, f, spent) ==
    /\ rf' = ReceiveFrontEnd(f)
    /\ \/ chip' = Enter(c, "RX") /\ placed' = TRUE /\ faults' = spent
       \/ /\ spent < MaxFaults
          /\ chip' = c /\ placed' = FALSE /\ faults' = spent + 1

StayParked(c, f, spent) == chip' = c /\ rf' = f /\ placed' = placed /\ faults' = spent

\* Mutant: hard standby is not consulted.
StartReceiveInStandby(c, f, standby, spent) == EnterReceive(c, f, spent)

\* Mutant: refused while isTxActive is still up.
StartReceiveAfterTx(c, f, standby, spent) ==
    IF standby \/ isTxActive THEN StayParked(c, f, spent) ELSE EnterReceive(c, f, spent)

\* startReceive() from chip state c, front end f: a no-op that reports success in
\* hard standby.
StartReceive(c, f, standby, spent) ==
    \/ standby /\ StayParked(c, f, spent)
    \/ ~standby /\ EnterReceive(c, f, spent)

\* isReceivingPacket(): its verdict, and what it does to its two variables and
\* to the chip's flags.  The timer starts (anew for a header) when a flag is
\* first seen; a header that went away by itself ends the reception.
HeaderLatched == "HEADER" \in chip.irq
LonePreamble == ~HeaderLatched /\ ~rxHeaderSeen /\ "PREAMBLE" \in chip.irq
PreambleAge == IF rxActivityAge = -1 THEN 0 ELSE rxActivityAge

\* Mutant: the timer goes on from the preamble.
HeaderAgeNotRestarted == PreambleAge

HeaderAge == IF rxHeaderSeen THEN rxActivityAge ELSE 0

\* Mutant: no bound, a latched flag is a reception.
ReceivingUnbounded == HeaderLatched \/ LonePreamble

Receiving == \/ HeaderLatched /\ HeaderAge <= HeaderBound
             \/ LonePreamble /\ PreambleAge <= PreambleBound

StaleFlags == CASE Receiving -> {}
                [] ~Receiving /\ HeaderLatched -> {"PREAMBLE", "HEADER"}
                [] ~Receiving /\ LonePreamble -> {"PREAMBLE"}
                [] OTHER -> {}

\* Run the guard and act on its verdict: where the loop goes when it is busy and
\* when it is clear.
Guard(busyPc, clearPc) ==
    /\ rxHeaderSeen' = (Receiving /\ HeaderLatched)
    /\ rxActivityAge' = CASE ~Receiving -> -1
                          [] Receiving /\ HeaderLatched -> HeaderAge
                          [] Receiving /\ ~HeaderLatched -> PreambleAge
    /\ chip' = ClearIrq(chip, StaleFlags)
    /\ protected' = IF \/ Receiving /\ HeaderLatched /\ ~rxHeaderSeen
                       \/ Receiving /\ ~HeaderLatched /\ rxActivityAge = -1
                    THEN chip.air.frame ELSE protected
    /\ pc' = IF Receiving THEN busyPc ELSE clearPc
-----------------------------------------------------------------------------
(* Boot and reboot.                                                        *)

Powered(b, files) ==
    /\ pc = "boot"
    /\ board = b
    /\ nv = files
    /\ radioReady = FALSE
    /\ radioStandby = FALSE
    /\ autoCadEnabled = FALSE
    /\ isTxActive = FALSE
    /\ radioTxReady = FALSE
    /\ currentConfig = DefaultConfig
    /\ attempt = 0
    /\ txOk = FALSE
    /\ dio1Flag = FALSE
    /\ rxActivityAge = -1
    /\ rxHeaderSeen = FALSE
    /\ persist = "none"
    /\ chip = PoweredOff

Init ==
    /\ \E b \in Boards : Powered(b, [standby |-> "missing", autocad |-> "missing"])
    /\ rf \in [lna : {FALSE}, inReceive : {FALSE}, wanted : BOOLEAN]
    /\ reply = "none" /\ witness = "none"
    /\ heard = {} /\ delivered = {} /\ protected = NoFrame
    /\ placed = TRUE /\ faults = 0

\* Mutant: a missing file reads as standby.
RestoredFromMissing ==
    /\ radioStandby' = (board = "t114" /\ nv.standby # "off")
    /\ autoCadEnabled' = (board = "t114" /\ nv.autocad = "on")

\* setup(): NodeState is restored before the radio is initialised (T114 only).
Restored ==
    /\ radioStandby' = (board = "t114" /\ nv.standby = "on")
    /\ autoCadEnabled' = (board = "t114" /\ nv.autocad = "on")

\* RFFrontEnd::begin() already drives the V4.3 LNA from its saved setting.
BootFrontEnd == [rf EXCEPT !.lna = (board = "v43" /\ rf.wanted), !.inReceive = FALSE]

\* radio.begin() failed, or the board has no LoRa module: the modem goes on
\* without a radio.
BootWithoutRadio ==
    /\ pc = "boot"
    /\ Restored
    /\ rf' = BootFrontEnd
    /\ pc' = "irq"
    /\ UNCHANGED <<board, radioReady, isTxActive, radioTxReady, currentConfig,
                   attempt, txOk, dio1Flag, guardVars, nvVars, chip, hostVars,
                   airVars, faultVars>>

\* begin() succeeded: apply the preset and start receiving; a failure of either
\* stops in an endless loop.
BootRadio ==
    /\ pc = "boot"
    /\ Restored
    /\ \E a \in ApplyResults(currentConfig, Standby(chip), faults) :
        /\ radioTxReady' = a.ok
        /\ IF a.ok
           THEN /\ StartReceive(a.chip, BootFrontEnd, radioStandby', a.faults)
                /\ radioReady' = (radioStandby' \/ placed')
           ELSE /\ radioReady' = FALSE
                /\ chip' = a.chip
                /\ rf' = BootFrontEnd
                /\ faults' = a.faults
                /\ UNCHANGED placed
    /\ pc' = IF radioReady' THEN "irq" ELSE "halted"
    /\ UNCHANGED <<board, isTxActive, currentConfig, attempt, txOk, dio1Flag,
                   guardVars, nvVars, hostVars, airVars>>

\* Power loss, watchdog, or a command that restarts the modem.
Reboot ==
    /\ pc # "boot"
    /\ pc' = "boot"
    /\ radioReady' = FALSE /\ radioStandby' = FALSE /\ autoCadEnabled' = FALSE
    /\ isTxActive' = FALSE /\ radioTxReady' = FALSE
    /\ currentConfig' = DefaultConfig
    /\ attempt' = 0 /\ txOk' = FALSE /\ dio1Flag' = FALSE
    /\ rxActivityAge' = -1 /\ rxHeaderSeen' = FALSE
    /\ persist' = "none"
    /\ chip' = [PoweredOff EXCEPT !.buf = NoFrame]
    /\ rf' = BypassedFrontEnd(rf)
    /\ reply' = "none" /\ witness' = "none"
    /\ protected' = NoFrame /\ placed' = TRUE
    /\ UNCHANGED <<board, nv, airVars, faults>>
-----------------------------------------------------------------------------
(* loop(): DIO1, host bytes, maintenance, and round again.                 *)

\* handleLoRaRx() up to the re-arm.  An empty chip buffer is the bad-length
\* path, which reads nothing; readData() clears the IRQ flags, and a frame that
\* fails its CRC is dropped.
LoopIrq ==
    /\ pc = "irq"
    /\ IF dio1Flag /\ ~isTxActive
       THEN /\ dio1Flag' = FALSE
            /\ pc' = "rearm"
            /\ IF chip.buf = NoFrame
               THEN UNCHANGED <<chip, delivered>>
               ELSE /\ chip' = ClearIrq(chip, IrqFlags)
                    /\ delivered' \in {delivered, delivered \cup {chip.buf}}
       ELSE /\ pc' = "host"
            /\ UNCHANGED <<dio1Flag, chip, delivered>>
    /\ UNCHANGED <<board, fwVars, guardVars, rf, nvVars, hostVars, heard, faultVars>>

Rearm ==
    /\ pc = "rearm"
    /\ StartReceive(chip, rf, radioStandby, faults)
    /\ pc' = "host"
    /\ UNCHANGED <<board, fwVars, dio1Flag, guardVars, nvVars, hostVars, airVars>>

\* Serial and UART have run dry.
HostDone ==
    /\ pc = "host"
    /\ pc' = "maint"
    /\ reply' = "none" /\ witness' = "none"
    /\ UNCHANGED <<board, fwVars, dio1Flag, guardVars, rf, nvVars, chip, airVars,
                   faultVars>>

\* A web handler changes the external LNA.  The V4.3 writes the pin at once;
\* the Station applies it only while in receive.
SetLna ==
    /\ pc = "maint"
    /\ board \in {"station", "v43"}
    /\ \E on \in BOOLEAN :
        rf' = [rf EXCEPT !.wanted = on,
                         !.lna = IF board = "v43" THEN on ELSE rf.inReceive /\ on]
    /\ UNCHANGED <<pc, board, fwVars, dio1Flag, guardVars, nvVars, chip, hostVars,
                   airVars, faultVars>>

\* maybeResetAgc() not due or deferred before the receiver is consulted.
MaintIdle ==
    /\ pc = "maint"
    /\ pc' = "irq"
    /\ UNCHANGED <<board, fwVars, dio1Flag, guardVars, rf, nvVars, chip, hostVars,
                   airVars, faultVars>>

AgcMayRun == radioReady /\ ~radioStandby /\ ~isTxActive /\ ~dio1Flag

\* Station G2/G3: due, and the receiver callback is evaluated last.
AgcGuard ==
    /\ pc = "maint"
    /\ board = "station"
    /\ AgcMayRun
    /\ Guard("irq", "agc")
    /\ UNCHANGED <<board, fwVars, dio1Flag, rf, nvVars, hostVars, airVars, faultVars>>

\* AgcMaintenance::run(): bypass the LNA, standby, resetAGC(), and restart RX
\* whatever failed.
AgcRun ==
    /\ pc = "agc"
    /\ IF dio1Flag
       THEN UNCHANGED <<chip, rf, faultVars>>
       ELSE \/ StartReceive(Standby(chip), BypassedFrontEnd(rf), radioStandby, faults)
            \/ /\ faults < MaxFaults
               /\ StartReceive(chip, BypassedFrontEnd(rf), radioStandby, faults + 1)
    /\ pc' = "irq"
    /\ UNCHANGED <<board, fwVars, dio1Flag, guardVars, nvVars, hostVars, airVars>>

\* Heltec V4.3: a plain RX restart, with no reception check.
AgcRestart ==
    /\ pc = "maint"
    /\ board = "v43"
    /\ AgcMayRun
    /\ StartReceive(Standby(chip), rf, radioStandby, faults)
    /\ pc' = "irq"
    /\ UNCHANGED <<board, fwVars, dio1Flag, guardVars, nvVars, hostVars, airVars>>
-----------------------------------------------------------------------------
(* processHostCommand(): requests taken while the loop drains host bytes.  *)

\* Answered on the spot without touching radio state: ERR_NO_RADIO, malformed
\* payloads, TX while radioTxReady is false, the queries, PING.
AnswerOnly ==
    /\ pc = "host"
    /\ reply' \in {"ERR", "OK"}
    /\ witness' = "none"
    /\ UNCHANGED <<pc, board, fwVars, dio1Flag, guardVars, rf, nvVars, chip, airVars,
                   faultVars>>

\* Mutant: nobody looks at radioTxReady.
MayTransmitUnconfigured == radioReady

MayTransmit == radioReady /\ radioTxReady

\* CMD_TX_REQUEST up to its first reception guard.
TxRequest ==
    /\ pc = "host"
    /\ MayTransmit
    /\ Guard("host", IF autoCadEnabled THEN "acGuard" ELSE "txStage")
    /\ isTxActive' = ~Receiving
    /\ attempt' = 0
    /\ reply' = IF Receiving THEN "BUSY" ELSE "pending"
    /\ witness' = "none"
    /\ UNCHANGED <<board, radioReady, radioStandby, autoCadEnabled, radioTxReady,
                   currentConfig, txOk, dio1Flag, rf, nvVars, airVars, faultVars>>

\* Mutant: the busy return forgets isTxActive.
AcGuardKeepsTxActive ==
    /\ pc = "acGuard"
    /\ Guard("host", "acScan")
    /\ reply' = IF Receiving THEN "BUSY" ELSE reply
    /\ UNCHANGED <<board, fwVars, dio1Flag, rf, nvVars, witness, airVars, faultVars>>

\* Auto-CAD: the passive guard before each scan.
AcGuard ==
    /\ pc = "acGuard"
    /\ Guard("host", "acScan")
    /\ isTxActive' = ~Receiving
    /\ reply' = IF Receiving THEN "BUSY" ELSE reply
    /\ UNCHANGED <<board, radioReady, radioStandby, autoCadEnabled, radioTxReady,
                   currentConfig, attempt, txOk, dio1Flag, rf, nvVars, witness,
                   airVars, faultVars>>

AcScan ==
    /\ pc = "acScan"
    /\ EdgeForgotten
    /\ witness' = "none"
    /\ \/ /\ chip' = Enter(chip, "CAD")
          /\ pc' = "acWait"
          /\ UNCHANGED faults
       \/ /\ faults < MaxFaults
          /\ faults' = faults + 1
          /\ pc' = "acFail"
          /\ chip' \in {chip, Standby(chip)}
    /\ UNCHANGED <<board, fwVars, guardVars, rf, nvVars, reply, airVars, placed>>

\* Mutant: `<=' in the loop over the scans.
ScansLeftAndOneMore == attempt < CAD_AUTO_RETRIES

ScansLeft == attempt + 1 < CAD_AUTO_RETRIES

\* Mutant: a scan that never ended counts as clear.
ScanNotDetected == "CAD_DETECTED" \notin chip.irq

ScanClear == "CAD_DONE" \in chip.irq /\ "CAD_DETECTED" \notin chip.irq

\* The 200 ms poll ends: on CAD_DONE, or because time is up.
AcPoll ==
    /\ pc = "acWait"
    /\ chip' = ClearIrq(chip, {"CAD_DONE", "CAD_DETECTED"})
    /\ EdgeForgotten
    /\ attempt' = attempt + 1
    /\ pc' = CASE ScanClear -> "txStage"
               [] ~ScanClear /\ "CAD_DONE" \in chip.irq /\ ScansLeft -> "acGuard"
               [] OTHER -> "acFail"
    /\ UNCHANGED <<board, radioReady, radioStandby, autoCadEnabled, isTxActive,
                   radioTxReady, currentConfig, txOk, guardVars, rf, nvVars, hostVars,
                   airVars, faultVars>>

\* No clear verdict: busy, and back to RX.
AcFail ==
    /\ pc = "acFail"
    /\ isTxActive' = FALSE
    /\ reply' = "BUSY"
    /\ StartReceive(chip, rf, radioStandby, faults)
    /\ pc' = "host"
    /\ UNCHANGED <<board, radioReady, radioStandby, autoCadEnabled, radioTxReady,
                   currentConfig, attempt, txOk, dio1Flag, guardVars, nvVars, witness,
                   airVars>>

\* Standby, LNA bypass, forget DIO1, start the transmission.
TxStage ==
    /\ pc = "txStage"
    /\ EdgeForgotten
    /\ \/ /\ chip' = Enter(chip, "TX")
          /\ rf' = BypassedFrontEnd(rf)
          /\ pc' = "txWait"
          /\ UNCHANGED <<isTxActive, reply, faultVars>>
       \/ /\ faults < MaxFaults
          /\ isTxActive' = FALSE
          /\ reply' = "ERR"
          /\ StartReceive(FinishTransmit(chip), BypassedFrontEnd(rf), radioStandby, faults + 1)
          /\ pc' = "host"
    /\ UNCHANGED <<board, radioReady, radioStandby, autoCadEnabled, radioTxReady,
                   currentConfig, attempt, txOk, guardVars, nvVars, witness, airVars>>

\* Mutant: the wait loop has no deadline.
TxWaitForever ==
    /\ pc = "txWait"
    /\ dio1Flag
    /\ txOk' = TRUE
    /\ pc' = "txFinish"
    /\ UNCHANGED <<board, radioReady, radioStandby, autoCadEnabled, isTxActive,
                   radioTxReady, currentConfig, attempt, dio1Flag, guardVars, rf,
                   nvVars, chip, hostVars, airVars, faultVars>>

\* The wait loop ends (DIO1 or 4.5 s) and its outcome is read.
TxWait ==
    /\ pc = "txWait"
    /\ txOk' = dio1Flag
    /\ pc' = "txFinish"
    /\ UNCHANGED <<board, radioReady, radioStandby, autoCadEnabled, isTxActive,
                   radioTxReady, currentConfig, attempt, dio1Flag, guardVars, rf,
                   nvVars, chip, hostVars, airVars, faultVars>>

TxFinish ==
    /\ pc = "txFinish"
    /\ EdgeForgotten
    /\ isTxActive' = FALSE
    /\ reply' = IF txOk THEN "TX_DONE" ELSE "ERR"
    /\ IF txOk
       THEN /\ StartReceive(FinishTransmit(chip), rf, radioStandby, faults)
            /\ UNCHANGED radioTxReady
       ELSE \E a \in ApplyResults(currentConfig, FinishTransmit(chip), faults) :
                /\ radioTxReady' = a.ok
                /\ StartReceive(a.chip, rf, radioStandby, a.faults)
    /\ pc' = "host"
    /\ UNCHANGED <<board, radioReady, radioStandby, autoCadEnabled, currentConfig,
                   attempt, txOk, guardVars, nvVars, witness, airVars>>

\* CMD_CAD_REQUEST: a reception in progress is a busy verdict by itself.
CadRequest ==
    /\ pc = "host"
    /\ radioReady
    /\ Guard("host", "cadStage")
    /\ reply' = IF Receiving THEN "BUSY" ELSE "pending"
    /\ witness' = "none"
    /\ UNCHANGED <<board, fwVars, dio1Flag, rf, nvVars, airVars, faultVars>>

CadStage ==
    /\ pc = "cadStage"
    /\ EdgeForgotten
    /\ \/ /\ chip' = Enter(chip, "CAD")
          /\ pc' = "cadWait"
          /\ UNCHANGED <<rf, reply, faultVars>>
       \/ /\ faults < MaxFaults
          /\ reply' = "ERR"
          /\ StartReceive(Standby(chip), rf, radioStandby, faults + 1)
          /\ pc' = "host"
    /\ UNCHANGED <<board, fwVars, guardVars, nvVars, witness, airVars>>

\* CAD_DONE within 500 ms gives the verdict; otherwise rebuild the radio.
CadPoll ==
    /\ pc = "cadWait"
    /\ EdgeForgotten
    /\ IF "CAD_DONE" \in chip.irq
       THEN /\ reply' = IF "CAD_DETECTED" \in chip.irq THEN "DETECTED" ELSE "CLEAR"
            /\ StartReceive(ClearIrq(chip, {"CAD_DONE", "CAD_DETECTED"}), rf, radioStandby, faults)
            /\ UNCHANGED radioTxReady
       ELSE /\ reply' = "ERR"
            /\ \E a \in ApplyResults(currentConfig, Standby(chip), faults) :
                /\ radioTxReady' = a.ok
                /\ StartReceive(a.chip, rf, radioStandby, a.faults)
    /\ pc' = "host"
    /\ UNCHANGED <<board, radioReady, radioStandby, autoCadEnabled, isTxActive,
                   currentConfig, attempt, txOk, guardVars, nvVars, witness, airVars>>

RxStart ==
    /\ pc = "host"
    /\ radioReady
    /\ StartReceive(chip, rf, radioStandby, faults)
    /\ reply' = "OK"
    /\ witness' = "none"
    /\ UNCHANGED <<pc, board, fwVars, dio1Flag, guardVars, nvVars, airVars>>

\* currentConfig is overwritten before the chip has accepted it, and a failed
\* apply does not return to RX.
SetConfig ==
    /\ pc = "host"
    /\ radioReady
    /\ \E cfg \in Configs :
        /\ currentConfig' = cfg
        /\ \E a \in ApplyResults(cfg, chip, faults) :
            /\ radioTxReady' = a.ok
            /\ IF a.ok
               THEN /\ reply' = "OK"
                    /\ StartReceive(a.chip, rf, radioStandby, a.faults)
               ELSE /\ reply' = "ERR"
                    /\ chip' = a.chip
                    /\ faults' = a.faults
                    /\ UNCHANGED <<rf, placed>>
    /\ witness' = "none"
    /\ UNCHANGED <<pc, board, radioReady, radioStandby, autoCadEnabled, isTxActive,
                   attempt, txOk, dio1Flag, guardVars, nvVars, airVars>>

\* NodeState::set*(): nothing when the value is unchanged, otherwise the file is
\* removed and then written.  Only the T114 persists.
Forget(key, was, on) ==
    IF board = "t114" /\ was # on
    THEN persist' = key /\ nv' = [nv EXCEPT ![key] = "missing"]
    ELSE UNCHANGED <<nv, persist>>

NvWrite ==
    /\ persist # "none"
    /\ LET on == IF persist = "standby" THEN radioStandby ELSE autoCadEnabled
       IN  \/ /\ nv' = [nv EXCEPT ![persist] = IF on THEN "on" ELSE "off"]
              /\ UNCHANGED faults
           \/ /\ faults < MaxFaults      \* open() failed: nobody is told
              /\ faults' = faults + 1
              /\ UNCHANGED nv
    /\ persist' = "none"
    /\ UNCHANGED <<pc, board, fwVars, dio1Flag, guardVars, rf, chip, hostVars, airVars,
                   placed>>

\* Accepted whether or not the radio was ever brought up.
RadioStandby ==
    /\ pc = "host"
    /\ rf' = BypassedFrontEnd(rf)
    /\ \/ /\ chip' = Standby(chip)
          /\ placed' = TRUE
          /\ UNCHANGED faults
       \/ /\ faults < MaxFaults
          /\ placed' = FALSE
          /\ faults' = faults + 1
          /\ UNCHANGED chip
    /\ radioStandby' = TRUE
    /\ Forget("standby", radioStandby, TRUE)
    /\ reply' = "pending"
    /\ witness' = "none"
    /\ pc' = "stbyAck"
    /\ UNCHANGED <<board, radioReady, autoCadEnabled, isTxActive, radioTxReady,
                   currentConfig, attempt, txOk, dio1Flag, guardVars, airVars>>

RadioResume ==
    /\ pc = "host"
    /\ radioStandby' = FALSE
    /\ Forget("standby", radioStandby, FALSE)
    /\ reply' = "pending"
    /\ witness' = "none"
    /\ pc' = "resApply"
    /\ UNCHANGED <<board, radioReady, autoCadEnabled, isTxActive, radioTxReady,
                   currentConfig, attempt, txOk, dio1Flag, guardVars, rf, chip,
                   airVars, faultVars>>

SetAutoCad ==
    /\ pc = "host"
    /\ \E on \in BOOLEAN :
        /\ autoCadEnabled' = on
        /\ Forget("autocad", autoCadEnabled, on)
    /\ reply' = "pending"
    /\ witness' = "none"
    /\ pc' = "acadAck"
    /\ UNCHANGED <<board, radioReady, radioStandby, isTxActive, radioTxReady,
                   currentConfig, attempt, txOk, dio1Flag, guardVars, rf, chip,
                   airVars, faultVars>>

\* The acknowledgement of RADIO_STANDBY (always status 0) and of SET_AUTO_CAD.
Acknowledge ==
    /\ pc \in {"stbyAck", "acadAck"}
    /\ persist = "none"
    /\ reply' = "OK"
    /\ pc' = "host"
    /\ UNCHANGED <<board, fwVars, dio1Flag, guardVars, rf, nvVars, chip, witness,
                   airVars, faultVars>>

\* applyConfig() && startReceive(), then the status.
ResumeApply ==
    /\ pc = "resApply"
    /\ persist = "none"
    /\ \E a \in ApplyResults(currentConfig, chip, faults) :
        /\ radioTxReady' = a.ok
        /\ IF a.ok
           THEN /\ StartReceive(a.chip, rf, radioStandby, a.faults)
                /\ reply' = IF placed' THEN "OK" ELSE "ERR"
           ELSE /\ chip' = a.chip
                /\ faults' = a.faults
                /\ reply' = "ERR"
                /\ UNCHANGED <<rf, placed>>
    /\ pc' = "host"
    /\ UNCHANGED <<board, radioReady, radioStandby, autoCadEnabled, isTxActive,
                   currentConfig, attempt, txOk, dio1Flag, guardVars, nvVars, witness,
                   airVars>>
-----------------------------------------------------------------------------
(* The chip and the air.                                                   *)

chipOnly == <<pc, board, fwVars, guardVars, rf, nvVars, reply, delivered, faultVars>>

PreambleCaught ==
    /\ chip.mode = "RX"
    /\ chip.air = Silence
    /\ \E f \in Frames \ heard :
        /\ heard' = heard \cup {f}
        /\ chip' = [chip EXCEPT !.air = [frame |-> f, stage |-> "preamble", age |-> 0],
                                !.irq = @ \cup {"PREAMBLE"}]
    /\ UNCHANGED <<chipOnly, dio1Flag, witness>>

HeaderReceived ==
    /\ chip.air.stage = "preamble"
    /\ chip.air.age > 0
    /\ chip' = [chip EXCEPT !.air = [frame |-> @.frame, stage |-> "header", age |-> 0],
                            !.irq = @ \cup {"HEADER"}]
    /\ UNCHANGED <<chipOnly, dio1Flag, witness, heard>>

\* The preamble never becomes a header; its flag stays latched.
PreambleLost ==
    /\ chip.air.stage = "preamble"
    /\ chip' = [chip EXCEPT !.air = Silence]
    /\ UNCHANGED <<chipOnly, dio1Flag, witness, heard>>

FrameReceived ==
    /\ chip.air.stage = "header"
    /\ chip.air.age > 0
    /\ Raise({"RX_DONE"})
    /\ chip' = [chip EXCEPT !.air = Silence, !.buf = chip.air.frame,
                            !.irq = @ \cup {"RX_DONE"}]
    /\ UNCHANGED <<chipOnly, witness, heard>>

ScanCompleted ==
    /\ chip.mode = "CAD"
    /\ CadOverruns \/ pc \in {"acWait", "cadWait"}
    /\ \E detected \in BOOLEAN :
        LET flags == {"CAD_DONE"} \cup (IF detected THEN {"CAD_DETECTED"} ELSE {})
        IN  /\ Raise(flags)
            /\ chip' = [chip EXCEPT !.mode = "STDBY", !.irq = @ \cup flags]
            /\ witness' = IF detected THEN "busy" ELSE "clear"
    /\ UNCHANGED <<chipOnly, heard>>

TransmissionCompleted ==
    /\ chip.mode = "TX"
    /\ Raise({"TX_DONE"})
    /\ chip' = [chip EXCEPT !.mode = "STDBY", !.irq = @ \cup {"TX_DONE"}]
    /\ witness' = "aired"
    /\ UNCHANGED <<chipOnly, heard>>

\* A phase of a frame does not outlast its airtime; ages saturate just above
\* the largest bound they are compared with.
Tick ==
    /\ pc \notin StagePcs
    /\ chip.air.stage = "preamble" => chip.air.age < PreambleTime
    /\ chip.air.stage = "header" => chip.air.age < PayloadTime
    /\ chip' = IF chip.air = Silence THEN chip ELSE [chip EXCEPT !.air.age = @ + 1]
    /\ rxActivityAge' = IF rxActivityAge = -1 \/ rxActivityAge > HeaderBound
                        THEN rxActivityAge ELSE rxActivityAge + 1
    /\ UNCHANGED <<pc, board, fwVars, rf, nvVars, reply, delivered, faultVars,
                   dio1Flag, witness, heard, rxHeaderSeen, protected>>

Air == PreambleCaught \/ HeaderReceived \/ PreambleLost \/ FrameReceived
Chip == ScanCompleted \/ TransmissionCompleted

Loop == LoopIrq \/ Rearm \/ HostDone \/ MaintIdle \/ AgcGuard \/ AgcRun \/ AgcRestart
Handler == \/ AcGuard \/ AcScan \/ AcPoll \/ AcFail \/ TxStage \/ TxWait \/ TxFinish
           \/ CadStage \/ CadPoll \/ NvWrite \/ Acknowledge \/ ResumeApply
Host == \/ AnswerOnly \/ TxRequest \/ CadRequest \/ RxStart \/ SetConfig
        \/ RadioStandby \/ RadioResume \/ SetAutoCad \/ SetLna
Boot == BootRadio \/ BootWithoutRadio

Next == Boot \/ Loop \/ Handler \/ Host \/ Reboot \/ Air \/ Chip \/ Tick

Spec == Init /\ [][Next]_vars
-----------------------------------------------------------------------------
(* Types and safety.                                                       *)

AirStates == [frame : {NoFrame}, stage : {"none"}, age : {0}]
             \cup [frame : Frames, stage : {"preamble"}, age : 0 .. PreambleTime]
             \cup [frame : Frames, stage : {"header"}, age : 0 .. PayloadTime]

ChipStates == [mode : {"OFF", "STDBY", "RX", "CAD", "TX"},
               cfg : Configs \cup {PartialConfig},
               irq : SUBSET IrqFlags,
               air : AirStates,
               buf : Frames \cup {NoFrame}]

FrontEndStates == [lna : BOOLEAN, inReceive : BOOLEAN, wanted : BOOLEAN]

\* Every variable has its type, and the ages stay within their bounds.
TypeOK ==
    /\ pc \in Pcs
    /\ board \in Boards
    /\ radioReady \in BOOLEAN /\ radioStandby \in BOOLEAN
    /\ autoCadEnabled \in BOOLEAN /\ isTxActive \in BOOLEAN
    /\ radioTxReady \in BOOLEAN /\ dio1Flag \in BOOLEAN
    /\ rxHeaderSeen \in BOOLEAN /\ txOk \in BOOLEAN
    /\ currentConfig \in Configs
    /\ rxActivityAge \in -1 .. HeaderBound + 1
    /\ attempt \in 0 .. CAD_AUTO_RETRIES
    /\ rf \in FrontEndStates
    /\ nv \in [standby : {"missing", "off", "on"}, autocad : {"missing", "off", "on"}]
    /\ persist \in {"none", "standby", "autocad"}
    /\ chip \in ChipStates
    /\ reply \in {"none", "pending", "OK", "ERR", "BUSY", "TX_DONE", "CLEAR", "DETECTED"}
    /\ witness \in {"none", "aired", "clear", "busy"}
    /\ heard \in SUBSET Frames
    /\ delivered \in SUBSET Frames
    /\ protected \in Frames \cup {NoFrame}
    /\ placed \in BOOLEAN
    /\ faults \in 0 .. MaxFaults

\* The external LNA is receive-only on the Station, and no board drives it while
\* transmitting.
LnaFollowsRadio ==
    /\ chip.mode = "TX" => ~rf.lna
    /\ board # "v43" => (rf.lna => rf.inReceive)
    /\ board # "v43" /\ radioStandby /\ pc \in {"irq", "host", "maint"} => ~rf.lna

\* Between requests the radio is where the host last put it: in hard standby it
\* neither listens nor transmits, otherwise it is back in RX after every TX,
\* CAD, error path and maintenance pass -- unless the driver call that should
\* have put it there failed, or no valid configuration is applied.  And its front
\* end goes with it.
RadioPlacement ==
    /\ pc \in {"irq", "host", "maint"} /\ radioReady /\ placed =>
        IF radioStandby
        THEN chip.mode \in {"STDBY", "CAD"}
        ELSE radioTxReady => chip.mode = "RX"
    /\ LnaFollowsRadio

\* The RX path cannot go deaf: DIO1 gives one edge per burst of latched
\* terminal flags, so while RX_DONE is latched in RX the software flag that will
\* consume it must be up.  Every clearing of dio1Flag is paired with one of the
\* chip's flags; only on the way out of a scan that would not start
\* (main.cpp:1096) is the pair completed by the startReceive() that follows.
PendingFrameVisible ==
    /\ chip.mode = "RX" /\ radioReady /\ placed /\ pc # "acFail"
    /\ "RX_DONE" \in chip.irq
    => dio1Flag

\* Answers are true: TX_DONE means this request's transmission completed, a CAD
\* verdict is that of a scan made for this request, and with auto-CAD nothing
\* is transmitted unless the last scan completed and found the channel clear.
HonestVerdicts ==
    /\ reply = "TX_DONE" => witness = "aired"
    /\ reply = "CLEAR" => witness = "clear"
    /\ reply = "DETECTED" => witness = "busy"
    /\ autoCadEnabled /\ chip.mode = "TX" => witness = "clear"

\* A request is being worked on exactly in the handlers, isTxActive holds exactly
\* in CMD_TX_REQUEST -- left up, it would keep loop() from ever serving DIO1 --
\* so every path out of a handler has answered and has released the radio.
HandlerAccounting ==
    /\ (reply = "pending") <=> (pc \in HandlerPcs)
    /\ isTxActive <=> (pc \in TxPcs)
    /\ pc \in LoopPcs => chip.mode # "TX"

\* applyConfig() clears radioTxReady first, so a configuration that was applied
\* only in part never reaches the air, whatever a failed SET_CONFIG or a failed
\* recovery left in currentConfig.
NoPartialConfigOnAir == chip.mode = "TX" => chip.cfg = currentConfig

\* A frame for which the guard has started its timer is not aborted by a later
\* TX, CAD or AGC pass while it is still within its airtime.
TimedReceptionSurvives ==
    pc \in StagePcs /\ placed /\ chip.air # Silence => chip.air.frame # protected

\* "Single DIO1 ISR flag -- interpreted as RX_DONE when !isTxActive": what loop()
\* serves as a reception is one, and a new one.  No edge of a TX or a scan leaks
\* into handleLoRaRx(), which would hand the host the buffer's old frame again.
ServedIrqIsReception ==
    [][pc = "irq" /\ pc' = "rearm" => chip.buf \notin delivered \cup {NoFrame}]_vars

\* NodeState on the T114: between requests the files agree with RAM, so a reboot
\* restores the standby and auto-CAD the host last had acknowledged; and a
\* reboot in the middle of a rewrite restores the old value or the new one.
PersistedStateMatches ==
    board = "t114" /\ pc \in LoopPcs /\ faults = 0 =>
        /\ (nv.standby = "on") = radioStandby
        /\ (nv.autocad = "on") = autoCadEnabled
-----------------------------------------------------------------------------
(* Liveness.                                                               *)

\* The loop and its handlers run (the task watchdog aside, nothing preempts them
\* for good), frames in the air end, time passes.  Serial.available() runs dry
\* again and again: loop() drains the port without a budget, so a host that
\* never pauses would keep it there.
Fairness ==
    /\ WF_vars(Boot) /\ WF_vars(Loop) /\ WF_vars(Handler)
    /\ SF_vars(HostDone)
    /\ WF_vars(Air) /\ WF_vars(Tick)

FairSpec == Spec /\ Fairness

\* Every request is answered, or the modem reboots: no poll, retry or recovery
\* path of a handler is endless.
EveryRequestAnswered == reply = "pending" ~> reply # "pending"

\* The radio always comes back: it is again and again in RX, or kept out of it
\* by hard standby, a failed driver call, a rejected configuration or no radio.
ReceiverComesBack ==
    []<>(\/ chip.mode = "RX" \/ radioStandby \/ ~radioTxReady \/ ~placed \/ ~radioReady)

\* A stray reception flag does not hold TX off for good: the guard lets go of
\* whatever is latched, for a host that asks again whenever it is refused.
StrayFlagsReleased ==
    []<><<TxRequest>>_vars
        => []<>(~radioReady \/ chip.irq \cap {"PREAMBLE", "HEADER"} = {})
-----------------------------------------------------------------------------
(* What comments and documents say and the code does not do.               *)

\* "a TX/CAD request cannot abort a frame during its preamble" (main.cpp:296):
\* the preamble was latched when the guard ran, and yet the radio is about to be
\* taken out of RX.
PreambleNotTrampled ==
    pc \in {"txStage", "cadStage"} => ~(chip.air.stage = "preamble" /\ chip.air.age > 0)

\* "a frame being received is authoritative -- refuse rather than trample it"
\* (main.cpp:1045): the same for a frame whose valid header was latched.
HeaderedFrameNotTrampled ==
    pc \in {"txStage", "cadStage"} => ~(chip.air.stage = "header" /\ chip.air.age > 0)

\* "refuse anything that would touch the SX1262" (main.cpp:1020).
DeadRadioUntouched == ~radioReady /\ pc \in {"irq", "host", "maint"} => chip.mode = "OFF"
=============================================================================
