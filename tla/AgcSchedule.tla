----------------------------- MODULE AgcSchedule -----------------------------
(***************************************************************************)
(* When maybeResetAgc() resets the receiver: the arithmetic on millis() in *)
(* AgcMaintenance::shouldAttempt(), of which RadioCore only keeps that a   *)
(* pass may attempt a reset or not, and what that reset does.              *)
(*                                                                         *)
(* millis() runs modulo AgcWrap.  `rested' and `quiet' are the time that   *)
(* really passed since the last attempt or new interval and since the last *)
(* transmission, as far as AgcWrap.                                        *)
(***************************************************************************)
EXTENDS Naturals

CONSTANTS RECENT_PACKET_GUARD, STATION_POST_TX_QUIET, Intervals, AgcWrap

ASSUME AgcAssumption ==
    /\ {RECENT_PACKET_GUARD, STATION_POST_TX_QUIET, AgcWrap} \union Intervals \subseteq Nat
    /\ 1 < AgcWrap
    /\ \A i \in Intervals : i + RECENT_PACKET_GUARD + STATION_POST_TX_QUIET < AgcWrap

VARIABLE agc

agcVars == agc

MaxInterval == AgcWrap                      \* UINT16_MAX, no interval yet

agcSince(t) == (agc.now + AgcWrap - t) % AgcWrap

\* The end of setup(); a Station tells when it last transmitted.
AgcInit ==
    \E station \in BOOLEAN, interval \in Intervals :
      agc = [now |-> 1, station |-> station, interval |-> interval, scheduled |-> MaxInterval,
             lastAttempt |-> 1, lastPacket |-> 0, lastTx |-> 0, rested |-> 0, quiet |-> AgcWrap]

Passed(s, time) ==
    [s EXCEPT !.now = (@ + time) % AgcWrap,
              !.rested = IF @ < AgcWrap THEN @ + time ELSE @,
              !.quiet = IF @ < AgcWrap THEN @ + time ELSE @]

Due == agc.interval # 0 /\ agcSince(agc.lastAttempt) >= agc.interval
Undisturbed ==
    /\ agcSince(agc.lastPacket) >= RECENT_PACKET_GUARD
    /\ agc.station /\ agc.lastTx # 0 => agcSince(agc.lastTx) >= STATION_POST_TX_QUIET

\* Mutant: a new interval counts from the last attempt.
RescheduledAtOnce(time) ==
    /\ agc.interval # agc.scheduled
    /\ agc' = Passed([agc EXCEPT !.scheduled = agc.interval, !.rested = 0], time)

\* A pass of loop() with the radio ready, neither parked nor transmitting: a new interval
\* starts now; an attempt is recorded whether it succeeds or not.
Rescheduled(time) ==
    /\ agc.interval # agc.scheduled
    /\ agc' = Passed([agc EXCEPT !.scheduled = agc.interval, !.lastAttempt = agc.now,
                                 !.rested = 0], time)
Attempted(time) ==
    /\ agc.interval = agc.scheduled /\ Due /\ Undisturbed
    /\ agc' = Passed([agc EXCEPT !.lastAttempt = agc.now, !.rested = 0], time)
Deferred(time) ==
    /\ agc.interval = agc.scheduled /\ ~(Due /\ Undisturbed)
    /\ agc' = Passed(agc, time)
ReadyPass(time) == Rescheduled(time) \/ Attempted(time) \/ Deferred(time)

\* ... and any other pass, or one that finds DIO1 pending or a frame on the air.
BusyPass(time) == agc' = Passed(agc, time)

PacketReceived == agc' = [agc EXCEPT !.lastPacket = agc.now]
TxCompleted ==
    agc' = [agc EXCEPT !.lastPacket = agc.now, !.quiet = 0,
                       !.lastTx = IF agc.station THEN agc.now ELSE @]
IntervalSet == \E i \in Intervals : agc' = [agc EXCEPT !.interval = i]

AgcNext ==
    \/ \E time \in {0, 1} : ReadyPass(time) \/ BusyPass(time)
    \/ PacketReceived \/ TxCompleted \/ IntervalSet

AgcSpec == AgcInit /\ [][AgcNext]_agcVars /\ WF_agcVars(ReadyPass(1))
-----------------------------------------------------------------------------
AgcTypeOK ==
    agc \in [now : 0 .. AgcWrap - 1, station : BOOLEAN, interval : Intervals,
             scheduled : Intervals \union {MaxInterval}, lastAttempt : 0 .. AgcWrap - 1,
             lastPacket : 0 .. AgcWrap - 1, lastTx : 0 .. AgcWrap - 1,
             rested : 0 .. AgcWrap, quiet : 0 .. AgcWrap]

\* Attempts, failed ones too, are a whole interval apart, of the interval that is set,
\* and a Station's are not in the quiet time after a transmission -- unless that ended in
\* the millisecond in which millis() was 0, which agc_maintenance.h:66 takes for `never'.
AttemptsSpaced ==
    [][(\E time \in {0, 1} : Attempted(time)) =>
         /\ agc.interval # 0 /\ agc.rested >= agc.interval
         /\ agc.station /\ agc.lastTx # 0 => agc.quiet >= STATION_POST_TX_QUIET]_agcVars

\* A radio that is left alone is reset again and again, also across the wrap of millis()
\* and however old the last packet and transmission are.
AgcComesRound ==
    <>[][ReadyPass(0) \/ ReadyPass(1)]_agcVars /\ <>[](agc.interval # 0)
        => []<><<Attempted(0) \/ Attempted(1)>>_agcVars
=============================================================================
