------------------------------- MODULE Sensors -------------------------------
(***************************************************************************)
(* The telemetry the firmware caches between loops and answers hosts with: *)
(* the BME280 of a Station (environment_sensor.cpp), the INA219 of a       *)
(* Station G3 (station_g3_power.cpp), the fan task of a T-Beam 1W          *)
(* (tbeam_1w_fan.cpp), the raw ADC battery reading (battery_monitor.cpp)   *)
(* and the GPS receiver (gps_manager.cpp).  The five share nothing.        *)
(*                                                                         *)
(* A time is an age that grows with Tick up to the longest limit it is     *)
(* compared to.  What a device answers is an input of the step that asks;  *)
(* so is any time between two calls of loop().                             *)
(***************************************************************************)
EXTENDS Naturals

CONSTANTS
    CONVERSION, CONVERSION_TIMEOUT,             \* BME280
    SAMPLE_INTERVAL, MAX_SAMPLE_AGE,
    REPROBE_INTERVAL,
    MAX_CONSECUTIVE_FAILURES, Volts,            \* INA219; Volts a finite set of numbers
    TEMPERATURE_AGE,                            \* fan
    SAMPLES, MIN_SAMPLES,                       \* battery
    ADC_COUNTS, MV_NUMERATOR, MV_DENOMINATOR,   \* reference and divider
    MIN_MV, MAX_MV, MILLIVOLTS_UNAVAILABLE,
    LINE_LENGTH, MAX_IN_VIEW, CONFIG_COMMANDS   \* GPS

ASSUME IntervalAssumption ==
    /\ {CONVERSION, CONVERSION_TIMEOUT, SAMPLE_INTERVAL, MAX_SAMPLE_AGE, REPROBE_INTERVAL,
        TEMPERATURE_AGE, MAX_CONSECUTIVE_FAILURES} \subseteq Nat \ {0}
    /\ CONVERSION <= CONVERSION_TIMEOUT /\ CONVERSION_TIMEOUT < SAMPLE_INTERVAL
    /\ SAMPLE_INTERVAL < MAX_SAMPLE_AGE
ASSUME AdcAssumption ==
    /\ {SAMPLES, MIN_SAMPLES, ADC_COUNTS, MV_NUMERATOR, MV_DENOMINATOR} \subseteq Nat \ {0}
    /\ MIN_MV \in Nat /\ MAX_MV \in Nat /\ MAX_MV < MILLIVOLTS_UNAVAILABLE
    /\ MILLIVOLTS_UNAVAILABLE \in Nat /\ Volts \subseteq Nat
ASSUME GpsAssumption == {LINE_LENGTH, MAX_IN_VIEW, CONFIG_COMMANDS} \subseteq Nat \ {0}

VARIABLES env, power, fan, battery, gps

Older(age, limit) == IF age < limit THEN age + 1 ELSE limit
-----------------------------------------------------------------------------
(* BME280.  `converted' is the true age of the conversion that the cached  *)
(* values come from.                                                       *)

Offline(e) == [e EXCEPT !.detected = FALSE, !.measuring = FALSE, !.available = FALSE, !.probe = 0]
ProbeOutcomes(e) ==
    {Offline(e), [Offline(e) EXCEPT !.detected = TRUE, !.start = SAMPLE_INTERVAL]}

\* Mutant: the values are as new as the transfer that read them.
ReadNow(e) == [e EXCEPT !.available = TRUE, !.measuring = FALSE, !.sample = 0,
                        !.converted = e.start]

\* The sample is dated with the start of its conversion.
Cached(e) == [e EXCEPT !.available = TRUE, !.measuring = FALSE, !.sample = e.start,
                       !.converted = e.start]

\* A conversion that is still busy is waited for, up to its timeout.
Busy(e) == IF e.start >= CONVERSION_TIMEOUT THEN Offline(e) ELSE e

\* Any transaction that fails, and any value out of range, takes the sensor offline.
EnvOutcomes ==
    CASE ~env.detected ->
           IF env.probe >= REPROBE_INTERVAL THEN ProbeOutcomes(env) ELSE {env}
      [] env.detected /\ ~env.measuring ->
           IF env.start < SAMPLE_INTERVAL THEN {env}
           ELSE {Offline(env), [env EXCEPT !.measuring = TRUE, !.start = 0]}
      [] env.detected /\ env.measuring ->
           IF env.start < CONVERSION THEN {env}
           ELSE {Offline(env), Busy(env), Cached(env)}

EnvLoop == env' \in EnvOutcomes
EnvTick == env' = [env EXCEPT !.probe = Older(@, REPROBE_INTERVAL),
                              !.start = Older(@, MAX_SAMPLE_AGE),
                              !.sample = Older(@, MAX_SAMPLE_AGE),
                              !.converted = Older(@, MAX_SAMPLE_AGE)]

\* snapshot()
EnvPublished == env.available /\ env.sample < MAX_SAMPLE_AGE

EnvInit == env \in ProbeOutcomes([detected |-> FALSE, measuring |-> FALSE, available |-> FALSE,
                                  probe |-> 0, start |-> 0, sample |-> 0, converted |-> 0])
EnvNext == EnvLoop \/ EnvTick
-----------------------------------------------------------------------------
(* INA219.  The interval between two samples may pass at any moment, the   *)
(* wait of an offline sensor is `probe'.                                   *)

NoVolts == 0

\* sample(): both readings succeed and are in range, or the sample is invalid.
SampleFails(p) ==
    LET failed == [p EXCEPT !.valid = FALSE, !.failures = @ + 1, !.answered = FALSE]
    IN IF failed.failures >= MAX_CONSECUTIVE_FAILURES
       THEN [failed EXCEPT !.available = FALSE, !.probe = 0] ELSE failed
SampleGives(p, v) ==
    [p EXCEPT !.valid = TRUE, !.available = TRUE, !.failures = 0, !.voltage = v,
              !.answered = TRUE,
              !.minimum = IF @ = NoVolts \/ v < @ THEN v ELSE @]
SampleOutcomes(p) == {SampleFails(p)} \union {SampleGives(p, v) : v \in Volts}

\* tryBegin(): the chip, then a first sample; without either it is offline.
BeginOutcomes(p) ==
    LET asked == [p EXCEPT !.probe = 0, !.answered = FALSE]
        begun == [asked EXCEPT !.failures = 0, !.available = TRUE]
    IN {[asked EXCEPT !.available = FALSE, !.valid = FALSE]}
       \union {IF s.valid THEN s ELSE [s EXCEPT !.available = FALSE, !.probe = 0]
               : s \in SampleOutcomes(begun)}

PowerLoop ==
    power' \in IF power.available THEN SampleOutcomes(power)
               ELSE IF power.probe >= REPROBE_INTERVAL THEN BeginOutcomes(power) ELSE {power}
PowerTick == power' = [power EXCEPT !.probe = Older(@, REPROBE_INTERVAL)]

PowerInit == power \in BeginOutcomes(
    [available |-> FALSE, valid |-> FALSE, failures |-> 0, probe |-> 0, answered |-> FALSE,
     voltage |-> NoVolts, minimum |-> NoVolts])
PowerNext == PowerLoop \/ PowerTick
-----------------------------------------------------------------------------
(* The fan task, beside loop().  begin() and the task start it ON; a setup *)
(* that fails ends the task.  "band" is between 40 and 45 degrees.         *)

Temperatures == {"none", "cool", "band", "hot"}

\* Hysteresis::update()
Updated(enabled, t) == t \in {"none", "hot"} \/ (t = "band" /\ enabled)

FanSetup == /\ fan.task = "setup"
            /\ fan' \in {[fan EXCEPT !.task = s] : s \in {"ended", "running"}}

\* Eight samples; one that fails or is out of range makes the reading NaN.
FanReads == /\ fan.task = "running"
            /\ \E t \in Temperatures :
                 fan' = [fan EXCEPT !.task = "publishing", !.reading = t,
                                    !.control = Updated(@, t)]

\* One critical section: the pin and what hosts are told.
FanPublishes ==
    /\ fan.task = "publishing"
    /\ fan' = [fan EXCEPT !.task = "running", !.pin = fan.control, !.enabled = fan.control,
                          !.temperature = fan.reading, !.age = 0]
FanTick == fan' = [fan EXCEPT !.age = Older(@, TEMPERATURE_AGE)]

\* temperatureC()
FanTemperature == IF fan.age < TEMPERATURE_AGE THEN fan.temperature ELSE "none"

FanInit == fan \in
    {[task |-> s, pin |-> TRUE, enabled |-> TRUE, control |-> TRUE,
      reading |-> "none", temperature |-> "none", age |-> 0] : s \in {"ended", "setup"}}
FanNext == FanSetup \/ FanReads \/ FanPublishes \/ FanTick
-----------------------------------------------------------------------------
(* The battery behind a divider: one raw sample per pass, and a batch of   *)
(* SAMPLES every five seconds.  The filter judges each sample by itself,   *)
(* so a batch is how many were taken, how many were plausible, and their   *)
(* total.                                                                  *)

\* convertAdcRawToMillivolts()
Millivolts(raw) ==
    LET millivolts == (raw * MV_NUMERATOR) \div (ADC_COUNTS * MV_DENOMINATOR)
    IN IF raw >= ADC_COUNTS \/ millivolts >= MILLIVOLTS_UNAVAILABLE
       THEN MILLIVOLTS_UNAVAILABLE ELSE millivolts

Plausible(raw) == Millivolts(raw) \in MIN_MV .. MAX_MV

\* filterAdcSamplesToMillivolts(): its loop, and the mean converted again.
Sampled(b, raw) ==
    [b EXCEPT !.taken = @ + 1, !.valid = IF Plausible(raw) THEN @ + 1 ELSE @,
              !.total = IF Plausible(raw) THEN @ + raw ELSE @]
Filtered(b) == IF b.valid < MIN_SAMPLES THEN MILLIVOLTS_UNAVAILABLE
               ELSE Millivolts(b.total \div b.valid)

BatteryLoop ==
    \E raw \in 0 .. ADC_COUNTS :
        LET b == Sampled(battery, raw)
        IN battery' = IF b.taken < SAMPLES THEN b
                      ELSE [taken |-> 0, valid |-> 0, total |-> 0, millivolts |-> Filtered(b)]
BatteryInit == battery = [taken |-> 0, valid |-> 0, total |-> 0,
                          millivolts |-> MILLIVOLTS_UNAVAILABLE]
-----------------------------------------------------------------------------
(* The GPS receiver (gps_manager.cpp).  A time or a date is known or not,  *)
(* satellites are counted, and the position and motion are left out.       *)
(* `line' counts the bytes that wait for their line feed, and `of' is the  *)
(* power-up they came from.                                                *)

NoGps == [seen |-> FALSE, fixValid |-> FALSE, utcTime |-> FALSE, date |-> FALSE,
          datetimeUtc |-> FALSE, stored |-> 0]

\* setEnabled(): what is already so is left as it is.
GpsSetEnabled(on) ==
    gps' = IF on = gps.enabled THEN gps
           ELSE [gps EXCEPT !.enabled = on, !.current = NoGps, !.line = 0,
                            !.session = IF on THEN 1 - @ ELSE @,
                            !.commands = IF on /\ gps.casic THEN 0 ELSE CONFIG_COMMANDS]

\* parseGga() and parseRmc(): each field is kept, or replaced by what it says, nothing
\* when it is malformed.  updateDatetime() needs both date and time.
GpsFixed(c, fix, t, d) == [c EXCEPT !.fixValid = fix, !.utcTime = t, !.date = d,
                                    !.datetimeUtc = @ \/ (d /\ t)]
GpsFix(c) == {GpsFixed(c, fix, t, d) : fix, t, d \in BOOLEAN}

\* parseGsv(): up to four satellites, appended to those of the messages before.
GpsView(c) ==
    {[c EXCEPT !.stored = IF from + k > MAX_IN_VIEW THEN MAX_IN_VIEW ELSE from + k] :
       from \in {0, c.stored}, k \in 0 .. 4}

\* parseSentence(): one that is not NMEA or whose checksum fails changes nothing.
GpsSentences(c) ==
    LET known == [c EXCEPT !.seen = TRUE]
    IN {c, known} \union GpsFix(known) \union GpsView(known)

\* A byte in loop(): of a line that is too long the rest counts as a new one.
GpsLonger == [gps EXCEPT !.line = IF @ < LINE_LENGTH THEN @ + 1 ELSE 0,
                         !.of = IF gps.line = 0 THEN gps.session ELSE @]
GpsLineEnds ==
    IF gps.line = 0 THEN {gps}
    ELSE {[gps EXCEPT !.line = 0, !.current = c, !.mixed = @ \/ gps.of # gps.session] :
            c \in GpsSentences(gps.current)}
GpsByte == gps.enabled /\ gps' \in {GpsLonger} \union GpsLineEnds

\* runAtgm336hConfig(), when the next command is due.
GpsConfigures == /\ gps.enabled /\ gps.commands < CONFIG_COMMANDS
                 /\ gps' = [gps EXCEPT !.commands = @ + 1]

\* begin(enabled) on a board with a receiver.
GpsInit == gps \in
    {[enabled |-> on, casic |-> casic, current |-> NoGps, line |-> 0, of |-> 0, session |-> 0,
      mixed |-> FALSE, commands |-> IF on /\ casic THEN 0 ELSE CONFIG_COMMANDS] :
       on \in BOOLEAN, casic \in BOOLEAN}
GpsNext == GpsByte \/ GpsConfigures \/ (\E on \in BOOLEAN : GpsSetEnabled(on))
-----------------------------------------------------------------------------
sensorVars == <<env, power, fan, battery, gps>>
SensorsInit == EnvInit /\ PowerInit /\ FanInit /\ BatteryInit /\ GpsInit
SensorsNext ==
    \/ EnvNext /\ UNCHANGED <<power, fan, battery, gps>>
    \/ PowerNext /\ UNCHANGED <<env, fan, battery, gps>>
    \/ FanNext /\ UNCHANGED <<env, power, battery, gps>>
    \/ BatteryLoop /\ UNCHANGED <<env, power, fan, gps>>
    \/ GpsNext /\ UNCHANGED <<env, power, fan, battery>>
SensorsSpec == SensorsInit /\ [][SensorsNext]_sensorVars
-----------------------------------------------------------------------------
SensorsTypeOK ==
    /\ env \in [detected : BOOLEAN, measuring : BOOLEAN, available : BOOLEAN,
                probe : 0 .. REPROBE_INTERVAL, start : 0 .. MAX_SAMPLE_AGE,
                sample : 0 .. MAX_SAMPLE_AGE, converted : 0 .. MAX_SAMPLE_AGE]
    /\ power \in [available : BOOLEAN, valid : BOOLEAN, answered : BOOLEAN,
                  failures : 0 .. MAX_CONSECUTIVE_FAILURES, probe : 0 .. REPROBE_INTERVAL,
                  voltage : Volts \union {NoVolts}, minimum : Volts \union {NoVolts}]
    /\ fan \in [task : {"setup", "running", "publishing", "ended"},
                pin : BOOLEAN, enabled : BOOLEAN, control : BOOLEAN,
                reading : Temperatures, temperature : Temperatures, age : 0 .. TEMPERATURE_AGE]
    /\ battery \in [taken : 0 .. SAMPLES - 1, valid : Nat, total : Nat,
                    millivolts : 0 .. MILLIVOLTS_UNAVAILABLE]
    /\ gps \in [enabled : BOOLEAN, casic : BOOLEAN, mixed : BOOLEAN, line : 0 .. LINE_LENGTH,
                of : 0 .. 1, session : 0 .. 1, commands : 0 .. CONFIG_COMMANDS,
                current : [seen : BOOLEAN, fixValid : BOOLEAN, utcTime : BOOLEAN, date : BOOLEAN,
                           datetimeUtc : BOOLEAN, stored : 0 .. MAX_IN_VIEW]]

\* Telemetry never passes for more than it is.  A published climate is of a conversion
\* younger than MAX_SAMPLE_AGE however late loop() came; a valid supply voltage is of a
\* chip that answered last, and not below the minimum shown beside it; the fan stands
\* still only on a finite temperature below the upper threshold, and its state is told
\* as it is; a battery voltage is plausible although it is converted from a mean; and a
\* GPS receiver that is off reports nothing, nor does a sentence cut off by a power-down
\* end in the next one.
TelemetryHonest ==
    /\ EnvPublished => env.detected /\ env.converted < MAX_SAMPLE_AGE
    /\ power.valid => power.available /\ power.answered /\ power.minimum <= power.voltage
    /\ fan.enabled = fan.pin
    /\ ~fan.pin => fan.temperature \in {"cool", "band"}
    /\ battery.millivolts \in (MIN_MV .. MAX_MV) \union {MILLIVOLTS_UNAVAILABLE}
    /\ ~gps.enabled => gps.current = NoGps
    /\ ~gps.mixed
=============================================================================
