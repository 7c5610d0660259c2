---------------------------- MODULE NetworkProofs ----------------------------
(***************************************************************************)
(* The components around the radio, as one run of them side by side holds  *)
(* them (MCNetwork): the composition starts every component in one of its  *)
(* initial states and moves at most one of them, by a step of its own.     *)
(* So the invariants of the components, conjoined, are inductive for the   *)
(* composition, and what each component promises it still promises there,  *)
(* for all values of all constants.                                        *)
(***************************************************************************)
EXTENDS MCNetwork, BoardProofs, Esp32Proofs, RakConfigProofs

NetworkInv ==
    /\ StoreInv /\ TcpInv /\ WifiInv /\ ConfigInv /\ UpdateInv /\ SensorsInv /\ ParsersInv
    /\ EthernetTypeOK /\ PanelInv /\ InTime(agc) /\ RakInv /\ DecodersTypeOK

LEMMA DecodersStart == DecodersInit => DecodersTypeOK
  <1>1. DecoderLength \in Nat  BY DecoderAssumption
  <1> QED  BY <1>1 DEF DecodersInit, DecodersTypeOK

LEMMA DecodersKeep == DecodersTypeOK /\ [DecodersNext]_typed => DecodersTypeOK'
  <1> SUFFICES ASSUME DecodersTypeOK, [DecodersNext]_typed PROVE DecodersTypeOK'
    OBVIOUS
  <1>1. DecoderLength \in Nat  BY DecoderAssumption
  <1>2. CASE Typed
    <2>1. PICK token \in Tokens : typed' = Append(typed, token)  BY <1>2 DEF Typed
    <2>2. typed' \in Seq(Tokens) /\ Len(typed') = Len(typed) + 1
      BY <2>1 DEF DecodersTypeOK
    <2>3. Len(typed) \in Nat /\ Len(typed) < DecoderLength  BY <1>2 DEF Typed, DecodersTypeOK
    <2> QED  BY <1>1, <2>2, <2>3 DEF DecodersTypeOK
  <1>3. CASE NextRequest
    BY <1>1, <1>3 DEF NextRequest, DecodersTypeOK
  <1>4. CASE UNCHANGED typed
    BY <1>4 DEF DecodersTypeOK
  <1> QED  BY <1>2, <1>3, <1>4 DEF DecodersNext

\* Every component starts in one of its own initial states ...
LEMMA ComponentsStart ==
    NetworkInit =>
        /\ Init /\ TcpInit /\ WifiInit /\ ConfigInit /\ UpdateInit /\ SensorsInit /\ ParsersInit
        /\ EthernetInit /\ PanelInit /\ AgcInit /\ RakInit /\ DecodersInit
  BY DEF NetworkInit

LEMMA NetworkStarts == NetworkInit => NetworkInv
  <1> SUFFICES ASSUME NetworkInit PROVE NetworkInv
    OBVIOUS
  <1>1. RakInv
    BY ComponentsStart, DefaultsBoot, RakAssumption DEF RakInit, RakInv
  <1> QED
    BY <1>1, ComponentsStart, StoreInit, TcpStarts, WifiStarts, ConfigStarts, UpdateStarts,
       SensorsStart, ParsersStart, EthernetStartsTyped, PanelStarts, AgcStarts, DecodersStart
       DEF NetworkInv

\* ... and a step of the composition is a step of each component or leaves it alone.
Moves ==
    /\ [Next]_vars /\ [TcpNext]_tcpVars /\ [WifiNext]_wifiVars /\ [ConfigNext]_configVars
    /\ [UpdateNext]_updateVars /\ [SensorsNext]_sensorVars /\ [ParsersNext]_parserVars
    /\ [EthernetNext]_ethernetVars /\ [PanelNext]_panelVars /\ [AgcNext]_agcVars
    /\ [RakNext]_rakVars /\ [DecodersNext]_typed

LEMMA ComponentsMove == [NetworkNext]_networkVars => Moves
  <1> SUFFICES ASSUME [NetworkNext]_networkVars PROVE Moves
    OBVIOUS
  <1>1. CASE UNCHANGED networkVars
    BY <1>1 DEF networkVars, boardVars, Moves
  <1>2. CASE OnlyStore /\ Next
    BY <1>2 DEF OnlyStore, boardVars, Moves
  <1>3. CASE OnlyTcp /\ TcpNext
    BY <1>3 DEF OnlyTcp, boardVars, Moves
  <1>4. CASE OnlyWifi /\ WifiNext
    BY <1>4 DEF OnlyWifi, boardVars, Moves
  <1>5. CASE OnlyConfig /\ ConfigNext
    BY <1>5 DEF OnlyConfig, boardVars, Moves
  <1>6. CASE OnlyUpdate /\ UpdateNext
    BY <1>6 DEF OnlyUpdate, boardVars, Moves
  <1>7. CASE /\ OnlySensors
             /\ \/ part = "env" /\ EnvNext /\ UNCHANGED <<power, fan, battery, gps>>
                \/ part = "power" /\ PowerNext /\ UNCHANGED <<env, fan, battery, gps>>
                \/ part = "fan" /\ FanNext /\ UNCHANGED <<env, power, battery, gps>>
                \/ part = "battery" /\ BatteryLoop /\ UNCHANGED <<env, power, fan, gps>>
                \/ part = "gps" /\ GpsNext /\ UNCHANGED <<env, power, fan, battery>>
    <2>1. SensorsNext  BY <1>7 DEF SensorsNext
    <2> QED  BY <1>7, <2>1 DEF OnlySensors, boardVars, Moves
  <1>8. CASE /\ OnlyParsers
             /\ \/ part = "frame" /\ FrameNext /\ UNCHANGED req
                \/ part = "request" /\ RequestNext /\ UNCHANGED frame
    <2>1. ParsersNext  BY <1>8 DEF ParsersNext
    <2> QED  BY <1>8, <2>1 DEF OnlyParsers, boardVars, Moves
  <1>9. CASE /\ OnlyBoard
             /\ \/ EthernetNext /\ UNCHANGED <<panelVars, agcVars, rakVars, typed>>
                \/ PanelNext /\ UNCHANGED <<ethernetVars, agcVars, rakVars, typed>>
                \/ AgcNext /\ UNCHANGED <<ethernetVars, panelVars, rakVars, typed>>
                \/ RakNext /\ UNCHANGED <<ethernetVars, panelVars, agcVars, typed>>
                \/ DecodersNext /\ UNCHANGED <<ethernetVars, panelVars, agcVars, rakVars>>
    BY <1>9 DEF OnlyBoard, Moves
  <1> QED
    BY <1>1, <1>2, <1>3, <1>4, <1>5, <1>6, <1>7, <1>8, <1>9 DEF NetworkNext

LEMMA NetworkStep == NetworkInv /\ [NetworkNext]_networkVars => NetworkInv'
  <1> SUFFICES ASSUME NetworkInv, [NetworkNext]_networkVars PROVE NetworkInv'
    OBVIOUS
  <1>1. Moves  BY ComponentsMove
  <1>2. InTime(agc') <=> InTime(agc)'  BY DEF InTime
  <1> QED
    BY <1>1, <1>2, StoreStep, TcpKeeps, WifiKeeps, ConfigKeeps, UpdateKeeps, SensorsKeep,
       ParsersKeep, EthernetKeeps, PanelKeeps, AgcKeeps, RakStep, DecodersKeep
       DEF NetworkInv, Moves

\* The inductive invariant of the composition.
THEOREM NetworkInvariant == NetworkSpec => []NetworkInv
  BY NetworkStarts, NetworkStep, PTL DEF NetworkSpec

\* Every variable of every component keeps its type while any of them runs.
THEOREM NetworkTypeCorrect == NetworkSpec => []NetworkTypeOK
  <1> SUFFICES NetworkInv => NetworkTypeOK  BY NetworkInvariant, PTL
  <1> SUFFICES ASSUME NetworkInv PROVE NetworkTypeOK
    OBVIOUS
  <1>1. TypeOK /\ WifiTypeOK /\ ConfigTypeOK /\ UpdateTypeOK
    BY DEF NetworkInv, StoreInv, WifiInv, ConfigInv, UpdateInv
  <1>2. TcpTypeOK  BY TcpInvTyped DEF NetworkInv
  <1>3. SensorsTypeOK  BY SensorsInvTyped DEF NetworkInv
  <1>4. ParsersTypeOK  BY ParsersTyped DEF NetworkInv
  <1>5. EthernetTypeOK /\ PanelTypeOK /\ DecodersTypeOK  BY DEF NetworkInv, PanelInv
  <1>6. AgcTypeOK  BY DEF NetworkInv, InTime, Schedules, AgcTypeOK
  <1>7. RakTypeOK  BY DEF NetworkInv, RakInv, BootableSettings, RakTypeOK
  <1> QED  BY <1>1, <1>2, <1>3, <1>4, <1>5, <1>6, <1>7 DEF NetworkTypeOK

\* What the components promise they promise side by side: the invariants that TLC checks
\* of this composition, decoding aside, hold of it for all values of the constants.
THEOREM NetworkSafe ==
    NetworkSpec => [](/\ GenerationsAdjacent /\ StoredConfigBoots
                      /\ SessionStateIsItsOwn /\ StaleSessionDropped
                      /\ WholeFramesOnWire /\ RefusedClientCloses
                      /\ StaticAddressComplete /\ KeepsAWorkingImage
                      /\ TelemetryHonest /\ ParsersStayInBounds)
  <1>1. NetworkInv => GenerationsAdjacent  BY DEF NetworkInv, StoreInv
  <1>2. NetworkInv => StoredConfigBoots  BY RakInvBoots DEF NetworkInv
  <1>3. NetworkInv => SessionStateIsItsOwn
    BY DEF NetworkInv, WifiInv, GoodServer, SessionStateIsItsOwn
  <1>4. NetworkInv => StaleSessionDropped
    BY DEF NetworkInv, WifiInv, StaleKnown, StaleSessionDropped
  <1>5. NetworkInv => WholeFramesOnWire /\ RefusedClientCloses
    BY TcpInvWhole, TcpInvRefused DEF NetworkInv
  <1>6. NetworkInv => StaticAddressComplete /\ KeepsAWorkingImage
    BY DEF NetworkInv, ConfigInv, UpdateInv
  <1>7. NetworkInv => TelemetryHonest /\ ParsersStayInBounds
    BY SensorsInvHonest, ParsersInvBounded DEF NetworkInv
  <1> QED
    BY <1>1, <1>2, <1>3, <1>4, <1>5, <1>6, <1>7, NetworkInvariant, PTL

\* ... and so do the action properties and the refinement: the store is a register that
\* survives power loss whatever runs beside it, resets of the receiver are spaced, and a
\* press is answered.
THEOREM NetworkStepsSafe ==
    NetworkSpec => ImplementsRegister /\ AttemptsSpaced /\ PressesAnswered
  <1>1. NetworkInit => Register!Init  BY RegisterStarts DEF NetworkInit
  <1>2. NetworkInv /\ [NetworkNext]_networkVars => [Register!Next]_(Register!vars)
    BY ComponentsMove, RegisterStep DEF NetworkInv, Moves
  <1>3. NetworkInv /\ [NetworkNext]_networkVars =>
          [(\E time \in {0, 1} : Attempted(time)) =>
             /\ agc.interval # 0 /\ agc.rested >= agc.interval
             /\ agc.station /\ agc.lastTx # 0 => agc.quiet >= STATION_POST_TX_QUIET]_agcVars
    BY AttemptInTime DEF NetworkInv
  <1>4. NetworkInv /\ [NetworkNext]_networkVars =>
          [/\ hasButton /\ rest > PRG_DEBOUNCE /\ ~wrapped
                 /\ (\E time \in {0, 1} : PanelPass(TRUE, time)) => screen' \notin {screen, "SLEEP"}
           /\ screen # "SLEEP" /\ screen' = "SLEEP" =>
                  hasButton /\ rest >= OLED_WAKE_DURATION
           /\ DarkWhenAsleep']_panelVars
    <2> SUFFICES ASSUME NetworkInv, [NetworkNext]_networkVars
                 PROVE  PanelInv /\ [PanelNext]_panelVars
      BY PressAnswered
    <2> QED  BY ComponentsMove DEF NetworkInv, Moves
  <1> QED
    BY <1>1, <1>2, <1>3, <1>4, NetworkInvariant, PTL
       DEF NetworkSpec, ImplementsRegister, Register!Spec, AttemptsSpaced, PressesAnswered
=============================================================================
