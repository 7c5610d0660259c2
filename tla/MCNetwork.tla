------------------------------ MODULE MCNetwork ------------------------------
(***************************************************************************)
(* The components around the radio core that TLC checks in one run: each   *)
(* initial state picks the `part' that runs, and every other component     *)
(* stays in one of its initial states.  They share no state in the models, *)
(* so the run is the union of seventeen state spaces, not their product.   *)
(***************************************************************************)
EXTENDS ConfigStore, W5100sTcp, WifiRecovery, Esp32Config, Esp32Update, Sensors, Parsers,
        Ethernet, Panel, AgcSchedule, RakSettings, Decoders

VARIABLE part

\* The on-board Ethernet, the panel, the AGC schedule, and settings and forms of a RAK4631.
boardVars == <<ethernetVars, panelVars, agcVars, rakVars, typed>>
networkVars == <<part, vars, tcpVars, wifiVars, configVars, updateVars, sensorVars, parserVars,
                 boardVars>>

Parts == {"store", "tcp", "wifi", "config", "update", "env", "power", "fan", "battery", "gps",
          "frame", "request", "ethernet", "panel", "agc", "settings", "form"}

NetworkInit ==
    /\ part \in Parts
    /\ Init /\ TcpInit /\ WifiInit /\ ConfigInit /\ UpdateInit /\ SensorsInit /\ ParsersInit
    /\ EthernetInit /\ PanelInit /\ AgcInit /\ RakInit /\ DecodersInit
    /\ part # "tcp" => ~link /\ eth.dhcp
    /\ part # "wifi" => ~ssid /\ ~portal
    /\ part # "env" => ~env.detected
    /\ part # "power" => ~power.available /\ power.failures = 0
    /\ part # "fan" => fan.task = "ended"
    /\ part # "gps" => ~gps.enabled /\ ~gps.casic
    /\ part # "ethernet" => ~emac.link
    /\ part # "panel" => display.kind = "t114" /\ ~hasButton
    /\ part # "agc" => ~agc.station /\ agc.interval = 0

OnlyStore == /\ part = "store" /\ UNCHANGED <<part, boardVars>>
             /\ UNCHANGED <<tcpVars, wifiVars, configVars, updateVars, sensorVars, parserVars>>
OnlyTcp == /\ part = "tcp" /\ UNCHANGED <<part, boardVars>>
           /\ UNCHANGED <<vars, wifiVars, configVars, updateVars, sensorVars, parserVars>>
OnlyWifi == /\ part = "wifi" /\ UNCHANGED <<part, boardVars>>
            /\ UNCHANGED <<vars, tcpVars, configVars, updateVars, sensorVars, parserVars>>
OnlyConfig == /\ part = "config" /\ UNCHANGED <<part, boardVars>>
              /\ UNCHANGED <<vars, tcpVars, wifiVars, updateVars, sensorVars, parserVars>>
OnlyUpdate == /\ part = "update" /\ UNCHANGED <<part, boardVars>>
              /\ UNCHANGED <<vars, tcpVars, wifiVars, configVars, sensorVars, parserVars>>
OnlySensors == /\ UNCHANGED <<part, boardVars>>
               /\ UNCHANGED <<vars, tcpVars, wifiVars, configVars, updateVars, parserVars>>
OnlyParsers == /\ UNCHANGED <<part, boardVars>>
               /\ UNCHANGED <<vars, tcpVars, wifiVars, configVars, updateVars, sensorVars>>
OnlyBoard == /\ UNCHANGED part
             /\ UNCHANGED <<vars, tcpVars, wifiVars, configVars>>
             /\ UNCHANGED <<updateVars, sensorVars, parserVars>>

NetworkNext ==
    \/ OnlyStore /\ Next
    \/ OnlyTcp /\ TcpNext
    \/ OnlyWifi /\ WifiNext
    \/ OnlyConfig /\ ConfigNext
    \/ OnlyUpdate /\ UpdateNext
    \/ OnlySensors /\ \/ part = "env" /\ EnvNext /\ UNCHANGED <<power, fan, battery, gps>>
                      \/ part = "power" /\ PowerNext /\ UNCHANGED <<env, fan, battery, gps>>
                      \/ part = "fan" /\ FanNext /\ UNCHANGED <<env, power, battery, gps>>
                      \/ part = "battery" /\ BatteryLoop /\ UNCHANGED <<env, power, fan, gps>>
                      \/ part = "gps" /\ GpsNext /\ UNCHANGED <<env, power, fan, battery>>
    \/ OnlyParsers /\ \/ part = "frame" /\ FrameNext /\ UNCHANGED req
                      \/ part = "request" /\ RequestNext /\ UNCHANGED frame
    \/ OnlyBoard
         /\ \/ part = "ethernet" /\ EthernetNext /\ UNCHANGED <<panelVars, agcVars, rakVars, typed>>
            \/ part = "panel" /\ PanelNext /\ UNCHANGED <<ethernetVars, agcVars, rakVars, typed>>
            \/ part = "agc" /\ AgcNext /\ UNCHANGED <<ethernetVars, panelVars, rakVars, typed>>
            \/ part = "settings" /\ RakNext
                 /\ UNCHANGED <<ethernetVars, panelVars, agcVars, typed>>
            \/ part = "form" /\ DecodersNext
                 /\ UNCHANGED <<ethernetVars, panelVars, agcVars, rakVars>>

\* The fairness of each specification, for the part that runs.
NetworkFairness ==
    /\ WF_tcpVars(part = "tcp" /\ TcpFirmware)
    /\ \A d \in Deadlines : WF_tcpVars(part = "tcp" /\ Passes(d))
    /\ WF_wifiVars(part = "wifi" /\ WifiFirmware) /\ WF_wifiVars(part = "wifi" /\ Deliver)
    /\ \A t \in WifiTimers : WF_wifiVars(part = "wifi" /\ Elapse(t))
    /\ WF_ethernetVars(part = "ethernet" /\ EthernetFirmware)
    /\ WF_panelVars(part = "panel" /\ \E btn \in BOOLEAN : PanelPass(btn, 1))
    /\ WF_agcVars(part = "agc" /\ ReadyPass(1))

NetworkSpec == NetworkInit /\ [][NetworkNext]_networkVars /\ NetworkFairness

NetworkTypeOK ==
    /\ TypeOK /\ TcpTypeOK /\ WifiTypeOK /\ ConfigTypeOK /\ UpdateTypeOK
    /\ SensorsTypeOK /\ ParsersTypeOK /\ EthernetTypeOK /\ PanelTypeOK /\ AgcTypeOK
    /\ RakTypeOK /\ DecodersTypeOK

\* A modem without an address keeps asking for one, over Wi-Fi and over both kinds of
\* Ethernet, whatever the driver or the network refused before, and an address it has
\* is noticed and served (wifi_manager.cpp, the two EthernetManager::loop(), main.cpp's
\* lazy start of the servers).
NetworkRecovers == StationRecovers /\ EthernetRecovers /\ EthernetServes

\* What loop() does by the clock it goes on doing across the wrap of millis(): a panel left
\* alone falls asleep, a radio left alone is reset at its intervals.
LoopKeepsTime == PanelSleeps /\ AgcComesRound

\* loop() goes on with everything it has begun: it recovers the network, lets go of an
\* answer that is overdue, and keeps time.
LoopGoesOn == NetworkRecovers /\ SendEnds /\ LoopKeepsTime

\* What a client sends is decoded as it was encoded (looked at where the client types).
FormsFaithful == part = "form" => DecodersFaithful
=============================================================================
