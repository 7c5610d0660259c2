------------------------------ MODULE Ethernet ------------------------------
(***************************************************************************)
(* The on-board Ethernet of an ESP32-P4 (ethernet_manager.cpp) and what    *)
(* main.cpp makes of it: setup() prefers Ethernet and falls back to Wi-Fi, *)
(* loop() refreshes the cached address, starts the servers once there is   *)
(* an address, and draws the status line.  The driver's event task changes *)
(* link and lease between any two of these steps.                          *)
(*                                                                         *)
(* Addresses are numbers, 0 is `---'.  Bound: EthernetLeases addresses.    *)
(***************************************************************************)
EXTENDS Naturals

CONSTANT EthernetLeases

ASSUME EthernetAssumption == EthernetLeases \in Nat \ {0}

VARIABLE emac

ethernetVars == emac

EthernetAddresses == 0 .. EthernetLeases

linkUp == emac.started /\ emac.link
ethernetHasIP == emac.started /\ emac.lease # 0

EthernetInit ==
    \E plugged \in BOOLEAN :
      emac = [phase |-> "begin", link |-> plugged, lease |-> 0, started |-> FALSE, shown |-> 0,
              wifi |-> FALSE, station |-> FALSE, servers |-> FALSE, status |-> "BOOT"]
-----------------------------------------------------------------------------
(* setup() *)

\* EthernetManager::begin() up to its wait; without an EMAC nothing is waited for.
EthernetStarts ==
    /\ emac.phase = "begin"
    /\ emac' \in {[emac EXCEPT !.started = TRUE, !.phase = "waiting"],
                  [emac EXCEPT !.phase = "choosing"]}

\* ... and its end, with an address or after 5 s.
EthernetWaitEnds ==
    /\ emac.phase = "waiting"
    /\ emac' = [emac EXCEPT !.phase = "choosing", 
                               !.shown = IF ethernetHasIP THEN emac.lease ELSE @]

\* end()
EthernetEnded == [emac EXCEPT !.started = FALSE, !.shown = 0, !.lease = 0]

\* A link decides for Ethernet; without one the EMAC is released and Wi-Fi begins.
InterfaceChosen ==
    /\ emac.phase = "choosing"
    /\ emac' = IF linkUp THEN [emac EXCEPT !.phase = "serving"]
               ELSE [EthernetEnded EXCEPT !.phase = "serving", !.wifi = TRUE]

\* The servers are started at the end of setup(), or by the first pass of loop() that
\* finds an address.
ServersStarted == emac.servers \/ emac.station \/ ethernetHasIP

SetupEnds ==
    /\ emac.phase = "serving"
    /\ emac' = [emac EXCEPT !.servers = ServersStarted, !.phase = "refresh"]
-----------------------------------------------------------------------------
(* loop() *)

\* EthernetManager::loop(): the cached address outlives the lease.
EthernetRefreshed ==
    /\ emac.phase = "refresh"
    /\ emac' = [emac EXCEPT !.phase = "lazy", !.shown = IF ethernetHasIP THEN emac.lease ELSE @]

LazyServers ==
    /\ emac.phase = "lazy"
    /\ emac' = [emac EXCEPT !.servers = ServersStarted, !.phase = "draw"]

\* The line of the status screen: the interface that has an address; a Wi-Fi without
\* one may run its setup portal.
StatusTags ==
    IF emac.station THEN {"WiFi"}
    ELSE (IF emac.wifi THEN {"AP"} ELSE {})
         \union (IF ethernetHasIP THEN {"ETH"} ELSE IF linkUp THEN {"ETHL"} ELSE {"..."})

\* The panel may be dark or show another screen.
StatusDrawn ==
    /\ emac.phase = "draw"
    /\ \E tag \in StatusTags \union {emac.status} : emac' = [emac EXCEPT !.status = tag, !.phase = "refresh"]
-----------------------------------------------------------------------------
(* The cable, the DHCP server and the access point *)

CableMoves == emac' = [emac EXCEPT !.link = ~@]
LeaseChanges ==
    \E ip \in EthernetAddresses \ {emac.lease} :
      /\ ip # 0 => linkUp
      /\ emac' = [emac EXCEPT !.lease = ip]
StationMoves == emac.wifi /\ emac' = [emac EXCEPT !.station = ~@]

EthernetFirmware ==
    \/ EthernetStarts \/ EthernetWaitEnds \/ InterfaceChosen \/ SetupEnds
    \/ EthernetRefreshed \/ LazyServers \/ StatusDrawn
EthernetNext == EthernetFirmware \/ CableMoves \/ LeaseChanges \/ StationMoves

EthernetSpec == EthernetInit /\ [][EthernetNext]_ethernetVars /\ WF_ethernetVars(EthernetFirmware)
-----------------------------------------------------------------------------
EthernetTypeOK ==
    emac \in [phase : {"begin", "waiting", "choosing", "serving", "refresh", "lazy", "draw"},
              link : BOOLEAN, lease : EthernetAddresses, started : BOOLEAN,
              shown : EthernetAddresses, wifi : BOOLEAN, station : BOOLEAN, servers : BOOLEAN,
              status : {"BOOT", "AP", "WiFi", "ETH", "ETHL", "..."}]

\* An interface that keeps its address gets its servers, however late it came up, and
\* the cached address becomes the one the driver holds (the lazy start in loop(),
\* EthernetManager::loop()).
EthernetServes ==
    /\ <>[]ethernetHasIP \/ <>[]emac.station => <>[]emac.servers
    /\ \A ip \in EthernetAddresses :
         <>[](ethernetHasIP /\ emac.lease = ip) => <>[](emac.shown = ip)
=============================================================================
