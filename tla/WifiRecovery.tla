---------------------------- MODULE WifiRecovery ----------------------------
(***************************************************************************)
(* The ESP32 network side of loop(): WifiManager (events, loss detection,  *)
(* attempts, backoff, station restarts, setup access point), ConfigPortal, *)
(* TCPServer's single session and the lazy start of the TCP and management *)
(* servers.  A pass of loop() is two steps, WifiManager::loop() and the    *)
(* rest; the Wi-Fi driver and its event task run between any two steps.    *)
(*                                                                         *)
(* A deadline is a member of `due' once it has elapsed: the code compares  *)
(* unsigned differences, so only whether it has elapsed matters, and time  *)
(* may pass at any moment (Elapse).  The lengths of the waits    *)
(* (5 to 60 s of backoff, 30 s, 250 ms) are abstracted with it.            *)
(* Bounds: MaxCallbacks events posted and not delivered, MaxSessions       *)
(* accepted TCP clients.                                                   *)
(***************************************************************************)
EXTENDS Naturals, Sequences

CONSTANTS Ips,            \* station addresses DHCP may hand out
          NoIp,           \* 0.0.0.0
          Token,          \* a TCP token is configured
          MaxCallbacks, MaxSessions

ASSUME NoIpAssumption == NoIp \notin Ips
ASSUME TokenAssumption == Token \in BOOLEAN
ASSUME BoundsAssumption == MaxCallbacks \in Nat \ {0} /\ MaxSessions \in Nat

VARIABLES ssid,           \* cfg.ssid is not empty
          drv,            \* the driver: may it still connect, and its usable address
          callbacks,      \* events posted to the event task, oldest first
          pending,        \* pendingEvents
          mgr,            \* the state of WifiManager
          due,            \* the deadlines that have elapsed
          portal,         \* ConfigPortal's server exists
          tcp,            \* TCPServer, and otaStarted with it
          incoming,       \* the address a waiting client came to, NoIp: none
          wpc             \* where loop() is

wifiVars == <<ssid, drv, callbacks, pending, mgr, due, portal, tcp, incoming, wpc>>

WifiTimers == {"phase", "apStart", "apStop"}
StationEvents == {"DISCONNECTED", "STOP", "LOST_IP", "GOT_IP", "GOT_NEW_IP"}
Addresses == Ips \union {NoIp}

NoEvents == [invalid |-> FALSE, state |-> FALSE, down |-> FALSE]
DriverOff == [trying |-> FALSE, ip |-> NoIp]
NoClient == [session |-> 0, ip |-> NoIp, alive |-> FALSE, stale |-> FALSE]
Session(n, ip) == [session |-> n, ip |-> ip, alive |-> TRUE, stale |-> FALSE]

-----------------------------------------------------------------------------
(* The event task: bits accumulate until the loop exchanges them, except   *)
(* that the last event alone says whether the station is down.             *)

\* Mutant: a new address takes back what a loss before it has said.
NewestEvent(p, e) ==
  [invalid |-> e # "GOT_IP", state |-> TRUE, down |-> e \in {"DISCONNECTED", "STOP", "LOST_IP"}]

\* Mutant: a loss outlives the reconnect that came after it.
StickyDown(p, e) ==
  [invalid |-> p.invalid \/ e # "GOT_IP",
   state   |-> TRUE,
   down    |-> p.down \/ e \in {"DISCONNECTED", "STOP", "LOST_IP"}]

onWiFiEvent(p, e) ==
  [invalid |-> p.invalid \/ e # "GOT_IP",
   state   |-> TRUE,
   down    |-> e \in {"DISCONNECTED", "STOP", "LOST_IP"}]

Post(e) == /\ Len(callbacks) < MaxCallbacks
           /\ callbacks' = Append(callbacks, e)

(* A session bound to the address the manager has on record is stale from  *)
(* the moment an event says that this address may be gone.                 *)
Deliver ==
  /\ callbacks # <<>>
  /\ pending' = onWiFiEvent(pending, Head(callbacks))
  /\ callbacks' = Tail(callbacks)
  /\ tcp' = [tcp EXCEPT !.client.stale =
               @ \/ (pending'.invalid /\ tcp.client.session # 0
                     /\ tcp.client.ip = mgr.last)]
  /\ UNCHANGED <<ssid, drv, mgr, due, portal, incoming, wpc>>

DriverOnly == UNCHANGED <<ssid, pending, mgr, due, portal, wpc>>

(* GOT_IP says by itself whether the address is another one.               *)
Connect ==
  /\ drv.trying /\ drv.ip = NoIp
  /\ \E ip \in Ips : drv' = [drv EXCEPT !.ip = ip]
  /\ \E e \in {"GOT_IP", "GOT_NEW_IP"} : Post(e)
  /\ DriverOnly /\ UNCHANGED <<tcp, incoming>>

Renew ==
  /\ drv.ip # NoIp
  /\ \E ip \in Ips : /\ drv' = [drv EXCEPT !.ip = ip]
                     /\ Post(IF ip = drv.ip THEN "GOT_IP" ELSE "GOT_NEW_IP")
  /\ DriverOnly /\ UNCHANGED <<tcp, incoming>>

(* The driver may try once more by itself. *)
Disconnect ==
  /\ drv.ip # NoIp \/ drv.trying
  /\ \E again \in BOOLEAN : drv' = [trying |-> again, ip |-> NoIp]
  /\ Post("DISCONNECTED")
  /\ DriverOnly /\ UNCHANGED <<tcp, incoming>>

LoseIp ==
  /\ drv.ip # NoIp
  /\ drv' = [drv EXCEPT !.ip = NoIp]
  /\ Post("LOST_IP")
  /\ DriverOnly /\ UNCHANGED <<tcp, incoming>>

(* Peers of the TCP server come while the station has an address, and go;  *)
(* one whose address is gone stays half open until TCP finds out.          *)
PeerComes ==
  /\ tcp.started /\ incoming = NoIp
  /\ drv.ip # NoIp /\ tcp.accepted < MaxSessions
  /\ incoming' = drv.ip
  /\ DriverOnly /\ UNCHANGED <<drv, callbacks, tcp>>

PeerGoes ==
  /\ tcp.client.alive
  /\ tcp' = [tcp EXCEPT !.client.alive = FALSE]
  /\ DriverOnly /\ UNCHANGED <<drv, callbacks, incoming>>

(* Only a deadline that the loop may compare with the clock can matter. *)
WifiArmed == {t \in WifiTimers : CASE t = "phase"   -> ssid
                           [] t = "apStart" -> ~mgr.ap /\ (mgr.fallback \/ ~ssid)
                           [] t = "apStop"  -> mgr.stopFailed}
Elapse(t) ==
  /\ t \in WifiArmed \ due
  /\ due' = due \union {t}
  /\ UNCHANGED <<ssid, drv, callbacks, pending, mgr, portal, tcp, incoming, wpc>>

-----------------------------------------------------------------------------
(* Calls into the driver, from the loop. *)

(* What attemptSTA() leaves the driver in: every call succeeded, or one of *)
(* mode, hostname, static configuration, disconnect, begin failed.         *)
StationAttempts == {drv} \union {[trying |-> b, ip |-> NoIp] : b \in BOOLEAN}

attemptSTA(m) ==
  /\ mgr' = [m EXCEPT !.phase = "ATTEMPT",
                      !.mode = IF m.ap THEN "AP_CONFIG" ELSE "STA_CONNECTING"]
  /\ drv' \in StationAttempts
  /\ IF drv'.ip # drv.ip THEN Post("DISCONNECTED") ELSE UNCHANGED callbacks

(* WiFi.mode() without the station; it may fail. *)
StopStation(m) ==
  \/ /\ mgr' = m
     /\ UNCHANGED <<drv, callbacks>>
  \/ /\ mgr' = [m EXCEPT !.phase = "RESTART_SETTLE"]
     /\ drv' = DriverOff
     /\ Post("STOP")

(* startAPMode() when wanted: the driver may refuse. *)
APOutcomes(m, wanted) ==
  {m} \union (IF wanted THEN {[m EXCEPT !.ap = TRUE, !.mode = "AP_CONFIG"]} ELSE {})

-----------------------------------------------------------------------------
(* WifiManager::loop() *)

Usable(m) == ~m.down /\ drv.ip # NoIp

(* The exchange of the event bits and the decision about the old address. *)
PolledManager ==
  LET m == [mgr EXCEPT !.down = IF pending.state THEN pending.down ELSE @]
      gone == m.last # NoIp /\ (pending.invalid \/ ~Usable(m) \/ drv.ip # m.last)
  IN IF gone THEN [m EXCEPT !.invalidated = m.last, !.last = NoIp] ELSE m

(* A usable station: the access point goes first, then the portal, and     *)
(* only then is the manager connected.  A refused shutdown is retried.     *)
UsablePass ==
  LET m == [PolledManager EXCEPT !.last = drv.ip]
      mayStop == ~m.stopFailed \/ "apStop" \in due
  IN
  /\ ssid /\ Usable(PolledManager)
  /\ \/ /\ m.ap /\ ~mayStop
        /\ mgr' = m
        /\ UNCHANGED <<due, portal>>
     \/ /\ m.ap /\ mayStop
        /\ mgr' = [m EXCEPT !.stopFailed = TRUE]
        /\ due' = due \ {"apStop"}
        /\ UNCHANGED portal
     \/ /\ ~m.ap \/ mayStop
        /\ mgr' = [m EXCEPT !.ap = FALSE, !.stopFailed = IF m.ap THEN FALSE ELSE @,
                            !.mode = "STA_CONNECTED", !.ever = TRUE, !.fallback = FALSE,
                            !.failures = 0]
        /\ portal' = (portal /\ ~m.ap)
        /\ due' = IF m.ap THEN due \ {"apStop"} ELSE due
  /\ UNCHANGED <<drv, callbacks>>

(* A loss starts the 30 s grace of a fresh attempt. *)
Lost ==
  IF PolledManager.mode = "STA_CONNECTED"
    THEN [PolledManager EXCEPT !.mode = "STA_CONNECTING", !.phase = "ATTEMPT"] ELSE PolledManager
LostDue == IF PolledManager.mode = "STA_CONNECTED" THEN due \ {"phase"} ELSE due

APRetry == (Lost.fallback \/ ~ssid) /\ ~Lost.ap /\ "apStart" \in LostDue

SetupPass ==
  /\ ~ssid
  /\ mgr' \in APOutcomes(Lost, APRetry)
  /\ due' = IF APRetry THEN LostDue \ {"apStart"} ELSE LostDue
  /\ portal' = (portal \/ mgr'.ap)
  /\ UNCHANGED <<drv, callbacks>>

(* Nothing of the phase is due: at most the access point is retried. *)
WaitPass ==
  /\ ssid /\ ~Usable(PolledManager) /\ "phase" \notin LostDue
  /\ mgr' \in APOutcomes(Lost, APRetry)
  /\ due' = IF APRetry THEN LostDue \ {"apStart"} ELSE LostDue
  /\ portal' = (portal \/ mgr'.ap)
  /\ UNCHANGED <<drv, callbacks>>

(* The deadline of an attempt; before the first success it opens the AP. *)
DeadlinePass ==
  LET opening == APRetry \/ (~Lost.ever /\ ~Lost.ap) IN
  /\ ssid /\ ~Usable(PolledManager)
  /\ Lost.phase = "ATTEMPT" /\ "phase" \in LostDue
  /\ \E m \in APOutcomes(Lost, opening) :
       mgr' = [m EXCEPT !.phase = "BACKOFF", !.failures = (@ + 1) % 3,
                        !.fallback = @ \/ (~m.ever /\ ~Lost.ap)]
  /\ due' = LostDue \ (IF opening THEN {"phase", "apStart"} ELSE {"phase"})
  /\ portal' = (portal \/ mgr'.ap)
  /\ UNCHANGED <<drv, callbacks>>

(* The end of a wait: a new attempt, or first a restart of the station. *)
RetryPass ==
  /\ ssid /\ ~Usable(PolledManager)
  /\ Lost.phase # "ATTEMPT" /\ "phase" \in LostDue
  /\ \E m \in APOutcomes(Lost, APRetry) :
       /\ portal' = (portal \/ m.ap)
       /\ IF Lost.phase = "BACKOFF" /\ Lost.failures = 0 THEN StopStation(m)
          ELSE attemptSTA(m)
  /\ due' = LostDue \ (IF APRetry THEN {"phase", "apStart"} ELSE {"phase"})

WifiLoop ==
  /\ wpc = "wifi"
  /\ UsablePass \/ SetupPass \/ WaitPass \/ DeadlinePass \/ RetryPass
  /\ pending' = NoEvents
  /\ wpc' = "tcp"
  /\ UNCHANGED <<ssid, tcp, incoming>>

-----------------------------------------------------------------------------
(* The rest of the pass: consumeSTAInvalidation(), TCPServer::loop() and   *)
(* the lazy start of the servers.                                          *)

\* Mutant: the parser and the login stay.
ClientStopped(t) == [t EXCEPT !.client = NoClient]

disconnectClient(t) ==
  [t EXCEPT !.client = NoClient, !.auth = 0, !.parser = 0]

invalidateInterface(t, ip) ==
  IF ip # NoIp /\ t.client.session # 0 /\ t.client.ip = ip THEN disconnectClient(t) ELSE t

accept(t, ip) ==
  [t EXCEPT !.accepted = @ + 1, !.client = Session(t.accepted + 1, ip),
            !.parser = 0, !.auth = 0]

(* The session before bytes are read: a client that is gone is let go.     *)
Current == LET t == invalidateInterface(tcp, mgr.invalidated) IN
           IF t.client.session # 0 /\ ~t.client.alive THEN disconnectClient(t) ELSE t

(* What 256 bytes, at most one frame of them, do.  `parser' and `auth'     *)
(* name the session their content comes from (0: none).                    *)
ServeBytes(t) ==
  LET s == t.client.session
      part == {[t EXCEPT !.parser = 0], [t EXCEPT !.parser = IF @ = 0 THEN s ELSE @]}
      allowed == ~Token \/ t.auth # 0
  IN {t} \union part                                   \* no byte, an error, part of a frame
     \union (IF allowed THEN {}
             ELSE {[t EXCEPT !.parser = 0, !.auth = s],   \* the token
                   disconnectClient(t)})                  \* anything else

(* A waiting client is accepted when nobody is served, and turned away     *)
(* when its address is not of the LAN.                                     *)
TcpPass(t) ==
  \/ /\ t.client.session = 0
     /\ tcp' = t
     /\ incoming' = NoIp
  \/ /\ t.client.session = 0 /\ incoming # NoIp
     /\ tcp' \in ServeBytes(accept(t, incoming))
     /\ incoming' = NoIp
  \/ /\ t.client.session # 0
     /\ tcp' \in ServeBytes(t)
     /\ UNCHANGED incoming

(* begin() of both servers, the first time the station is connected. *)
LazyStart == [disconnectClient(Current) EXCEPT !.started = TRUE]

NetworkPass ==
  /\ wpc = "tcp"
  /\ IF tcp.started THEN TcpPass(Current)
     ELSE /\ tcp' = IF mgr.mode = "STA_CONNECTED" THEN LazyStart ELSE Current
          /\ UNCHANGED incoming
  /\ mgr' = [mgr EXCEPT !.invalidated = NoIp]
  /\ wpc' = "wifi"
  /\ UNCHANGED <<ssid, drv, callbacks, pending, due, portal>>

-----------------------------------------------------------------------------
(* begin(): an attempt, or the intentional setup mode. *)

FreshManager ==
  [mode |-> "OFFLINE", ap |-> FALSE, ever |-> FALSE, fallback |-> FALSE, stopFailed |-> FALSE,
   down |-> FALSE, phase |-> "ATTEMPT", failures |-> 0,
   last |-> NoIp, invalidated |-> NoIp]

FreshServer ==
  [started |-> FALSE, accepted |-> 0, client |-> NoClient, auth |-> 0, parser |-> 0]

(* attemptSTA() at boot. *)
BootAttempt == {[DriverOff EXCEPT !.trying = b] : b \in BOOLEAN}

WifiInit ==
  /\ ssid \in BOOLEAN
  /\ \/ /\ ssid
        /\ mgr = [FreshManager EXCEPT !.mode = "STA_CONNECTING"]
        /\ drv \in BootAttempt
     \/ /\ ~ssid
        /\ mgr \in {[FreshManager EXCEPT !.mode = "AP_CONFIG", !.ap = b] : b \in BOOLEAN}
        /\ drv = DriverOff
  /\ portal = mgr.ap
  /\ callbacks = <<>> /\ pending = NoEvents
  /\ due = {}
  /\ tcp = FreshServer
  /\ incoming = NoIp
  /\ wpc = "wifi"

(* POST /save on the portal, over the access point's own address: the      *)
(* configuration is written and the modem restarts into begin().           *)
PortalSave ==
  /\ portal /\ mgr.ap /\ wpc = "wifi"
  /\ ssid' = TRUE
  /\ mgr' = [FreshManager EXCEPT !.mode = "STA_CONNECTING"]
  /\ drv' \in BootAttempt
  /\ portal' = FALSE /\ due' = {}
  /\ callbacks' = <<>> /\ pending' = NoEvents
  /\ tcp' = FreshServer
  /\ incoming' = NoIp
  /\ UNCHANGED wpc

Driver == Deliver \/ Connect \/ Renew \/ Disconnect \/ LoseIp
Peer == PeerComes \/ PeerGoes
WifiFirmware == WifiLoop \/ NetworkPass
WifiNext == Driver \/ Peer \/ (\E t \in WifiTimers : Elapse(t)) \/ WifiFirmware \/ PortalSave

(* loop() keeps running, time passes and the event task runs; nothing is   *)
(* assumed of the network.                                                 *)
WifiFairness == /\ WF_wifiVars(WifiFirmware) /\ WF_wifiVars(Deliver)
                /\ \A t \in WifiTimers : WF_wifiVars(Elapse(t))

WifiSpec == WifiInit /\ [][WifiNext]_wifiVars /\ WifiFairness

-----------------------------------------------------------------------------
WifiTypeOK ==
  /\ ssid \in BOOLEAN /\ portal \in BOOLEAN
  /\ drv \in [trying : BOOLEAN, ip : Addresses]
  /\ callbacks \in Seq(StationEvents) /\ Len(callbacks) <= MaxCallbacks
  /\ pending \in [invalid : BOOLEAN, state : BOOLEAN, down : BOOLEAN]
  /\ mgr \in [mode : {"OFFLINE", "AP_CONFIG", "STA_CONNECTING", "STA_CONNECTED"},
              ap : BOOLEAN, ever : BOOLEAN, fallback : BOOLEAN, stopFailed : BOOLEAN,
              down : BOOLEAN, phase : {"ATTEMPT", "BACKOFF", "RESTART_SETTLE"},
              failures : 0..2,
              last : Addresses, invalidated : Addresses]
  /\ due \subseteq WifiTimers
  /\ tcp \in [started : BOOLEAN, accepted : 0..MaxSessions,
              client : [session : 0..MaxSessions, ip : Addresses, alive : BOOLEAN, stale : BOOLEAN],
              auth : 0..MaxSessions, parser : 0..MaxSessions]
  /\ incoming \in Addresses
  /\ wpc \in {"wifi", "tcp"}

(* README: an outage invalidates the old session even when it comes and    *)
(* goes between two polls.  Once an event has said that the address on     *)
(* record may be gone, the session accepted on that address is dropped by  *)
(* the next pass before one more byte of it is read.                       *)
StaleSessionDropped ==
  tcp.client.stale => pending.invalid \/ (wpc = "tcp" /\ mgr.invalidated = tcp.client.ip)

(* The setup access point and its open portal never come back after the    *)
(* first success, and have left port 80 before the servers start.          *)
SetupPortalClosed == portal \/ mgr.ap => ~mgr.ever /\ ~tcp.started

(* What the parser holds and whose token was accepted belong to the        *)
(* current session: half a frame or a login never outlives its client.     *)
SessionStateIsItsOwn ==
  /\ tcp.auth \in {0, tcp.client.session}
  /\ tcp.parser \in {0, tcp.client.session}

(* A station that stays down is retried for ever, whatever the driver      *)
(* refuses; one that stays usable is noticed (once the access point can be *)
(* taken down).                                                            *)
StationRecovers ==
  /\ <>[](ssid /\ drv.ip = NoIp) => []<><<RetryPass \/ PortalSave>>_wifiVars
  /\ <>[](ssid /\ drv.ip # NoIp /\ ~mgr.ap) => []<>(mgr.mode = "STA_CONNECTED")
=============================================================================
