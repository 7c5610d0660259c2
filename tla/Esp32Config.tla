----------------------------- MODULE Esp32Config -----------------------------
(***************************************************************************)
(* The configuration of an ESP32 modem and the requests that change it:    *)
(* the OTA manager's forms and POST /api/config, the setup portal, and     *)
(* SET_WIFI and WIFI_RESET over the host protocol.  WifiManager and        *)
(* RFFrontEnd keep it in one NVS namespace.                                *)
(*                                                                         *)
(* Every key has two values.  `address' is TRUE when static address,       *)
(* subnet and gateway are all set; `identity' stands for the names,        *)
(* tokens, port, antenna and power save, which are copied as they come.    *)
(* Whatever a malformed request is refused for before anything is done is  *)
(* left out.  Bound: a request names at most MaxNamed fields.              *)
(***************************************************************************)
EXTENDS Naturals, FiniteSets

CONSTANT MaxNamed

ASSUME MaxNamedAssumption == MaxNamed \in Nat

VARIABLES nvs,            \* the namespace in flash
          inUse,          \* what the firmware uses
          gpsOn,          \* GPSManager is enabled
          excused         \* the setup portal or half a save left static without addresses

configVars == <<nvs, inUse, gpsOn, excused>>

ConfigFields == {"identity", "static", "address", "gps"}     \* WifiManager::Config
RfKeys == {"lna", "agc"}                                     \* RFFrontEnd
Keys == ConfigFields \union RfKeys
Settings == [Keys -> BOOLEAN]
RequestPatches == UNION {[S -> BOOLEAN] : S \in {T \in SUBSET Keys : Cardinality(T) <= MaxNamed}}

EmptyNamespace == [k \in Keys |-> FALSE]

Merged(c, p) == [k \in Keys |-> IF k \in DOMAIN p THEN p[k] ELSE c[k]]
Only(p, ks) == [k \in DOMAIN p \cap ks |-> p[k]]
Complete(c) == c["static"] => c["address"]

\* Who left a configuration without addresses is remembered until it has them.
Excuse(b) == excused' = (~(Complete(nvs') /\ Complete(inUse')) /\ (excused \/ b))
-----------------------------------------------------------------------------
\* loadConfig() and RFFrontEnd::begin() at boot; a namespace that cannot be opened
\* reads as empty.
LoadConfig == inUse' \in {nvs', EmptyNamespace} /\ gpsOn' = inUse'["gps"]

\* saveConfig() returns nothing and looks at no result: each of its keys may keep the
\* old value, and a power loss is one more way.  The RF keys are not its own.
Saved(old, new, written) == [k \in Keys |-> IF k \in written THEN new[k] ELSE old[k]]
SaveOutcomes(old, new) == {Saved(old, new, w) : w \in SUBSET ConfigFields}
Halfway(old, new, after) == after \notin {old, Saved(old, new, ConfigFields)}

\* A save over `old' and ESP.restart(), which loads what was written.
SaveAndRestart(old, new, unchecked) ==
    /\ nvs' \in SaveOutcomes(old, new)
    /\ LoadConfig
    /\ Excuse(unchecked \/ Halfway(old, new, nvs'))

RequestRefused == UNCHANGED configVars

\* The setters of RFFrontEnd: flash first, then RAM; one that fails changes neither.
RfSaved(p) == /\ nvs' = Merged(nvs, p) /\ inUse' = Merged(inUse, p)
              /\ UNCHANGED <<gpsOn, excused>>

\* Some setter of p failed after those before it had persisted: 500.
RfFails(p) == \E k \in RfKeys \cap DOMAIN p :
                RfSaved(Only(p, IF k = "agc" THEN {"lna"} ELSE {}))
-----------------------------------------------------------------------------
\* parseJsonIp() makes an omitted address 0.0.0.0, once there is a `network' object.
Named(network, p) ==
    [k \in (DOMAIN p \cap ConfigFields) \union (IF network THEN {"address"} ELSE {}) |->
       k \in DOMAIN p /\ p[k]]

\* applyConfigPatch(): the named fields over a copy of the configuration.
Patched(network, p) == Merged(inUse, Named(network, p))

\* Mutant: an address is asked for only where the request sets the mode itself.
AskedOnlyWithMode(network, p) == "static" \in DOMAIN p => Complete(Patched(network, p))

\* The check at the end of applyConfigPatch().
Acceptable(network, p) == Complete(Patched(network, p))

RebootRequired(p) == DOMAIN p \cap ConfigFields # {}

\* handleApiConfigPost(): the RF settings persist one by one, the rest after them.
ApiStays(network, p) ==
    \/ ~Acceptable(network, p) /\ RequestRefused
    \/ Acceptable(network, p) /\ RfFails(p)
    \/ Acceptable(network, p) /\ ~RebootRequired(p) /\ RfSaved(Only(p, RfKeys))
ApiRestarts(network, p) ==
    /\ Acceptable(network, p) /\ RebootRequired(p)
    /\ SaveAndRestart(Merged(nvs, Only(p, RfKeys)), Patched(network, p), FALSE)

\* The addresses can only be named within `network'.
ApiConfigPost == \E network \in BOOLEAN, p \in RequestPatches :
    /\ "address" \in DOMAIN p => network
    /\ ApiStays(network, p) \/ ApiRestarts(network, p)
-----------------------------------------------------------------------------
\* handleHostnameSave(), handleTokenSave(): a field of the copy, and no check.
IdentitySave == \E b \in BOOLEAN : SaveAndRestart(nvs, [inUse EXCEPT !["identity"] = b], FALSE)

\* handleNetworkSave()
NetworkSave ==
    \E b, s, a \in BOOLEAN :
        LET form == [inUse EXCEPT !["identity"] = b, !["static"] = s, !["address"] = a]
        IN IF Complete(form) THEN SaveAndRestart(nvs, form, FALSE) ELSE RequestRefused

\* handleGpsSave(): no restart; the receiver obeys whether or not the save worked.
GpsSave ==
    \E on \in BOOLEAN :
        LET new == [inUse EXCEPT !["gps"] = on] IN
        /\ nvs' \in SaveOutcomes(nvs, new)
        /\ inUse' \in IF nvs' = nvs THEN {inUse, new} ELSE {new}
        /\ gpsOn' = on
        /\ Excuse(Halfway(nvs, new, nvs'))

\* handleStationAgcSave(), handleRfPaSave(): one record each.
RfSave == \E k \in RfKeys, b \in BOOLEAN : RfSaved([j \in {k} |-> b]) \/ RequestRefused

\* handleRfLnaSave() persists the LNA before it looks at the interval; one that is out
\* of range (400) or not saved (500) leaves half of the form.
RfLnaSave == \E lna, agc \in BOOLEAN :
    LET form == [k \in RfKeys |-> IF k = "lna" THEN lna ELSE agc]
    IN RfSaved(form) \/ RfSaved(Only(form, {"lna"})) \/ RequestRefused

\* handleSave() of the setup portal: the RF results are ignored and their keys kept even
\* when the SSID is missing, and nobody asks for the addresses.
PortalSaves ==
    \E rf \in [RfKeys -> BOOLEAN], kept \in SUBSET RfKeys :
        \/ RfSaved(Only(rf, kept))
        \/ \E form \in [{"identity", "static", "address"} -> BOOLEAN] :
             SaveAndRestart(Merged(nvs, Only(rf, kept)), Merged(inUse, form), TRUE)

\* parseSetWifi(), CMD_SET_WIFI: provisioning over the host protocol means DHCP.
SetWifi == \E b \in BOOLEAN :
    SaveAndRestart(nvs, [inUse EXCEPT !["identity"] = b, !["static"] = FALSE], FALSE)

\* factoryReset(): the whole namespace is cleared, or nothing when it cannot be opened;
\* the modem restarts either way.
FactoryDefaults ==
    /\ nvs' \in {nvs, EmptyNamespace}
    /\ LoadConfig /\ Excuse(FALSE)

\* handleReboot(), handleApiReboot(), a crash or a power loss.
ConfigRestart == UNCHANGED nvs /\ LoadConfig /\ Excuse(FALSE)

ConfigInit == /\ nvs = EmptyNamespace /\ inUse = EmptyNamespace
              /\ gpsOn = FALSE /\ excused = FALSE
ConfigNext ==
    \/ ApiConfigPost \/ IdentitySave \/ NetworkSave \/ GpsSave \/ RfSave \/ RfLnaSave
    \/ PortalSaves \/ SetWifi \/ FactoryDefaults \/ ConfigRestart
ConfigSpec == ConfigInit /\ [][ConfigNext]_configVars
-----------------------------------------------------------------------------
ConfigTypeOK ==
    /\ nvs \in Settings /\ inUse \in Settings
    /\ gpsOn \in BOOLEAN /\ excused \in BOOLEAN

\* A modem configured for a static address has one, in flash and in use, whatever is
\* saved, refused, cut short or restarted in whatever order: only the setup portal,
\* which does not ask, and a save that failed halfway can leave it without.
StaticAddressComplete == ~excused => Complete(nvs) /\ Complete(inUse)

\* API.md: "fields you omit are left unchanged".
OmittedFieldsKept ==
    [][\A network \in BOOLEAN, p \in RequestPatches :
         ApiRestarts(network, p) =>
            \A k \in Keys \ DOMAIN p : nvs'[k] \in {nvs[k], inUse[k]}]_configVars
=============================================================================
