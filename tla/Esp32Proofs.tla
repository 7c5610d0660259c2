----------------------------- MODULE Esp32Proofs -----------------------------
(***************************************************************************)
(* An ESP32 modem's updates, its configuration and its Wi-Fi side: what    *)
(* holds in any order of requests, events, failures and restarts, for any  *)
(* number of events, addresses and clients.                                *)
(***************************************************************************)
EXTENDS Esp32Config, Esp32Update, WifiRecovery, Ethernet, TLAPS

(***************************************************************************)
(* Updates.  While no image on trial has taken an upload, one slot holds   *)
(* an image that was marked valid; the invariant says which slot an upload *)
(* may still destroy.                                                      *)
(***************************************************************************)
Entries == [image : Images \union {"partial"}, state : ImageStates]

ValidAnswers == \A s \in OtaSlots :
    slots[s].state = "VALID" => slots[s].image \in {"good", "partial"}

RunningBootable ==
    /\ running # NoSlot => /\ slots[running].image \in Images
                           /\ slots[running].state \in {"VALID", "PENDING_VERIFY"}
    /\ manager.sawValidFrame => running # NoSlot /\ slots[running].image = "good"

UploadPlace ==
    /\ upload # "none" => running # NoSlot
    /\ upload = "writing" => slots[OtherSlot(running)].image = "partial"

UpdateInv == UpdateTypeOK /\ ValidAnswers /\ RunningBootable /\ UploadPlace
                 /\ KeepsAWorkingImage
-----------------------------------------------------------------------------
LEMMA UpdateStarts == UpdateInit => UpdateInv
  <1> SUFFICES ASSUME UpdateInit PROVE UpdateInv
    OBVIOUS
  <1>1. UpdateTypeOK
    BY DEF UpdateInit, UpdateTypeOK, OtaSlots, NoSlot, Images, ImageStates, StoppedManager
  <1>2. slots[0] = [image |-> "good", state |-> "VALID"] /\ 0 \in OtaSlots
    BY DEF UpdateInit, OtaSlots
  <1>3. ValidAnswers
    BY DEF UpdateInit, ValidAnswers, OtaSlots
  <1>4. RunningBootable /\ UploadPlace
    BY <1>2 DEF UpdateInit, RunningBootable, UploadPlace, Images, StoppedManager
  <1>5. KeepsAWorkingImage
    BY <1>2 DEF KeepsAWorkingImage, Dependable
  <1> QED  BY <1>1, <1>3, <1>4, <1>5 DEF UpdateInv

\* The other slot is a slot, and another one.
LEMMA OtherSlots == \A s \in OtaSlots : OtherSlot(s) \in OtaSlots /\ OtherSlot(s) # s
                                 /\ \A r \in OtaSlots : r \in {s, OtherSlot(s)}
  BY DEF OtaSlots, OtherSlot

\* A reset gives up what was on trial and starts a bootable image: no valid one is lost.
LEMMA ResetKeeps == ASSUME UpdateInv, Reset PROVE UpdateInv'
  <1> DEFINE sl == GivenUp(slots)
             s == BootChoice(sl)
  <1>1. sl \in [OtaSlots -> Entries]
        /\ \A r \in OtaSlots : /\ sl[r].image = slots[r].image
                               /\ sl[r].state # "PENDING_VERIFY"
                               /\ (sl[r].state = "VALID" <=> slots[r].state = "VALID")
    BY DEF UpdateInv, UpdateTypeOK, GivenUp, Entries, ImageStates
  <1>2. s = NoSlot \/ (s \in OtaSlots /\ Bootable(sl, s))
    BY OtherSlots DEF BootChoice, UpdateInv, UpdateTypeOK
  <1>3. slots' = IF s = NoSlot THEN sl ELSE [sl EXCEPT ![s] = OnTrial(@)]
    BY DEF Reset
  <1>4. running' = s /\ selected' = IF s = NoSlot THEN selected ELSE s
    BY DEF Reset
  <1>5. manager' = StoppedManager /\ sanityOver' = FALSE /\ upload' = "none"
        /\ trialUpload' = trialUpload
    BY DEF Reset
  <1>6. slots' \in [OtaSlots -> Entries]
        /\ \A r \in OtaSlots : /\ slots'[r].image = slots[r].image
                               /\ (slots'[r].state = "VALID" <=> slots[r].state = "VALID")
    BY <1>1, <1>2, <1>3 DEF OnTrial, Entries, ImageStates
  <1>7. s # NoSlot => slots'[s].image \in Images /\ slots'[s].state \in {"VALID", "PENDING_VERIFY"}
    BY <1>1, <1>2, <1>3 DEF OnTrial, Bootable, Entries, ImageStates
  <1>8. UpdateTypeOK'
    BY <1>2, <1>4, <1>5, <1>6 DEF UpdateInv, UpdateTypeOK, StoppedManager, Entries
  <1>9. ValidAnswers'  BY <1>6 DEF UpdateInv, ValidAnswers
  <1>10. RunningBootable' /\ UploadPlace'
    BY <1>4, <1>5, <1>7 DEF RunningBootable, UploadPlace, StoppedManager
  <1>11. Dependable(slots) => Dependable(slots')
    <2> SUFFICES ASSUME NEW r \in OtaSlots, slots[r] = [image |-> "good", state |-> "VALID"]
                 PROVE  slots'[r] = [image |-> "good", state |-> "VALID"]
      BY DEF Dependable
    <2>1. slots'[r] \in Entries /\ slots'[r].image = "good" /\ slots'[r].state = "VALID"
      BY <1>6
    <2> QED  BY <2>1 DEF Entries
  <1> QED  BY <1>5, <1>8, <1>9, <1>10, <1>11 DEF UpdateInv, KeepsAWorkingImage

\* Marking the running image makes it the one to come back to.
LEMMA MarkKeeps == ASSUME UpdateInv, AttemptMarkValid PROVE UpdateInv'
  <1>1. running \in OtaSlots /\ slots[running].image = "good"
    BY DEF AttemptMarkValid, MayMark, LoopRuns, Runs, UpdateInv, RunningBootable, UpdateTypeOK
  <1>2. slots' = slots \/ slots' = [slots EXCEPT ![running].state = "VALID"]
    BY DEF AttemptMarkValid
  <1>3. UNCHANGED <<selected, running, sanityOver, upload>>
        /\ manager' = [manager EXCEPT !.markedValid = TRUE]
        /\ trialUpload' = (trialUpload /\ ~Dependable(slots'))
    BY DEF AttemptMarkValid
  <1>4. upload = "none"  BY DEF AttemptMarkValid, LoopRuns
  <1>5. slots' \in [OtaSlots -> Entries]
        /\ \A r \in OtaSlots : /\ slots'[r].image = slots[r].image
                               /\ slots'[r].state \in {slots[r].state, "VALID"}
                               /\ r # running => slots'[r] = slots[r]
    BY <1>1, <1>2 DEF UpdateInv, UpdateTypeOK, Entries, ImageStates
  <1>6. UpdateTypeOK'
    BY <1>3, <1>5 DEF UpdateInv, UpdateTypeOK, Entries
  <1>7. ValidAnswers'
    BY <1>1, <1>5 DEF UpdateInv, ValidAnswers
  <1>8. RunningBootable' /\ UploadPlace'
    BY <1>1, <1>3, <1>4, <1>5 DEF UpdateInv, UpdateTypeOK, RunningBootable, UploadPlace
  <1>9. Dependable(slots) => Dependable(slots')
    <2> SUFFICES ASSUME NEW r \in OtaSlots, slots[r] = [image |-> "good", state |-> "VALID"]
                 PROVE  slots'[r] = [image |-> "good", state |-> "VALID"]
      BY DEF Dependable
    <2>1. slots'[r] \in Entries /\ slots'[r].image = "good" /\ slots'[r].state = "VALID"
      BY <1>5
    <2> QED  BY <2>1 DEF Entries
  <1> QED  BY <1>3, <1>6, <1>7, <1>8, <1>9 DEF UpdateInv, KeepsAWorkingImage

\* The first sector destroys the other slot, which is not the one to come back to
\* unless the running image is on trial.
LEMMA UploadWriteKeeps == ASSUME UpdateInv, UploadWrite PROVE UpdateInv'
  <1> DEFINE o == OtherSlot(running)
  <1>1. running \in OtaSlots /\ o \in OtaSlots /\ o # running
    BY OtherSlots DEF UploadWrite, UpdateInv, UploadPlace, UpdateTypeOK
  <1>2. /\ slots' = [slots EXCEPT ![o].image = "partial"]
        /\ trialUpload' = (trialUpload \/ Trial) /\ upload' = "writing"
        /\ UNCHANGED <<selected, running, manager, sanityOver>>
    BY DEF UploadWrite
  <1>3. slots' \in [OtaSlots -> Entries] /\ slots'[o].image = "partial"
        /\ slots'[running] = slots[running] /\ slots'[o].state = slots[o].state
    BY <1>1, <1>2 DEF UpdateInv, UpdateTypeOK, Entries
  <1>4. UpdateTypeOK'  BY <1>2, <1>3 DEF UpdateInv, UpdateTypeOK, Entries
  <1>5. ValidAnswers'
    BY <1>1, <1>3, OtherSlots DEF UpdateInv, ValidAnswers
  <1>6. RunningBootable' /\ UploadPlace'
    BY <1>1, <1>2, <1>3 DEF UpdateInv, RunningBootable, UploadPlace, NoSlot, OtaSlots, OtherSlot
  <1>7. ~Trial => Dependable(slots')
    <2> SUFFICES ASSUME ~Trial PROVE slots[running] = [image |-> "good", state |-> "VALID"]
      BY <1>1, <1>3 DEF Dependable
    <2>1. slots[running].state = "VALID" /\ slots[running].image = "good"
      BY <1>1 DEF Trial, UpdateInv, RunningBootable, ValidAnswers, NoSlot, OtaSlots, Images
    <2>2. slots[running] \in Entries  BY <1>1 DEF UpdateInv, UpdateTypeOK, Entries
    <2> QED  BY <2>1, <2>2 DEF Entries
  <1> QED  BY <1>2, <1>4, <1>5, <1>6, <1>7 DEF UpdateInv, KeepsAWorkingImage

\* A whole image takes the slot that holds nothing any more.
LEMMA EndKeeps == ASSUME UpdateInv, UploadEnd PROVE UpdateInv'
  <1> DEFINE o == OtherSlot(running)
  <1>1. running \in OtaSlots /\ o \in OtaSlots /\ o # running /\ slots[o].image = "partial"
    BY OtherSlots DEF UploadEnd, UpdateInv, UploadPlace, UpdateTypeOK
  <1>2. PICK image \in Images : slots' = [slots EXCEPT ![o] = [image |-> image, state |-> "NEW"]]
    BY DEF UploadEnd
  <1>3. selected' = o /\ upload' = "ended"
        /\ UNCHANGED <<running, manager, sanityOver, trialUpload>>
    BY DEF UploadEnd
  <1>4. slots' \in [OtaSlots -> Entries] /\ slots'[running] = slots[running]
        /\ slots'[o].state = "NEW"
    BY <1>1, <1>2 DEF UpdateInv, UpdateTypeOK, Entries, ImageStates
  <1>5. UpdateTypeOK'  BY <1>1, <1>3, <1>4 DEF UpdateInv, UpdateTypeOK, Entries
  <1>6. ValidAnswers'  BY <1>1, <1>4, OtherSlots DEF UpdateInv, ValidAnswers
  <1>7. RunningBootable' /\ UploadPlace'
    BY <1>1, <1>3, <1>4 DEF UpdateInv, RunningBootable, UploadPlace, NoSlot, OtaSlots
  <1>8. Dependable(slots) => Dependable(slots')
    BY <1>1, <1>4, OtherSlots DEF Dependable
  <1> QED  BY <1>3, <1>5, <1>6, <1>7, <1>8 DEF UpdateInv, KeepsAWorkingImage

\* The steps that leave the slots alone.
LEMMA OthersKeep ==
    ASSUME UpdateInv,
           \/ ManagerBegin \/ ValidFrame \/ SanityElapses \/ UploadStart \/ UploadFails
           \/ UNCHANGED updateVars
    PROVE  UpdateInv'
  <1>1. CASE ManagerBegin
    BY <1>1 DEF ManagerBegin, ManagerOnly, UpdateInv, UpdateTypeOK, ValidAnswers, RunningBootable,
               UploadPlace, KeepsAWorkingImage, StoppedManager
  <1>2. CASE ValidFrame
    BY <1>2 DEF ValidFrame, ManagerOnly, LoopRuns, Runs, UpdateInv, UpdateTypeOK, ValidAnswers,
               RunningBootable, UploadPlace, KeepsAWorkingImage
  <1>3. CASE SanityElapses
    BY <1>3 DEF SanityElapses, ManagerOnly, UpdateInv, UpdateTypeOK, ValidAnswers,
               RunningBootable, UploadPlace, KeepsAWorkingImage
  <1>4. CASE UploadStart
    BY <1>4 DEF UploadStart, LoopRuns, Runs, UpdateInv, UpdateTypeOK, ValidAnswers,
               RunningBootable, UploadPlace, KeepsAWorkingImage
  <1>5. CASE UploadFails
    BY <1>5 DEF UploadFails, UpdateInv, UpdateTypeOK, ValidAnswers,
               RunningBootable, UploadPlace, KeepsAWorkingImage
  <1>6. CASE UNCHANGED updateVars
    BY <1>6 DEF updateVars, UpdateInv, UpdateTypeOK, ValidAnswers,
               RunningBootable, UploadPlace, KeepsAWorkingImage
  <1> QED  BY <1>1, <1>2, <1>3, <1>4, <1>5, <1>6

LEMMA UpdateKeeps == UpdateInv /\ [UpdateNext]_updateVars => UpdateInv'
  BY ResetKeeps, MarkKeeps, UploadWriteKeeps, EndKeeps, OthersKeep DEF UpdateNext, UpdateResult

LEMMA UpdateInvariant == UpdateSpec => []UpdateInv
  BY UpdateStarts, UpdateKeeps, PTL DEF UpdateSpec

\* The slots, the upload and the boot bookkeeping keep their types.
THEOREM UpdateTypeCorrect == UpdateSpec => []UpdateTypeOK
  <1>1. UpdateInv => UpdateTypeOK  BY DEF UpdateInv
  <1> QED  BY <1>1, UpdateInvariant, PTL

\* ota_manager.cpp: whatever is uploaded, refused, interrupted or reset, in whatever
\* order, the modem keeps an image that answered a host and was marked valid, unless an
\* image still on trial took the upload.
THEOREM WorkingImageKept == UpdateSpec => []KeepsAWorkingImage
  <1>1. UpdateInv => KeepsAWorkingImage  BY DEF UpdateInv
  <1> QED  BY <1>1, UpdateInvariant, PTL
-----------------------------------------------------------------------------
(***************************************************************************)
(* Configuration.  The conditions on the two copies are those of           *)
(* StaticAddressComplete; what is needed besides them is that every save   *)
(* starts from a copy that satisfies them.                                 *)
(***************************************************************************)
ConfigInv == ConfigTypeOK /\ StaticAddressComplete

Changes == UNION {[S -> BOOLEAN] : S \in SUBSET Keys}

\* An override keeps what it does not name.
LEMMA MergedType ==
    ASSUME NEW c \in Settings, NEW p \in Changes
    PROVE  Merged(c, p) \in Settings
  BY DEF Merged, Settings, Changes

LEMMA OnlyType ==
    ASSUME NEW p \in Changes, NEW ks
    PROVE  Only(p, ks) \in Changes /\ DOMAIN Only(p, ks) = DOMAIN p \cap ks
  <1>1. PICK S \in SUBSET Keys : p \in [S -> BOOLEAN]  BY DEF Changes
  <1>2. Only(p, ks) \in [S \cap ks -> BOOLEAN] /\ S \cap ks \in SUBSET Keys
    BY <1>1 DEF Only
  <1> QED  BY <1>1, <1>2 DEF Changes, Only

\* A change of the RF keys leaves the addresses as they are.
LEMMA RfMerged ==
    ASSUME NEW c \in Settings, NEW p \in Changes, DOMAIN p \subseteq RfKeys
    PROVE  Merged(c, p) \in Settings /\ (Complete(Merged(c, p)) <=> Complete(c))
  <1>1. Merged(c, p) \in Settings  BY MergedType
  <1>2. Merged(c, p)["static"] = c["static"] /\ Merged(c, p)["address"] = c["address"]
    BY DEF Merged, Keys, ConfigFields, RfKeys
  <1> QED  BY <1>1, <1>2 DEF Complete

LEMMA RfSavedKeeps ==
    ASSUME ConfigInv, NEW p \in Changes, DOMAIN p \subseteq RfKeys, RfSaved(p)
    PROVE  ConfigInv'
  BY RfMerged DEF RfSaved, ConfigInv, ConfigTypeOK, StaticAddressComplete

\* loadConfig() after whatever was written.
LEMMA EmptyComplete == EmptyNamespace \in Settings /\ Complete(EmptyNamespace)
  BY DEF EmptyNamespace, Settings, Complete, Keys, ConfigFields, RfKeys

LEMMA LoadType ==
    ASSUME nvs' \in Settings, LoadConfig
    PROVE  inUse' \in Settings /\ gpsOn' \in BOOLEAN /\ (Complete(nvs') => Complete(inUse'))
  <1>1. inUse' \in {nvs', EmptyNamespace} /\ gpsOn' = inUse'["gps"]  BY DEF LoadConfig
  <1>2. inUse' \in Settings  BY <1>1, EmptyComplete
  <1>3. "gps" \in Keys  BY DEF Keys, ConfigFields
  <1>4. inUse'["gps"] \in BOOLEAN  BY <1>2, <1>3 DEF Settings
  <1> QED  BY <1>1, <1>2, <1>4, EmptyComplete

\* A save leaves the old configuration, the new one, or is known to have failed halfway.
LEMMA SaveAndRestartKeeps ==
    ASSUME ConfigInv, NEW old \in Settings, NEW new \in Settings, NEW unchecked \in BOOLEAN,
           Complete(old) <=> Complete(nvs), unchecked \/ (~excused => Complete(new)),
           SaveAndRestart(old, new, unchecked)
    PROVE  ConfigInv'
  <1>1. PICK written \in SUBSET ConfigFields : nvs' = Saved(old, new, written)
    BY DEF SaveAndRestart, SaveOutcomes
  <1>2. nvs' \in Settings  BY <1>1 DEF Saved, Settings
  <1>3. inUse' \in Settings /\ gpsOn' \in BOOLEAN /\ (Complete(nvs') => Complete(inUse'))
    BY <1>2, LoadType DEF SaveAndRestart
  <1>4. excused' = (~(Complete(nvs') /\ Complete(inUse'))
                    /\ (excused \/ unchecked \/ Halfway(old, new, nvs')))
    BY DEF SaveAndRestart, Excuse
  <1>5. Complete(Saved(old, new, ConfigFields)) <=> Complete(new)
    BY DEF Saved, Complete, Keys, ConfigFields
  <1>6. ASSUME ~excused' PROVE Complete(nvs') /\ Complete(inUse')
    <2> SUFFICES ASSUME ~excused, ~unchecked, ~Halfway(old, new, nvs') PROVE Complete(nvs')
      BY <1>3, <1>4, <1>6
    <2>1. Complete(old) /\ Complete(new)
      BY DEF ConfigInv, StaticAddressComplete
    <2> QED  BY <1>5, <2>1 DEF Halfway
  <1>7. excused' \in BOOLEAN  BY <1>4
  <1> QED  BY <1>2, <1>3, <1>6, <1>7 DEF ConfigInv, ConfigTypeOK, StaticAddressComplete

\* POST /api/config: what is accepted has its addresses, whatever it names.
LEMMA ApiConfigPostKeeps == ASSUME ConfigInv, ApiConfigPost PROVE ConfigInv'
  <1>1. PICK network \in BOOLEAN, p \in RequestPatches :
          ApiStays(network, p) \/ ApiRestarts(network, p)
    BY DEF ApiConfigPost
  <1>2. p \in Changes  BY DEF RequestPatches, Changes
  <1>3. DOMAIN Only(p, RfKeys) \subseteq RfKeys /\ Only(p, RfKeys) \in Changes
    BY <1>2, OnlyType
  <1>4. Named(network, p) \in Changes
    <2>1. PICK S \in SUBSET Keys : p \in [S -> BOOLEAN]  BY <1>2 DEF Changes
    <2> DEFINE T == (S \cap ConfigFields) \union (IF network THEN {"address"} ELSE {})
    <2>2. T \in SUBSET Keys  BY DEF Keys, ConfigFields
    <2>3. Named(network, p) \in [T -> BOOLEAN]  BY <2>1 DEF Named
    <2> QED  BY <2>2, <2>3 DEF Changes
  <1>5. Patched(network, p) \in Settings
    BY <1>4, MergedType DEF Patched, ConfigInv, ConfigTypeOK
  <1>6. CASE ApiStays(network, p)
    <2>1. CASE RequestRefused
      BY <2>1 DEF RequestRefused, configVars, ConfigInv, ConfigTypeOK, StaticAddressComplete
    <2>2. CASE RfFails(p)
      <3>1. PICK k \in RfKeys : RfSaved(Only(p, IF k = "agc" THEN {"lna"} ELSE {}))
        BY <2>2 DEF RfFails
      <3>2. (IF k = "agc" THEN {"lna"} ELSE {}) \subseteq RfKeys  BY DEF RfKeys
      <3>3. Only(p, IF k = "agc" THEN {"lna"} ELSE {}) \in Changes
            /\ DOMAIN Only(p, IF k = "agc" THEN {"lna"} ELSE {}) \subseteq RfKeys
        BY <1>2, <3>2, OnlyType
      <3> QED  BY <3>1, <3>3, RfSavedKeeps
    <2>3. CASE RfSaved(Only(p, RfKeys))
      BY <2>3, <1>3, RfSavedKeeps
    <2> QED  BY <1>6, <2>1, <2>2, <2>3 DEF ApiStays
  <1>7. CASE ApiRestarts(network, p)
    <2> DEFINE old == Merged(nvs, Only(p, RfKeys))
    <2>1. old \in Settings /\ (Complete(old) <=> Complete(nvs))
      BY <1>3, RfMerged DEF ConfigInv, ConfigTypeOK
    <2>2. Complete(Patched(network, p)) /\ SaveAndRestart(old, Patched(network, p), FALSE)
      BY <1>7 DEF ApiRestarts, Acceptable
    <2> HIDE DEF old
    <2> QED  BY <1>5, <2>1, <2>2, SaveAndRestartKeeps
  <1> QED  BY <1>1, <1>6, <1>7

\* The forms that are copied without a check keep the addresses of the copy.
LEMMA ConfigFormsKeep ==
    ASSUME ConfigInv, IdentitySave \/ NetworkSave \/ SetWifi
    PROVE  ConfigInv'
  <1>1. nvs \in Settings /\ inUse \in Settings /\ (~excused => Complete(inUse))
    BY DEF ConfigInv, ConfigTypeOK, StaticAddressComplete
  <1>2. "identity" \in Keys /\ "static" \in Keys /\ "address" \in Keys
    BY DEF Keys, ConfigFields
  <1>3. CASE IdentitySave
    <2>1. PICK b \in BOOLEAN : SaveAndRestart(nvs, [inUse EXCEPT !["identity"] = b], FALSE)
      BY <1>3 DEF IdentitySave
    <2>2. [inUse EXCEPT !["identity"] = b] \in Settings
          /\ (Complete([inUse EXCEPT !["identity"] = b]) <=> Complete(inUse))
      BY <1>1, <1>2 DEF Settings, Complete
    <2> QED  BY <1>1, <2>1, <2>2, SaveAndRestartKeeps
  <1>4. CASE NetworkSave
    <2>1. PICK b \in BOOLEAN, s \in BOOLEAN, a \in BOOLEAN :
            LET form == [inUse EXCEPT !["identity"] = b, !["static"] = s, !["address"] = a]
            IN IF Complete(form) THEN SaveAndRestart(nvs, form, FALSE) ELSE RequestRefused
      BY <1>4 DEF NetworkSave
    <2> DEFINE form == [inUse EXCEPT !["identity"] = b, !["static"] = s, !["address"] = a]
    <2>2. form \in Settings  BY <1>1 DEF Settings
    <2>3. CASE Complete(form) /\ SaveAndRestart(nvs, form, FALSE)
      <3> HIDE DEF form
      <3> QED  BY <1>1, <2>2, <2>3, SaveAndRestartKeeps
    <2>4. CASE RequestRefused
      BY <2>4 DEF RequestRefused, configVars, ConfigInv, ConfigTypeOK, StaticAddressComplete
    <2> QED  BY <2>1, <2>3, <2>4
  <1>5. CASE SetWifi
    <2>1. PICK b \in BOOLEAN :
            SaveAndRestart(nvs, [inUse EXCEPT !["identity"] = b, !["static"] = FALSE], FALSE)
      BY <1>5 DEF SetWifi
    <2> DEFINE new == [inUse EXCEPT !["identity"] = b, !["static"] = FALSE]
    <2>2. new \in Settings /\ new["static"] = FALSE  BY <1>1, <1>2 DEF Settings
    <2>3. Complete(new)  BY <2>2 DEF Complete
    <2> HIDE DEF new
    <2> QED  BY <1>1, <2>1, <2>2, <2>3, SaveAndRestartKeeps DEF new
  <1> QED  BY <1>3, <1>4, <1>5

\* The GPS switch saves the whole copy and does not restart.
LEMMA GpsSaveKeeps == ASSUME ConfigInv, GpsSave PROVE ConfigInv'
  <1>1. PICK on \in BOOLEAN :
          LET new == [inUse EXCEPT !["gps"] = on] IN
          /\ nvs' \in SaveOutcomes(nvs, new)
          /\ inUse' \in IF nvs' = nvs THEN {inUse, new} ELSE {new}
          /\ gpsOn' = on
          /\ Excuse(Halfway(nvs, new, nvs'))
    BY DEF GpsSave
  <1> DEFINE new == [inUse EXCEPT !["gps"] = on]
  <1>2. nvs \in Settings /\ inUse \in Settings /\ (~excused => Complete(nvs) /\ Complete(inUse))
    BY DEF ConfigInv, ConfigTypeOK, StaticAddressComplete
  <1>3. new \in Settings  BY <1>2 DEF Settings
  <1>4. Complete(new) <=> Complete(inUse)
    <2>1. "static" \in Keys /\ "address" \in Keys  BY DEF Keys, ConfigFields
    <2> QED  BY <1>2, <2>1 DEF Settings, Complete
  <1> HIDE DEF new
  <1>5. PICK written \in SUBSET ConfigFields : nvs' = Saved(nvs, new, written)
    BY <1>1 DEF SaveOutcomes, new
  <1>6. nvs' \in Settings  BY <1>2, <1>3, <1>5 DEF Saved, Settings
  <1>7. inUse' \in {inUse, new} /\ gpsOn' \in BOOLEAN  BY <1>1 DEF new
  <1>8. excused' = (~(Complete(nvs') /\ Complete(inUse'))
                    /\ (excused \/ Halfway(nvs, new, nvs')))
    BY <1>1 DEF Excuse, new
  <1>9. Complete(Saved(nvs, new, ConfigFields)) <=> Complete(new)
    BY DEF Saved, Complete, Keys, ConfigFields
  <1>10. ASSUME ~excused' PROVE Complete(nvs') /\ Complete(inUse')
    <2> SUFFICES ASSUME ~excused, ~Halfway(nvs, new, nvs') PROVE Complete(nvs') /\ Complete(inUse')
      BY <1>8, <1>10
    <2> QED  BY <1>2, <1>4, <1>7, <1>9 DEF Halfway
  <1>11. excused' \in BOOLEAN  BY <1>8
  <1> QED  BY <1>2, <1>3, <1>6, <1>7, <1>10, <1>11 DEF ConfigInv, ConfigTypeOK, StaticAddressComplete

\* The pages that keep one or two RF settings.
LEMMA RfFormsKeep == ASSUME ConfigInv, RfSave \/ RfLnaSave PROVE ConfigInv'
  <1>1. CASE RequestRefused
    BY <1>1 DEF RequestRefused, configVars, ConfigInv, ConfigTypeOK, StaticAddressComplete
  <1>2. CASE \E p \in Changes : DOMAIN p \subseteq RfKeys /\ RfSaved(p)
    BY <1>2, RfSavedKeeps
  <1>3. CASE RfSave
    <2>1. PICK k \in RfKeys, b \in BOOLEAN : RfSaved([j \in {k} |-> b]) \/ RequestRefused
      BY <1>3 DEF RfSave
    <2>2. {k} \in SUBSET Keys /\ [j \in {k} |-> b] \in [{k} -> BOOLEAN]
      BY DEF Keys
    <2>3. [j \in {k} |-> b] \in Changes /\ DOMAIN [j \in {k} |-> b] \subseteq RfKeys
      BY <2>2 DEF Changes
    <2> QED  BY <1>1, <1>2, <2>1, <2>3
  <1>4. CASE RfLnaSave
    <2>1. PICK lna \in BOOLEAN, agc \in BOOLEAN :
            LET form == [k \in RfKeys |-> IF k = "lna" THEN lna ELSE agc]
            IN RfSaved(form) \/ RfSaved(Only(form, {"lna"})) \/ RequestRefused
      BY <1>4 DEF RfLnaSave
    <2> DEFINE form == [k \in RfKeys |-> IF k = "lna" THEN lna ELSE agc]
    <2>2. form \in [RfKeys -> BOOLEAN] /\ RfKeys \in SUBSET Keys /\ DOMAIN form = RfKeys
      BY DEF Keys
    <2> HIDE DEF form
    <2>3. form \in Changes  BY <2>2 DEF Changes
    <2>4. Only(form, {"lna"}) \in Changes /\ DOMAIN Only(form, {"lna"}) \subseteq RfKeys
      BY <2>2, <2>3, OnlyType
    <2> QED  BY <1>1, <1>2, <2>1, <2>2, <2>3, <2>4 DEF form
  <1> QED  BY <1>3, <1>4

\* The setup portal asks for nothing, and that is remembered.
LEMMA PortalKeeps == ASSUME ConfigInv, PortalSaves PROVE ConfigInv'
  <1>1. PICK rf \in [RfKeys -> BOOLEAN], kept \in SUBSET RfKeys :
          \/ RfSaved(Only(rf, kept))
          \/ \E form \in [{"identity", "static", "address"} -> BOOLEAN] :
               SaveAndRestart(Merged(nvs, Only(rf, kept)), Merged(inUse, form), TRUE)
    BY DEF PortalSaves
  <1>2. rf \in Changes  BY DEF Changes, Keys
  <1>3. Only(rf, kept) \in Changes /\ DOMAIN Only(rf, kept) \subseteq RfKeys
    BY <1>2, OnlyType
  <1>4. CASE RfSaved(Only(rf, kept))  BY <1>3, <1>4, RfSavedKeeps
  <1>5. ASSUME NEW form \in [{"identity", "static", "address"} -> BOOLEAN],
               SaveAndRestart(Merged(nvs, Only(rf, kept)), Merged(inUse, form), TRUE)
        PROVE  ConfigInv'
    <2>1. {"identity", "static", "address"} \in SUBSET Keys  BY DEF Keys, ConfigFields
    <2>2. form \in Changes  BY <2>1 DEF Changes
    <2>3. Merged(inUse, form) \in Settings
      BY <2>2, MergedType DEF ConfigInv, ConfigTypeOK
    <2>4. /\ Merged(nvs, Only(rf, kept)) \in Settings
          /\ Complete(Merged(nvs, Only(rf, kept))) <=> Complete(nvs)
      BY <1>3, RfMerged DEF ConfigInv, ConfigTypeOK
    <2> QED  BY <1>5, <2>3, <2>4, SaveAndRestartKeeps
  <1> QED  BY <1>1, <1>4, <1>5

\* A factory reset and any other restart.
LEMMA RestartKeeps == ASSUME ConfigInv, FactoryDefaults \/ ConfigRestart PROVE ConfigInv'
  <1>1. nvs' \in {nvs, EmptyNamespace} /\ LoadConfig /\ Excuse(FALSE)
    BY DEF FactoryDefaults, ConfigRestart
  <1>2. nvs' \in Settings /\ (Complete(nvs) => Complete(nvs'))
    BY <1>1, EmptyComplete DEF ConfigInv, ConfigTypeOK
  <1>3. inUse' \in Settings /\ gpsOn' \in BOOLEAN /\ (Complete(nvs') => Complete(inUse'))
    BY <1>1, <1>2, LoadType
  <1>4. excused' = (~(Complete(nvs') /\ Complete(inUse')) /\ excused)
    BY <1>1 DEF Excuse, ConfigInv, ConfigTypeOK
  <1> QED  BY <1>2, <1>3, <1>4 DEF ConfigInv, ConfigTypeOK, StaticAddressComplete

LEMMA ConfigStarts == ConfigInit => ConfigInv
  BY EmptyComplete DEF ConfigInit, ConfigInv, ConfigTypeOK, StaticAddressComplete

LEMMA ConfigKeeps == ConfigInv /\ [ConfigNext]_configVars => ConfigInv'
  <1>1. ConfigInv /\ UNCHANGED configVars => ConfigInv'
    BY DEF configVars, ConfigInv, ConfigTypeOK, StaticAddressComplete
  <1> QED
    BY <1>1, ApiConfigPostKeeps, ConfigFormsKeep, GpsSaveKeeps, RfFormsKeep, PortalKeeps,
       RestartKeeps
       DEF ConfigNext

LEMMA ConfigInvariant == ConfigSpec => []ConfigInv
  BY ConfigStarts, ConfigKeeps, PTL DEF ConfigSpec

\* The saved and the running configuration keep their types.
THEOREM ConfigTypeCorrect == ConfigSpec => []ConfigTypeOK
  <1>1. ConfigInv => ConfigTypeOK  BY DEF ConfigInv
  <1> QED  BY <1>1, ConfigInvariant, PTL

\* ota_manager.cpp, wifi_manager.cpp: whatever is posted, refused, cut short or restarted,
\* a modem set to a static address has address, subnet and gateway, unless the setup
\* portal or half a save left it without.
THEOREM StaticAddressAlwaysComplete == ConfigSpec => []StaticAddressComplete
  <1>1. ConfigInv => StaticAddressComplete  BY DEF ConfigInv
  <1> QED  BY <1>1, ConfigInvariant, PTL
-----------------------------------------------------------------------------
(***************************************************************************)
(* Wi-Fi.  `stale' sessions are on the way to be dropped: either the event *)
(* bits still say so, and then the session is on the address the manager   *)
(* has on record, or the manager has handed that address to the same pass. *)
(***************************************************************************)
FailureCounts == 0..2
Managers ==
    [mode : {"OFFLINE", "AP_CONFIG", "STA_CONNECTING", "STA_CONNECTED"},
     ap : BOOLEAN, ever : BOOLEAN, fallback : BOOLEAN, stopFailed : BOOLEAN,
     down : BOOLEAN, phase : {"ATTEMPT", "BACKOFF", "RESTART_SETTLE"},
     failures : FailureCounts, last : Addresses, invalidated : Addresses]
Clients == [session : 0..MaxSessions, ip : Addresses, alive : BOOLEAN, stale : BOOLEAN]
Servers == [started : BOOLEAN, accepted : 0..MaxSessions, client : Clients,
            auth : 0..MaxSessions, parser : 0..MaxSessions]
WifiDrivers == [trying : BOOLEAN, ip : Addresses]

\* What holds of TCPServer by itself.
GoodServer(t) ==
    /\ t \in Servers
    /\ t.auth \in {0, t.client.session} /\ t.parser \in {0, t.client.session}
    /\ t.client.session # 0 => t.client.ip # NoIp

StaleKnown ==
    tcp.client.stale =>
        /\ tcp.client.session # 0
        /\ \/ pending.invalid /\ tcp.client.ip = mgr.last
           \/ wpc = "tcp" /\ mgr.invalidated = tcp.client.ip

\* The access point, its portal and what came before the first success.
GoodPortal(m) ==
    /\ m.ever => ~m.ap /\ ~m.fallback /\ ssid
    /\ m.mode = "STA_CONNECTED" => m.ever

WifiInv ==
    /\ WifiTypeOK
    /\ GoodServer(tcp) /\ (incoming # NoIp => tcp.accepted < MaxSessions)
    /\ StaleKnown
    /\ GoodPortal(mgr) /\ (portal <=> mgr.ap) /\ (tcp.started => mgr.ever)

LEMMA WifiTypes ==
    ASSUME WifiInv
    PROVE  /\ mgr \in Managers /\ tcp \in Servers /\ drv \in WifiDrivers
           /\ tcp.client \in Clients
           /\ ssid \in BOOLEAN /\ portal \in BOOLEAN /\ incoming \in Addresses
           /\ wpc \in {"wifi", "tcp"}
  BY DEF WifiInv, WifiTypeOK, Managers, FailureCounts, Servers, Clients, WifiDrivers

LEMMA NoIps == NoIp \in Addresses /\ Ips \subseteq Addresses /\ \A ip \in Ips : ip # NoIp
  BY NoIpAssumption DEF Addresses

LEMMA PostKeeps ==
    ASSUME WifiInv, NEW e \in StationEvents, Post(e)
    PROVE  callbacks' \in Seq(StationEvents) /\ Len(callbacks') <= MaxCallbacks
  BY BoundsAssumption DEF Post, WifiInv, WifiTypeOK
-----------------------------------------------------------------------------
(* TCPServer *)

LEMMA NoClientType == NoClient \in Clients /\ NoClient.session = 0 /\ ~NoClient.stale
  BY BoundsAssumption, NoIps DEF NoClient, Clients

LEMMA DisconnectGood ==
    ASSUME NEW t \in Servers
    PROVE  /\ GoodServer(disconnectClient(t)) /\ disconnectClient(t).client = NoClient
           /\ disconnectClient(t).accepted = t.accepted /\ disconnectClient(t).started = t.started
  <1> DEFINE d == disconnectClient(t)
  <1>1. d.client = NoClient /\ d.auth = 0 /\ d.parser = 0
        /\ d.accepted = t.accepted /\ d.started = t.started
    BY DEF disconnectClient, Servers
  <1>2. d \in Servers
    <2>1. 0 \in 0..MaxSessions  BY BoundsAssumption
    <2> QED  BY <2>1, NoClientType DEF disconnectClient, Servers
  <1> HIDE DEF d
  <1>3. GoodServer(d)  BY <1>1, <1>2, NoClientType DEF GoodServer
  <1> QED  BY <1>1, <1>3 DEF d

\* Bytes belong to the client they come from.
LEMMA ServeBytesGood ==
    ASSUME NEW t, GoodServer(t), NEW u \in ServeBytes(t), t.client \in Clients
    PROVE  /\ GoodServer(u) /\ u.accepted = t.accepted /\ u.started = t.started
           /\ u.client \in {t.client, NoClient}
  <1>1. t \in Servers  BY DEF GoodServer
  <1> DEFINE s == t.client.session
  <1>2. s \in 0..MaxSessions  BY DEF Clients
  <1>3. 0 \in 0..MaxSessions  BY BoundsAssumption
  <1>4. CASE u = t  BY <1>4
  <1>5. CASE u = [t EXCEPT !.parser = 0]
    <2>1. u \in Servers /\ u.parser = 0 /\ u.auth = t.auth /\ u.client = t.client
          /\ u.accepted = t.accepted /\ u.started = t.started
      BY <1>1, <1>3, <1>5 DEF Servers
    <2> QED  BY <2>1 DEF GoodServer
  <1>6. CASE u = [t EXCEPT !.parser = IF @ = 0 THEN s ELSE @]
    <2>1. u \in Servers /\ u.parser \in {t.parser, s} /\ u.auth = t.auth /\ u.client = t.client
          /\ u.accepted = t.accepted /\ u.started = t.started
      BY <1>1, <1>2, <1>6 DEF Servers
    <2> QED  BY <2>1 DEF GoodServer
  <1>7. CASE u = [t EXCEPT !.parser = 0, !.auth = s]
    <2>1. u \in Servers /\ u.parser = 0 /\ u.auth = s /\ u.client = t.client
          /\ u.accepted = t.accepted /\ u.started = t.started
      BY <1>1, <1>2, <1>3, <1>7 DEF Servers
    <2> QED  BY <2>1 DEF GoodServer
  <1>8. CASE u = disconnectClient(t)  BY <1>1, <1>8, DisconnectGood
  <1>9. u \in {t} \union {[t EXCEPT !.parser = 0], [t EXCEPT !.parser = IF @ = 0 THEN s ELSE @]}
             \union {[t EXCEPT !.parser = 0, !.auth = s], disconnectClient(t)}
    BY DEF ServeBytes
  <1> HIDE DEF s
  <1> QED  BY <1>4, <1>5, <1>6, <1>7, <1>8, <1>9

\* A new client starts with an empty parser and without a login.
LEMMA AcceptGood ==
    ASSUME NEW t, GoodServer(t), NEW ip \in Addresses, ip # NoIp, t.accepted < MaxSessions
    PROVE  /\ GoodServer(accept(t, ip)) /\ accept(t, ip).client \in Clients
           /\ ~accept(t, ip).client.stale /\ accept(t, ip).started = t.started
  <1>1. t \in Servers /\ t.accepted \in 0..MaxSessions /\ t.accepted + 1 \in 0..MaxSessions
    BY BoundsAssumption DEF GoodServer, Servers
  <1>2. Session(t.accepted + 1, ip) \in Clients /\ Session(t.accepted + 1, ip).ip = ip
        /\ ~Session(t.accepted + 1, ip).stale
    BY <1>1 DEF Session, Clients
  <1> DEFINE u == accept(t, ip)
  <1>3. u.client = Session(t.accepted + 1, ip)
        /\ u.auth = 0 /\ u.parser = 0 /\ u.started = t.started
    BY <1>1 DEF accept, Servers
  <1>4. u \in Servers
    <2>1. 0 \in 0..MaxSessions  BY BoundsAssumption
    <2> QED  BY <1>1, <1>2, <2>1 DEF accept, Servers
  <1> HIDE DEF u
  <1>5. GoodServer(u)  BY <1>2, <1>3, <1>4 DEF GoodServer
  <1> QED  BY <1>2, <1>3, <1>5 DEF u

\* The pass drops the session on the address the manager handed over.
LEMMA CurrentGood ==
    ASSUME WifiInv, wpc = "tcp"
    PROVE  /\ GoodServer(Current) /\ Current.client \in Clients
           /\ Current.accepted = tcp.accepted /\ Current.started = tcp.started
           /\ Current.client.stale => Current.client.session # 0 /\ pending.invalid
                                      /\ Current.client.ip = mgr.last
  <1> DEFINE ip == mgr.invalidated
             t == invalidateInterface(tcp, ip)
  <1>1. GoodServer(tcp) /\ tcp \in Servers /\ tcp.client \in Clients
    BY WifiTypes DEF WifiInv
  <1>2. \/ t = disconnectClient(tcp)
        \/ t = tcp /\ ~(ip # NoIp /\ tcp.client.session # 0 /\ tcp.client.ip = ip)
    BY DEF invalidateInterface
  <1>3. Current = disconnectClient(t) \/ Current = t
    BY DEF Current
  <1>4. GoodServer(t) /\ t \in Servers /\ t.client \in Clients
        /\ t.accepted = tcp.accepted /\ t.started = tcp.started
    BY <1>1, <1>2, DisconnectGood, NoClientType DEF GoodServer
  <1>5. t.client.stale => t.client.session # 0 /\ pending.invalid /\ t.client.ip = mgr.last
    <2>1. CASE t = disconnectClient(tcp)  BY <1>1, <2>1, DisconnectGood, NoClientType
    <2>2. CASE t = tcp /\ ~(ip # NoIp /\ tcp.client.session # 0 /\ tcp.client.ip = ip)
      BY <1>1, <2>2 DEF WifiInv, StaleKnown, GoodServer
    <2> QED  BY <1>2, <2>1, <2>2
  <1> HIDE DEF t
  <1> QED  BY <1>3, <1>4, <1>5, DisconnectGood, NoClientType

\* The invariant from its parts.
LEMMA WifiInvFrom ==
    ASSUME ssid' \in BOOLEAN, portal' \in BOOLEAN, drv' \in WifiDrivers,
           callbacks' \in Seq(StationEvents), Len(callbacks') <= MaxCallbacks,
           pending' \in [invalid : BOOLEAN, state : BOOLEAN, down : BOOLEAN],
           mgr' \in Managers, due' \subseteq WifiTimers, GoodServer(tcp)', incoming' \in Addresses,
           wpc' \in {"wifi", "tcp"}, incoming' # NoIp => tcp'.accepted < MaxSessions,
           StaleKnown', GoodPortal(mgr)', portal' <=> mgr'.ap, tcp'.started => mgr'.ever
    PROVE  WifiInv'
  BY DEF WifiInv, WifiTypeOK, Managers, FailureCounts, Servers, Clients, WifiDrivers, GoodServer

\* The rest of a pass: what is served, accepted or dropped.
LEMMA NetworkPassKeeps == ASSUME WifiInv, NetworkPass PROVE WifiInv'
  <1>1. wpc = "tcp" /\ wpc' = "wifi" /\ mgr' = [mgr EXCEPT !.invalidated = NoIp]
        /\ UNCHANGED <<ssid, drv, callbacks, pending, due, portal>>
    BY DEF NetworkPass
  <1>2. /\ GoodServer(Current) /\ Current.client \in Clients /\ Current \in Servers
        /\ Current.accepted = tcp.accepted /\ Current.started = tcp.started
        /\ Current.client.stale => Current.client.session # 0 /\ pending.invalid
                                   /\ Current.client.ip = mgr.last
    BY <1>1, CurrentGood DEF GoodServer
  <1>3. mgr' \in Managers /\ mgr'.last = mgr.last /\ mgr'.ever = mgr.ever /\ mgr'.ap = mgr.ap
        /\ mgr'.mode = mgr.mode /\ mgr'.fallback = mgr.fallback
    BY <1>1, WifiTypes, NoIps DEF Managers
  <1>4. /\ GoodServer(tcp)' /\ incoming' \in Addresses
        /\ incoming' # NoIp => tcp'.accepted < MaxSessions
        /\ tcp'.client.stale => tcp'.client.session # 0 /\ pending.invalid
                                /\ tcp'.client.ip = mgr.last
        /\ tcp'.started => mgr.ever
    <2>1. incoming \in Addresses /\ (incoming # NoIp => tcp.accepted < MaxSessions)
          /\ (tcp.started => mgr.ever) /\ (mgr.mode = "STA_CONNECTED" => mgr.ever)
      BY WifiTypes DEF WifiInv, GoodPortal
    <2>2. CASE tcp' = Current /\ incoming' \in {NoIp, incoming}
      BY <1>2, <2>1, <2>2, NoIps
    <2>3. CASE incoming # NoIp /\ tcp' \in ServeBytes(accept(Current, incoming)) /\ incoming' = NoIp
      <3>1. /\ GoodServer(accept(Current, incoming)) /\ accept(Current, incoming).client \in Clients
            /\ ~accept(Current, incoming).client.stale
            /\ accept(Current, incoming).started = tcp.started
        BY <1>2, <2>1, <2>3, AcceptGood
      <3>2. /\ GoodServer(tcp)' /\ tcp'.started = tcp.started
            /\ tcp'.client \in {accept(Current, incoming).client, NoClient}
        BY <2>3, <3>1, ServeBytesGood
      <3> QED  BY <2>1, <2>3, <3>1, <3>2, NoIps, NoClientType
    <2>4. CASE tcp' \in ServeBytes(Current) /\ incoming' = incoming
      <3>1. /\ GoodServer(tcp)' /\ tcp'.started = tcp.started /\ tcp'.accepted = tcp.accepted
            /\ tcp'.client \in {Current.client, NoClient}
        BY <1>2, <2>4, ServeBytesGood
      <3> QED  BY <1>2, <2>1, <2>4, <3>1, NoClientType
    <2>5. CASE mgr.mode = "STA_CONNECTED" /\ tcp' = LazyStart /\ incoming' = incoming
      <3> DEFINE d == disconnectClient(Current)
      <3>1. GoodServer(d) /\ d.client = NoClient /\ d.accepted = tcp.accepted
        BY <1>2, DisconnectGood
      <3>2. tcp' = [d EXCEPT !.started = TRUE]  BY <2>5 DEF LazyStart
      <3> HIDE DEF d
      <3>3. tcp' \in Servers /\ tcp'.client = NoClient /\ tcp'.accepted = tcp.accepted
            /\ tcp'.auth = d.auth /\ tcp'.parser = d.parser
        BY <3>1, <3>2 DEF GoodServer, Servers
      <3>4. GoodServer(tcp)'  BY <3>1, <3>3, NoClientType DEF GoodServer
      <3> QED  BY <2>1, <2>5, <3>3, <3>4, NoClientType
    <2> QED  BY <2>2, <2>3, <2>4, <2>5 DEF NetworkPass, TcpPass
  <1>5. StaleKnown'  BY <1>1, <1>3, <1>4 DEF StaleKnown
  <1>6. GoodPortal(mgr)' /\ (portal' <=> mgr'.ap) /\ (tcp'.started => mgr'.ever)
    BY <1>1, <1>3, <1>4 DEF WifiInv, GoodPortal
  <1>7. /\ ssid' \in BOOLEAN /\ portal' \in BOOLEAN /\ drv' \in WifiDrivers
        /\ callbacks' \in Seq(StationEvents) /\ Len(callbacks') <= MaxCallbacks
        /\ pending' \in [invalid : BOOLEAN, state : BOOLEAN, down : BOOLEAN]
        /\ due' \subseteq WifiTimers /\ wpc' \in {"wifi", "tcp"}
    BY <1>1 DEF WifiInv, WifiTypeOK, WifiDrivers
  <1> QED  BY <1>3, <1>4, <1>5, <1>6, <1>7, WifiInvFrom

-----------------------------------------------------------------------------
(* WifiManager::loop() *)

\* The exchange of the event bits hands over the address when they say so.
LEMMA PolledGood ==
    ASSUME WifiInv, NEW m, m \in {PolledManager, Lost}
    PROVE  /\ m \in Managers /\ GoodPortal(m) /\ m.ap = mgr.ap /\ m.ever = mgr.ever
           /\ m.fallback = mgr.fallback
           /\ m.invalidated = PolledManager.invalidated
           /\ pending.invalid /\ mgr.last # NoIp => m.invalidated = mgr.last
  <1>0. pending.state \in BOOLEAN /\ pending.down \in BOOLEAN
    BY DEF WifiInv, WifiTypeOK
  <1> DEFINE q == [mgr EXCEPT !.down = IF pending.state THEN pending.down ELSE @]
             gone == q.last # NoIp /\ (pending.invalid \/ ~Usable(q) \/ drv.ip # q.last)
  <1>1. q \in Managers /\ q.last = mgr.last /\ q.ap = mgr.ap /\ q.ever = mgr.ever
        /\ q.fallback = mgr.fallback /\ q.mode = mgr.mode
    BY <1>0, WifiTypes DEF Managers
  <1>2. PolledManager = IF gone THEN [q EXCEPT !.invalidated = q.last, !.last = NoIp] ELSE q
    BY DEF PolledManager
  <1> HIDE DEF q
  <1>3. /\ PolledManager \in Managers /\ PolledManager.ap = mgr.ap /\ PolledManager.ever = mgr.ever
        /\ PolledManager.fallback = mgr.fallback /\ PolledManager.mode = mgr.mode
    BY <1>1, <1>2, NoIps DEF Managers
  <1>4. pending.invalid /\ mgr.last # NoIp => PolledManager.invalidated = mgr.last
    BY <1>1, <1>2 DEF Managers
  <1>5. GoodPortal(PolledManager)  BY <1>3 DEF WifiInv, GoodPortal
  <1>6. Lost = PolledManager
        \/ Lost = [PolledManager EXCEPT !.mode = "STA_CONNECTING", !.phase = "ATTEMPT"]
    BY DEF Lost
  <1>7. /\ Lost \in Managers /\ Lost.ap = mgr.ap /\ Lost.ever = mgr.ever
        /\ Lost.fallback = mgr.fallback /\ Lost.mode \in {mgr.mode, "STA_CONNECTING"}
        /\ Lost.invalidated = PolledManager.invalidated
    BY <1>3, <1>6 DEF Managers
  <1>8. GoodPortal(Lost)  BY <1>7 DEF WifiInv, GoodPortal
  <1> QED  BY <1>3, <1>4, <1>5, <1>7, <1>8

\* The access point is only started before the first success.
LEMMA APOutcomeGood ==
    ASSUME NEW m \in Managers, GoodPortal(m), NEW wanted, wanted => ~m.ever,
           NEW n \in APOutcomes(m, wanted)
    PROVE  n \in Managers /\ GoodPortal(n) /\ n.invalidated = m.invalidated /\ n.ever = m.ever
           /\ (m.ap => n.ap)
  <1>1. CASE n = m  BY <1>1
  <1>2. CASE wanted /\ n = [m EXCEPT !.ap = TRUE, !.mode = "AP_CONFIG"]
    <2>1. n \in Managers /\ n.ap /\ n.mode = "AP_CONFIG" /\ n.ever = m.ever
          /\ n.invalidated = m.invalidated
      BY <1>2 DEF Managers
    <2> QED  BY <1>2, <2>1 DEF GoodPortal
  <1> QED  BY <1>1, <1>2 DEF APOutcomes

LEMMA APRetryEarly ==
    ASSUME WifiInv, APRetry
    PROVE  ~Lost.ever
  BY PolledGood DEF APRetry, WifiInv, GoodPortal

\* What every kind of pass leaves.
PassGood ==
    /\ mgr' \in Managers /\ GoodPortal(mgr)' /\ portal' \in BOOLEAN /\ (portal' <=> mgr'.ap)
    /\ mgr'.invalidated = PolledManager.invalidated /\ (mgr.ever => mgr'.ever)
    /\ drv' \in WifiDrivers /\ due' \subseteq WifiTimers
    /\ callbacks' \in Seq(StationEvents) /\ Len(callbacks') <= MaxCallbacks

LEMMA UsableGood == ASSUME WifiInv, ssid' = ssid, UsablePass PROVE PassGood
  <1> DEFINE m == [PolledManager EXCEPT !.last = drv.ip]
  <1>1. /\ PolledManager \in Managers /\ GoodPortal(PolledManager) /\ PolledManager.ap = mgr.ap
        /\ PolledManager.ever = mgr.ever
    BY PolledGood
  <1>2. /\ m \in Managers /\ m.ap = mgr.ap /\ m.ever = mgr.ever
        /\ m.invalidated = PolledManager.invalidated /\ m.mode = PolledManager.mode
        /\ m.fallback = PolledManager.fallback
    BY <1>1, WifiTypes DEF Managers, WifiDrivers
  <1>3. ssid /\ portal \in BOOLEAN /\ (portal <=> mgr.ap) /\ mgr.ap \in BOOLEAN
    BY WifiTypes DEF UsablePass, WifiInv, Managers
  <1>4. GoodPortal(m)  BY <1>1, <1>2 DEF GoodPortal
  <1> HIDE DEF m
  <1>5. /\ drv' \in WifiDrivers /\ callbacks' \in Seq(StationEvents) /\ Len(callbacks') <= MaxCallbacks
    BY WifiTypes DEF UsablePass, WifiInv, WifiTypeOK
  <1>6. due' \subseteq WifiTimers  BY DEF UsablePass, WifiInv, WifiTypeOK
  <1>7. CASE mgr' = m /\ portal' = portal
    BY <1>2, <1>3, <1>4, <1>5, <1>6, <1>7 DEF PassGood, GoodPortal
  <1>8. CASE mgr' = [m EXCEPT !.stopFailed = TRUE] /\ portal' = portal
    <2>1. mgr' \in Managers /\ mgr'.ap = m.ap /\ mgr'.ever = m.ever /\ mgr'.mode = m.mode
          /\ mgr'.fallback = m.fallback /\ mgr'.invalidated = m.invalidated
      BY <1>2, <1>8 DEF Managers
    <2> QED  BY <1>2, <1>3, <1>4, <1>5, <1>6, <1>8, <2>1 DEF PassGood, GoodPortal
  <1>9. CASE /\ mgr' = [m EXCEPT !.ap = FALSE, !.stopFailed = IF m.ap THEN FALSE ELSE @,
                            !.mode = "STA_CONNECTED", !.ever = TRUE, !.fallback = FALSE,
                            !.failures = 0]
             /\ portal' = (portal /\ ~m.ap)
    <2> DEFINE stopFailed == IF m.ap THEN FALSE ELSE m.stopFailed
    <2>a. stopFailed \in BOOLEAN  BY <1>2 DEF Managers
    <2>b. mgr' = [m EXCEPT !.ap = FALSE, !.stopFailed = stopFailed, !.mode = "STA_CONNECTED",
                           !.ever = TRUE, !.fallback = FALSE, !.failures = 0]
      BY <1>9, Zenon
    <2> HIDE DEF stopFailed
    <2>d. 0 \in FailureCounts  BY DEF FailureCounts
    <2>c. mgr' \in Managers  BY <1>2, <2>a, <2>b, <2>d DEF Managers
    <2>1. mgr' \in Managers /\ ~mgr'.ap /\ mgr'.ever /\ ~mgr'.fallback
          /\ mgr'.invalidated = m.invalidated
      BY <1>2, <2>b, <2>c DEF Managers
    <2>2. portal' = FALSE  BY <1>2, <1>3, <1>9
    <2> QED  BY <1>2, <1>3, <1>5, <1>6, <2>1, <2>2 DEF PassGood, GoodPortal
  <1> QED  BY <1>7, <1>8, <1>9 DEF UsablePass, m

LEMMA LostDueType == ASSUME WifiInv PROVE LostDue \subseteq WifiTimers
  BY DEF LostDue, WifiInv, WifiTypeOK

\* A pass that only may start the access point.
LEMMA WaitGood == ASSUME WifiInv, ssid' = ssid, SetupPass \/ WaitPass PROVE PassGood
  <1>1. mgr' \in APOutcomes(Lost, APRetry) /\ portal' = (portal \/ mgr'.ap)
        /\ UNCHANGED <<drv, callbacks>> /\ due' \subseteq LostDue
    BY DEF SetupPass, WaitPass
  <1>2. /\ Lost \in Managers /\ GoodPortal(Lost) /\ Lost.ap = mgr.ap /\ Lost.ever = mgr.ever
        /\ Lost.invalidated = PolledManager.invalidated
    BY PolledGood
  <1>3. /\ mgr' \in Managers /\ GoodPortal(mgr') /\ mgr'.invalidated = Lost.invalidated
        /\ mgr'.ever = Lost.ever /\ (Lost.ap => mgr'.ap)
    BY <1>1, <1>2, APRetryEarly, APOutcomeGood
  <1>4. mgr'.ap \in BOOLEAN /\ (portal <=> mgr.ap) /\ portal \in BOOLEAN
    BY <1>3, WifiTypes DEF Managers, WifiInv
  <1>5. portal' \in BOOLEAN /\ (portal' <=> mgr'.ap)  BY <1>1, <1>2, <1>3, <1>4
  <1>6. GoodPortal(mgr)'  BY <1>3 DEF GoodPortal
  <1>7. /\ drv' \in WifiDrivers /\ callbacks' \in Seq(StationEvents) /\ Len(callbacks') <= MaxCallbacks
    BY <1>1, WifiTypes DEF WifiInv, WifiTypeOK
  <1> QED  BY <1>1, <1>2, <1>3, <1>5, <1>6, <1>7, LostDueType DEF PassGood

\* The end of an attempt opens the access point before the first success only.
LEMMA DeadlineGood == ASSUME WifiInv, ssid' = ssid, DeadlinePass PROVE PassGood
  <1> DEFINE opening == APRetry \/ (~Lost.ever /\ ~Lost.ap)
  <1>1. PICK m \in APOutcomes(Lost, opening) :
          mgr' = [m EXCEPT !.phase = "BACKOFF", !.failures = (@ + 1) % 3,
                           !.fallback = @ \/ (~m.ever /\ ~Lost.ap)]
    BY DEF DeadlinePass
  <1>2. portal' = (portal \/ mgr'.ap) /\ UNCHANGED <<drv, callbacks>> /\ due' \subseteq LostDue /\ ssid
    BY DEF DeadlinePass
  <1>3. /\ Lost \in Managers /\ GoodPortal(Lost) /\ Lost.ap = mgr.ap /\ Lost.ever = mgr.ever
        /\ Lost.invalidated = PolledManager.invalidated
    BY PolledGood
  <1>4. opening => ~Lost.ever  BY APRetryEarly
  <1> HIDE DEF opening
  <1>5. /\ m \in Managers /\ GoodPortal(m) /\ m.invalidated = Lost.invalidated
        /\ m.ever = Lost.ever /\ (Lost.ap => m.ap)
    BY <1>3, <1>4, APOutcomeGood
  <1>6. (m.failures + 1) % 3 \in FailureCounts
    <2>1. m.failures \in FailureCounts  BY <1>5 DEF Managers
    <2> QED  BY <2>1 DEF FailureCounts
  <1>7. /\ mgr' \in Managers /\ mgr'.ap = m.ap /\ mgr'.ever = m.ever /\ mgr'.mode = m.mode
        /\ mgr'.invalidated = m.invalidated /\ (mgr'.fallback => m.fallback \/ ~m.ever)
    BY <1>1, <1>5, <1>6 DEF Managers
  <1>8. GoodPortal(mgr)'  BY <1>2, <1>5, <1>7 DEF GoodPortal
  <1>9. portal \in BOOLEAN /\ (portal <=> mgr.ap) /\ mgr'.ap \in BOOLEAN
    BY <1>7, WifiTypes DEF WifiInv, Managers
  <1>10. portal' \in BOOLEAN /\ (portal' <=> mgr'.ap)  BY <1>2, <1>3, <1>5, <1>7, <1>9
  <1>11. /\ drv' \in WifiDrivers /\ callbacks' \in Seq(StationEvents) /\ Len(callbacks') <= MaxCallbacks
    BY <1>2, WifiTypes DEF WifiInv, WifiTypeOK
  <1> QED  BY <1>2, <1>3, <1>5, <1>7, <1>8, <1>10, <1>11, LostDueType DEF PassGood

\* A new attempt and a restart of the station leave the access point as it is.
LEMMA RetryGood == ASSUME WifiInv, ssid' = ssid, RetryPass PROVE PassGood
  <1>1. PICK m \in APOutcomes(Lost, APRetry) :
          portal' = (portal \/ m.ap) /\ (StopStation(m) \/ attemptSTA(m))
    BY DEF RetryPass
  <1>2. due' \subseteq LostDue /\ ssid  BY DEF RetryPass
  <1>3. /\ Lost \in Managers /\ GoodPortal(Lost) /\ Lost.ap = mgr.ap /\ Lost.ever = mgr.ever
        /\ Lost.invalidated = PolledManager.invalidated
    BY PolledGood
  <1>4. /\ m \in Managers /\ GoodPortal(m) /\ m.invalidated = Lost.invalidated
        /\ m.ever = Lost.ever /\ (Lost.ap => m.ap)
    BY <1>3, APRetryEarly, APOutcomeGood
  <1>5. /\ mgr' \in Managers /\ mgr'.ap = m.ap /\ mgr'.ever = m.ever /\ mgr'.fallback = m.fallback
        /\ mgr'.invalidated = m.invalidated /\ mgr'.mode \in {m.mode, "AP_CONFIG", "STA_CONNECTING"}
    BY <1>1, <1>4 DEF StopStation, attemptSTA, Managers
  <1>6. GoodPortal(mgr)'  BY <1>2, <1>4, <1>5 DEF GoodPortal
  <1>7. portal \in BOOLEAN /\ (portal <=> mgr.ap) /\ m.ap \in BOOLEAN
    BY <1>4, WifiTypes DEF WifiInv, Managers
  <1>8. portal' \in BOOLEAN /\ (portal' <=> mgr'.ap)  BY <1>1, <1>3, <1>4, <1>5, <1>7
  <1>9. drv' \in WifiDrivers
    <2>1. CASE StopStation(m)
      <3>1. drv' = drv \/ drv' = DriverOff  BY <2>1, Zenon DEF StopStation
      <3>2. DriverOff \in WifiDrivers  BY NoIps DEF DriverOff, WifiDrivers
      <3> QED  BY <3>1, <3>2, WifiTypes
    <2>2. CASE attemptSTA(m)
      <3>1. drv' \in {drv} \union {[trying |-> b, ip |-> NoIp] : b \in BOOLEAN}
        BY <2>2 DEF attemptSTA, StationAttempts
      <3>2. \A b \in BOOLEAN : [trying |-> b, ip |-> NoIp] \in WifiDrivers  BY NoIps DEF WifiDrivers
      <3> QED  BY <3>1, <3>2, WifiTypes
    <2> QED  BY <1>1, <2>1, <2>2
  <1>10. callbacks' \in Seq(StationEvents) /\ Len(callbacks') <= MaxCallbacks
    <2>1. callbacks' = callbacks \/ Post("STOP") \/ Post("DISCONNECTED")
      BY <1>1 DEF StopStation, attemptSTA
    <2> QED  BY <2>1, PostKeeps DEF WifiInv, WifiTypeOK, StationEvents
  <1> QED  BY <1>2, <1>3, <1>4, <1>5, <1>6, <1>8, <1>9, <1>10, LostDueType DEF PassGood

LEMMA WifiLoopKeeps == ASSUME WifiInv, WifiLoop PROVE WifiInv'
  <1>1. /\ wpc = "wifi" /\ wpc' = "tcp" /\ pending' = NoEvents /\ UNCHANGED <<ssid, tcp, incoming>>
    BY DEF WifiLoop
  <1>2. PassGood
    BY <1>1, UsableGood, WaitGood, DeadlineGood, RetryGood DEF WifiLoop
  <1>3. StaleKnown'
    <2> SUFFICES ASSUME tcp.client.stale
                 PROVE  tcp.client.session # 0 /\ mgr'.invalidated = tcp.client.ip
      BY <1>1 DEF StaleKnown
    <2>1. tcp.client.session # 0 /\ pending.invalid /\ tcp.client.ip = mgr.last
      BY <1>1 DEF WifiInv, StaleKnown
    <2>2. mgr.last # NoIp  BY <2>1 DEF WifiInv, GoodServer
    <2> QED  BY <1>2, <2>1, <2>2, PolledGood DEF PassGood
  <1>4. pending' \in [invalid : BOOLEAN, state : BOOLEAN, down : BOOLEAN]
    BY <1>1 DEF NoEvents
  <1>5. GoodServer(tcp)' /\ incoming' \in Addresses
        /\ (incoming' # NoIp => tcp'.accepted < MaxSessions) /\ (tcp'.started => mgr'.ever)
        /\ ssid' \in BOOLEAN
    BY <1>1, <1>2, WifiTypes DEF WifiInv, PassGood, GoodServer
  <1> QED  BY <1>1, <1>2, <1>3, <1>4, <1>5, WifiInvFrom DEF PassGood

-----------------------------------------------------------------------------
(* The driver, the event task, the peers and the restart of begin().       *)

\* An event that invalidates the recorded address makes the session on it stale.
LEMMA DeliverKeeps == ASSUME WifiInv, Deliver PROVE WifiInv'
  <1> DEFINE stale == tcp.client.stale \/ (pending'.invalid /\ tcp.client.session # 0
                                           /\ tcp.client.ip = mgr.last)
  <1>1. /\ callbacks # <<>> /\ callbacks' = Tail(callbacks)
        /\ pending' = onWiFiEvent(pending, Head(callbacks))
        /\ tcp' = [tcp EXCEPT !.client.stale = stale]
        /\ UNCHANGED <<ssid, drv, mgr, due, portal, incoming, wpc>>
    BY DEF Deliver
  <1>2. callbacks \in Seq(StationEvents) /\ Len(callbacks) <= MaxCallbacks
        /\ pending \in [invalid : BOOLEAN, state : BOOLEAN, down : BOOLEAN]
    BY DEF WifiInv, WifiTypeOK
  <1>3. callbacks' \in Seq(StationEvents) /\ Len(callbacks') <= MaxCallbacks
    BY <1>1, <1>2, BoundsAssumption
  <1>4. pending' \in [invalid : BOOLEAN, state : BOOLEAN, down : BOOLEAN]
        /\ (pending.invalid => pending'.invalid)
    BY <1>1, <1>2 DEF onWiFiEvent
  <1>5. tcp \in Servers /\ tcp.client \in Clients  BY WifiTypes
  <1>6. stale \in BOOLEAN  BY <1>4, <1>5 DEF Clients
  <1>7. stale => \/ tcp.client.stale
                 \/ pending'.invalid /\ tcp.client.session # 0 /\ tcp.client.ip = mgr.last
    OBVIOUS
  <1> HIDE DEF stale
  <1>8. tcp' \in Servers /\ (tcp'.client.stale <=> stale)
        /\ tcp'.client.session = tcp.client.session /\ tcp'.client.ip = tcp.client.ip
        /\ tcp'.auth = tcp.auth /\ tcp'.parser = tcp.parser
        /\ tcp'.accepted = tcp.accepted /\ tcp'.started = tcp.started
    BY <1>1, <1>5, <1>6 DEF Servers, Clients
  <1>9. GoodServer(tcp)'  BY <1>8 DEF WifiInv, GoodServer
  <1>10. StaleKnown'  BY <1>1, <1>4, <1>7, <1>8 DEF WifiInv, StaleKnown
  <1>11. /\ ssid' \in BOOLEAN /\ portal' \in BOOLEAN /\ drv' \in WifiDrivers /\ mgr' \in Managers
         /\ due' \subseteq WifiTimers /\ incoming' \in Addresses /\ wpc' \in {"wifi", "tcp"}
    BY <1>1, WifiTypes DEF WifiInv, WifiTypeOK
  <1>12. /\ incoming' # NoIp => tcp'.accepted < MaxSessions
         /\ GoodPortal(mgr)' /\ (portal' <=> mgr'.ap) /\ (tcp'.started => mgr'.ever)
    BY <1>1, <1>8 DEF WifiInv, GoodPortal
  <1> QED  BY <1>3, <1>4, <1>9, <1>10, <1>11, <1>12, WifiInvFrom

\* What only the driver, the peers or the clock change.
LEMMA OutsideKeeps ==
    ASSUME WifiInv, UNCHANGED <<ssid, pending, mgr, portal, wpc>>,
           drv' \in WifiDrivers, callbacks' \in Seq(StationEvents), Len(callbacks') <= MaxCallbacks,
           due' \subseteq WifiTimers, GoodServer(tcp)', incoming' \in Addresses,
           incoming' # NoIp => tcp'.accepted < MaxSessions, tcp'.started = tcp.started,
           tcp'.client.stale => /\ tcp.client.stale
                                /\ tcp'.client.session = tcp.client.session
                                /\ tcp'.client.ip = tcp.client.ip
    PROVE  WifiInv'
  <1>1. StaleKnown'  BY DEF WifiInv, StaleKnown
  <1>2. GoodPortal(mgr)' /\ (portal' <=> mgr'.ap) /\ (tcp'.started => mgr'.ever)
    BY DEF WifiInv, GoodPortal
  <1>3. /\ ssid' \in BOOLEAN /\ portal' \in BOOLEAN /\ mgr' \in Managers /\ wpc' \in {"wifi", "tcp"}
        /\ pending' \in [invalid : BOOLEAN, state : BOOLEAN, down : BOOLEAN]
    BY WifiTypes DEF WifiInv, WifiTypeOK
  <1> QED  BY <1>1, <1>2, <1>3, WifiInvFrom

LEMMA DriverKeeps ==
    ASSUME WifiInv, Connect \/ Renew \/ Disconnect \/ LoseIp
    PROVE  WifiInv'
  <1>1. UNCHANGED <<ssid, pending, mgr, due, portal, wpc, tcp, incoming>>
    BY DEF Connect, Renew, Disconnect, LoseIp, DriverOnly
  <1>2. drv \in WifiDrivers  BY WifiTypes
  <1>3. drv' \in WifiDrivers
    BY <1>2, NoIps DEF Connect, Renew, Disconnect, LoseIp, WifiDrivers
  <1>4. \E e \in StationEvents : Post(e)
    BY DEF Connect, Renew, Disconnect, LoseIp, StationEvents
  <1>5. callbacks' \in Seq(StationEvents) /\ Len(callbacks') <= MaxCallbacks
    BY <1>4, PostKeeps
  <1>6. /\ due' \subseteq WifiTimers /\ GoodServer(tcp)' /\ incoming' \in Addresses
        /\ incoming' # NoIp => tcp'.accepted < MaxSessions
    BY <1>1, WifiTypes DEF WifiInv, WifiTypeOK, GoodServer
  <1> QED  BY <1>1, <1>3, <1>5, <1>6, OutsideKeeps

LEMMA PeersKeep ==
    ASSUME WifiInv, Peer \/ \E t \in WifiTimers : Elapse(t)
    PROVE  WifiInv'
  <1>1. UNCHANGED <<ssid, drv, callbacks, pending, mgr, portal, wpc>>
    BY DEF Peer, PeerComes, PeerGoes, DriverOnly, Elapse
  <1>2. /\ drv' \in WifiDrivers /\ callbacks' \in Seq(StationEvents) /\ Len(callbacks') <= MaxCallbacks
        /\ tcp \in Servers /\ tcp.client \in Clients /\ drv \in WifiDrivers
    BY <1>1, WifiTypes DEF WifiInv, WifiTypeOK
  <1>3. CASE PeerComes
    <2>1. /\ UNCHANGED <<tcp, due>> /\ incoming' = drv.ip /\ tcp.accepted < MaxSessions
      BY <1>3 DEF PeerComes, DriverOnly
    <2>2. GoodServer(tcp)' /\ incoming' \in Addresses /\ due' \subseteq WifiTimers
      BY <1>2, <2>1 DEF WifiInv, WifiTypeOK, GoodServer, WifiDrivers
    <2> QED  BY <1>1, <1>2, <2>1, <2>2, OutsideKeeps
  <1>4. CASE PeerGoes
    <2>1. /\ UNCHANGED <<incoming, due>> /\ tcp' = [tcp EXCEPT !.client.alive = FALSE]
      BY <1>4 DEF PeerGoes, DriverOnly
    <2>2. tcp' \in Servers /\ (tcp'.client.stale <=> tcp.client.stale)
          /\ tcp'.client.session = tcp.client.session /\ tcp'.client.ip = tcp.client.ip
          /\ tcp'.auth = tcp.auth /\ tcp'.parser = tcp.parser
          /\ tcp'.accepted = tcp.accepted /\ tcp'.started = tcp.started
      BY <1>2, <2>1 DEF Servers, Clients
    <2>3. GoodServer(tcp)'  BY <2>2 DEF WifiInv, GoodServer
    <2>4. incoming' \in Addresses /\ due' \subseteq WifiTimers
          /\ (incoming' # NoIp => tcp'.accepted < MaxSessions)
      BY <2>1, <2>2 DEF WifiInv, WifiTypeOK
    <2> QED  BY <1>1, <1>2, <2>2, <2>3, <2>4, OutsideKeeps
  <1>5. CASE \E t \in WifiTimers : Elapse(t)
    <2>1. UNCHANGED <<tcp, incoming>> /\ due' \subseteq WifiTimers
      BY <1>5 DEF Elapse, WifiInv, WifiTypeOK
    <2>2. GoodServer(tcp)' /\ incoming' \in Addresses
          /\ (incoming' # NoIp => tcp'.accepted < MaxSessions)
      BY <2>1, WifiTypes DEF WifiInv, GoodServer
    <2> QED  BY <1>1, <1>2, <2>1, <2>2, OutsideKeeps
  <1> QED  BY <1>3, <1>4, <1>5 DEF Peer

\* What begin() starts from.
LEMMA FreshTypes ==
    /\ FreshServer \in Servers /\ FreshServer.client = NoClient /\ ~FreshServer.started
    /\ GoodServer(FreshServer)
    /\ \A ap \in BOOLEAN, mode \in {"STA_CONNECTING", "AP_CONFIG"} :
         LET m == [FreshManager EXCEPT !.mode = mode, !.ap = ap]
         IN m \in Managers /\ GoodPortal(m) /\ (m.ap <=> ap)
    /\ LET m == [FreshManager EXCEPT !.mode = "STA_CONNECTING"]
       IN m \in Managers /\ GoodPortal(m) /\ ~m.ap
    /\ DriverOff \in WifiDrivers /\ BootAttempt \subseteq WifiDrivers
  <1>1. FreshServer \in Servers
    BY NoClientType, BoundsAssumption DEF FreshServer, Servers
  <1>2. FreshServer.client = NoClient /\ ~FreshServer.started /\ FreshServer.auth = 0
        /\ FreshServer.parser = 0
    BY DEF FreshServer
  <1>3. GoodServer(FreshServer)  BY <1>1, <1>2, NoClientType DEF GoodServer
  <1>4. ASSUME NEW ap \in BOOLEAN, NEW mode \in {"STA_CONNECTING", "AP_CONFIG"}
        PROVE  LET m == [FreshManager EXCEPT !.mode = mode, !.ap = ap]
               IN m \in Managers /\ GoodPortal(m) /\ (m.ap <=> ap)
    <2> DEFINE m == [FreshManager EXCEPT !.mode = mode, !.ap = ap]
    <2>1. 0 \in FailureCounts  BY DEF FailureCounts
    <2>2. m \in Managers /\ m.mode = mode /\ (m.ap <=> ap) /\ ~m.ever
      BY <2>1, NoIps DEF FreshManager, Managers
    <2> HIDE DEF m
    <2>3. GoodPortal(m)  BY <2>2 DEF GoodPortal
    <2> QED  BY <2>2, <2>3 DEF m
  <1>5. LET m == [FreshManager EXCEPT !.mode = "STA_CONNECTING"]
        IN m \in Managers /\ GoodPortal(m) /\ ~m.ap
    <2> DEFINE m == [FreshManager EXCEPT !.mode = "STA_CONNECTING"]
    <2>1. 0 \in FailureCounts  BY DEF FailureCounts
    <2>2. m \in Managers /\ m.mode = "STA_CONNECTING" /\ ~m.ap /\ ~m.ever
      BY <2>1, NoIps DEF FreshManager, Managers
    <2> HIDE DEF m
    <2>3. GoodPortal(m)  BY <2>2 DEF GoodPortal
    <2> QED  BY <2>2, <2>3 DEF m
  <1>6. DriverOff \in WifiDrivers /\ BootAttempt \subseteq WifiDrivers
    BY NoIps DEF DriverOff, BootAttempt, WifiDrivers
  <1> QED  BY <1>1, <1>2, <1>3, <1>4, <1>5, <1>6

LEMMA PortalSaveKeeps == ASSUME WifiInv, PortalSave PROVE WifiInv'
  <1>1. /\ ssid' = TRUE /\ portal' = FALSE /\ due' = {} /\ callbacks' = <<>> /\ pending' = NoEvents
        /\ tcp' = FreshServer /\ incoming' = NoIp /\ wpc' = wpc /\ drv' \in BootAttempt
        /\ mgr' = [FreshManager EXCEPT !.mode = "STA_CONNECTING"]
    BY DEF PortalSave
  <1> DEFINE m == [FreshManager EXCEPT !.mode = "STA_CONNECTING"]
  <1>2. m \in Managers /\ GoodPortal(m) /\ ~m.ap  BY FreshTypes
  <1> HIDE DEF m
  <1>3. mgr' \in Managers /\ mgr'.ever = m.ever /\ mgr'.mode = m.mode /\ ~mgr'.ap
        /\ mgr'.fallback = m.fallback
    BY <1>1, <1>2 DEF m
  <1>4. GoodPortal(mgr)'  BY <1>1, <1>2, <1>3 DEF GoodPortal
  <1>5. GoodServer(tcp)' /\ StaleKnown' /\ ~tcp'.started
    BY <1>1, FreshTypes, NoClientType DEF GoodServer, StaleKnown
  <1>6. callbacks' \in Seq(StationEvents) /\ Len(callbacks') <= MaxCallbacks
    BY <1>1, BoundsAssumption
  <1>7. /\ pending' \in [invalid : BOOLEAN, state : BOOLEAN, down : BOOLEAN]
        /\ ssid' \in BOOLEAN /\ portal' \in BOOLEAN /\ ~portal' /\ due' \subseteq WifiTimers
        /\ incoming' \in Addresses /\ ~(incoming' # NoIp) /\ wpc' \in {"wifi", "tcp"}
        /\ drv' \in WifiDrivers
    BY <1>1, NoIps, FreshTypes, WifiTypes DEF NoEvents
  <1> QED  BY <1>3, <1>4, <1>5, <1>6, <1>7, WifiInvFrom

LEMMA WifiStarts == WifiInit => WifiInv
  <1> SUFFICES ASSUME WifiInit PROVE WifiInv
    OBVIOUS
  <1>1. \/ mgr = [FreshManager EXCEPT !.mode = "STA_CONNECTING"]
        \/ \E ap \in BOOLEAN : mgr = [FreshManager EXCEPT !.mode = "AP_CONFIG", !.ap = ap]
    BY DEF WifiInit
  <1>3. mgr \in Managers /\ GoodPortal(mgr)  BY <1>1, FreshTypes
  <1>4. /\ ssid \in BOOLEAN /\ portal = mgr.ap /\ callbacks = <<>> /\ pending = NoEvents /\ due = {}
        /\ tcp = FreshServer /\ incoming = NoIp /\ wpc = "wifi" /\ drv \in WifiDrivers
    BY FreshTypes DEF WifiInit
  <1>5. portal \in BOOLEAN /\ (portal <=> mgr.ap)  BY <1>3, <1>4 DEF Managers
  <1>6. callbacks \in Seq(StationEvents) /\ Len(callbacks) <= MaxCallbacks
    BY <1>4, BoundsAssumption
  <1>7. pending \in [invalid : BOOLEAN, state : BOOLEAN, down : BOOLEAN]  BY <1>4 DEF NoEvents
  <1>8. GoodServer(tcp) /\ StaleKnown /\ ~tcp.started
    BY <1>4, FreshTypes, NoClientType DEF StaleKnown
  <1>9. WifiTypeOK
    BY <1>3, <1>4, <1>5, <1>6, <1>7, <1>8, NoIps
       DEF WifiTypeOK, GoodServer, Managers, FailureCounts, Servers, Clients, WifiDrivers
  <1> QED  BY <1>3, <1>4, <1>5, <1>8, <1>9 DEF WifiInv

LEMMA WifiKeeps == WifiInv /\ [WifiNext]_wifiVars => WifiInv'
  <1>1. ASSUME WifiInv, UNCHANGED wifiVars PROVE WifiInv'
    BY <1>1 DEF wifiVars, WifiInv, WifiTypeOK, GoodServer, StaleKnown, GoodPortal
  <1> QED
    BY <1>1, DeliverKeeps, DriverKeeps, PeersKeep, WifiLoopKeeps, NetworkPassKeeps, PortalSaveKeeps
       DEF WifiNext, Driver, WifiFirmware

LEMMA WifiInvariant == WifiSpec => []WifiInv
  BY WifiStarts, WifiKeeps, PTL DEF WifiSpec

\* The variables of the Wi-Fi side keep their types.
THEOREM WifiTypeCorrect == WifiSpec => []WifiTypeOK
  <1>1. WifiInv => WifiTypeOK  BY DEF WifiInv
  <1> QED  BY <1>1, WifiInvariant, PTL

\* wifi_manager.cpp, main.cpp: once an event says that the address may be gone, the
\* session accepted on it is dropped before the loop reads another byte of it, for any
\* number of queued events, reconnects and address changes.
THEOREM StaleSessionAlwaysDropped == WifiSpec => []StaleSessionDropped
  <1>1. WifiInv => StaleSessionDropped  BY DEF WifiInv, StaleKnown, StaleSessionDropped
  <1> QED  BY <1>1, WifiInvariant, PTL

\* tcp_server.cpp: neither the parser nor the login of a client reaches the next one.
THEOREM SessionStateNeverShared == WifiSpec => []SessionStateIsItsOwn
  <1>1. WifiInv => SessionStateIsItsOwn  BY DEF WifiInv, GoodServer, SessionStateIsItsOwn
  <1> QED  BY <1>1, WifiInvariant, PTL

\* wifi_manager.cpp: after the first success the setup access point and its portal never
\* come back, whatever is lost, and they have left port 80 before the servers start.
THEOREM SetupPortalStaysClosed == WifiSpec => []SetupPortalClosed
  <1>1. WifiInv => SetupPortalClosed  BY DEF WifiInv, GoodPortal, SetupPortalClosed
  <1> QED  BY <1>1, WifiInvariant, PTL
-----------------------------------------------------------------------------
(* The on-board Ethernet of an ESP32-P4 *)

LEMMA EthernetStartsTyped == EthernetInit => EthernetTypeOK
  BY EthernetAssumption DEF EthernetInit, EthernetTypeOK, EthernetAddresses

LEMMA EthernetKeeps == EthernetTypeOK /\ [EthernetNext]_ethernetVars => EthernetTypeOK'
  <1> SUFFICES ASSUME EthernetTypeOK, [EthernetNext]_ethernetVars PROVE EthernetTypeOK'
    OBVIOUS
  <1>1. 0 \in EthernetAddresses  BY EthernetAssumption DEF EthernetAddresses
  <1>2. CASE EthernetStarts \/ CableMoves \/ StationMoves \/ UNCHANGED ethernetVars
    BY <1>2 DEF EthernetStarts, CableMoves, StationMoves, ethernetVars, EthernetTypeOK
  <1>3. CASE EthernetWaitEnds \/ EthernetRefreshed
    BY <1>3 DEF EthernetWaitEnds, EthernetRefreshed, EthernetTypeOK
  <1>4. CASE InterfaceChosen
    BY <1>1, <1>4 DEF InterfaceChosen, EthernetEnded, EthernetTypeOK
  <1>5. CASE SetupEnds \/ LazyServers
    BY <1>5 DEF SetupEnds, LazyServers, ServersStarted, ethernetHasIP, EthernetTypeOK
  <1>6. CASE StatusDrawn
    <2>1. StatusTags \subseteq {"AP", "WiFi", "ETH", "ETHL", "..."}  BY DEF StatusTags
    <2>2. PICK tag \in StatusTags \union {emac.status} :
            emac' = [emac EXCEPT !.status = tag, !.phase = "refresh"]
      BY <1>6 DEF StatusDrawn
    <2>3. tag \in {"BOOT", "AP", "WiFi", "ETH", "ETHL", "..."}
      BY <2>1, <2>2 DEF EthernetTypeOK
    <2> QED  BY <2>2, <2>3 DEF EthernetTypeOK
  <1>7. CASE LeaseChanges
    BY <1>7 DEF LeaseChanges, EthernetTypeOK
  <1> QED
    BY <1>2, <1>3, <1>4, <1>5, <1>6, <1>7 DEF EthernetNext, EthernetFirmware

\* The on-board Ethernet keeps its types, and its cached address is always one that was
\* leased or none (ethernet_manager.cpp).
THEOREM EthernetTypeCorrect == EthernetSpec => []EthernetTypeOK
  BY EthernetStartsTyped, EthernetKeeps, PTL DEF EthernetSpec
=============================================================================
