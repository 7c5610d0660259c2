----------------------------- MODULE Esp32Update -----------------------------
(***************************************************************************)
(* Firmware updates of an ESP32 modem (ota_manager.cpp): POST /update and  *)
(* ArduinoOTA write the slot that is not running and select it; the image  *)
(* then runs on trial, and is kept when a host frame was parsed and two    *)
(* minutes have passed.  A restart before that rolls it back.              *)
(*                                                                         *)
(* The boot loader and the Update library are external: as the comments of *)
(* ota_manager.cpp describe them, a new image boots once as PENDING_VERIFY *)
(* and the next reset goes back to the other slot, unless it was marked    *)
(* valid.  Both kinds of upload run to their end within one call of        *)
(* loop(); only a reset comes between their steps.                         *)
(***************************************************************************)
EXTENDS Naturals

VARIABLES slots,          \* per slot its image and its entry in otadata
          selected,       \* the slot otadata selects
          running,        \* the slot that runs; NoSlot: none can
          manager,        \* started, sawValidFrame, markedValid
          sanityOver,     \* SANITY_TIMEOUT has passed since begin()
          upload,         \* where an upload is
          trialUpload     \* an image on trial began to overwrite the other slot

updateVars == <<slots, selected, running, manager, sanityOver, upload, trialUpload>>

OtaSlots == {0, 1}
NoSlot == 2
OtherSlot(s) == 1 - s

\* "good" answers hosts, "mute" runs and answers none, "crashing" restarts before it
\* serves anything; "partial" is no image the boot loader accepts.
Images == {"good", "mute", "crashing"}
ImageStates == {"VALID", "NEW", "PENDING_VERIFY", "ABORTED"}

Trial == running # NoSlot /\ slots[running].state = "PENDING_VERIFY"
Dependable(sl) == \E s \in OtaSlots : sl[s] = [image |-> "good", state |-> "VALID"]
-----------------------------------------------------------------------------
(* The boot loader: an image still on trial is given up, a new one goes on *)
(* trial, and one that cannot be loaded is passed over.                    *)

GivenUp(sl) == [s \in OtaSlots |-> IF sl[s].state = "PENDING_VERIFY"
                                THEN [sl[s] EXCEPT !.state = "ABORTED"] ELSE sl[s]]
Bootable(sl, s) == sl[s].image \in Images /\ sl[s].state # "ABORTED"
BootChoice(sl) ==
    IF Bootable(sl, selected) THEN selected
    ELSE IF Bootable(sl, OtherSlot(selected)) THEN OtherSlot(selected) ELSE NoSlot
OnTrial(e) == IF e.state = "NEW" THEN [e EXCEPT !.state = "PENDING_VERIFY"] ELSE e

StoppedManager == [started |-> FALSE, sawValidFrame |-> FALSE, markedValid |-> FALSE]

\* ESP.restart(), a crash or a power loss, at any moment; whatever was being uploaded is
\* lost.
Reset ==
    /\ LET sl == GivenUp(slots)
           s == BootChoice(sl)
       IN /\ running' = s
          /\ slots' = IF s = NoSlot THEN sl ELSE [sl EXCEPT ![s] = OnTrial(@)]
          /\ selected' = IF s = NoSlot THEN selected ELSE s
    /\ manager' = StoppedManager
    /\ sanityOver' = FALSE
    /\ upload' = "none"
    /\ UNCHANGED trialUpload
-----------------------------------------------------------------------------
Runs == running # NoSlot /\ slots[running].image # "crashing"
LoopRuns == Runs /\ upload = "none"

ManagerOnly == UNCHANGED <<slots, selected, running, upload, trialUpload>>

\* begin(), when the network is up: what came before does not count.
ManagerBegin ==
    /\ LoopRuns /\ ~manager.started
    /\ manager' = [StoppedManager EXCEPT !.started = TRUE]
    /\ sanityOver' = FALSE
    /\ ManagerOnly

\* notifyValidFrame(), on any transport.
ValidFrame ==
    /\ LoopRuns /\ slots[running].image = "good"
    /\ manager' = [manager EXCEPT !.sawValidFrame = TRUE]
    /\ UNCHANGED sanityOver /\ ManagerOnly

SanityElapses ==
    /\ manager.started /\ sanityOver' = TRUE
    /\ UNCHANGED manager /\ ManagerOnly

\* Mutant: two minutes without a crash are enough.
MayMarkElapsed == sanityOver

MayMark == manager.sawValidFrame /\ sanityOver

\* attemptMarkValid(): it is done once, also when the mark could not be written.
AttemptMarkValid ==
    /\ LoopRuns /\ manager.started /\ ~manager.markedValid
    /\ MayMark
    /\ manager' = [manager EXCEPT !.markedValid = TRUE]
    /\ slots' \in {slots} \union
                  (IF Trial THEN {[slots EXCEPT ![running].state = "VALID"]} ELSE {})
    /\ trialUpload' = (trialUpload /\ ~Dependable(slots'))
    /\ UNCHANGED <<selected, running, sanityOver, upload>>
-----------------------------------------------------------------------------
\* UPLOAD_FILE_START, Update.begin(); it does not ask whether the image is on trial.
UploadStart ==
    /\ LoopRuns /\ manager.started
    /\ upload' = "begun"
    /\ UNCHANGED <<slots, selected, running, manager, sanityOver, trialUpload>>

\* UPLOAD_FILE_WRITE: the first sector that is erased ends what the slot held.
UploadWrite ==
    /\ upload = "begun" /\ upload' = "writing"
    /\ slots' = [slots EXCEPT ![OtherSlot(running)].image = "partial"]
    /\ trialUpload' = (trialUpload \/ Trial)
    /\ UNCHANGED <<selected, running, manager, sanityOver>>

\* UPLOAD_FILE_END, Update.end(true): a whole image is selected.
UploadEnd ==
    /\ upload = "writing" /\ upload' = "ended"
    /\ \E image \in Images :
         slots' = [slots EXCEPT ![OtherSlot(running)] = [image |-> image, state |-> "NEW"]]
    /\ selected' = OtherSlot(running)
    /\ UNCHANGED <<running, manager, sanityOver, trialUpload>>

\* A write or the image is refused, or the client goes: no image is selected.
UploadFails ==
    /\ upload \in {"begun", "writing"} /\ upload' = "none"
    /\ UNCHANGED <<slots, selected, running, manager, sanityOver, trialUpload>>

\* handleUpdateResult(): the answer, then ESP.restart().
UpdateResult == upload = "ended" /\ Reset

\* The running image was flashed over the wire and has proved itself.
UpdateInit ==
    /\ slots = [s \in OtaSlots |-> IF s = 0 THEN [image |-> "good", state |-> "VALID"]
                                ELSE [image |-> "partial", state |-> "ABORTED"]]
    /\ selected = 0 /\ running = 0
    /\ manager = StoppedManager /\ sanityOver = FALSE
    /\ upload = "none" /\ trialUpload = FALSE

UpdateNext ==
    \/ Reset \/ ManagerBegin \/ ValidFrame \/ SanityElapses \/ AttemptMarkValid
    \/ UploadStart \/ UploadWrite \/ UploadEnd \/ UploadFails \/ UpdateResult
UpdateSpec == UpdateInit /\ [][UpdateNext]_updateVars
-----------------------------------------------------------------------------
UpdateTypeOK ==
    /\ slots \in [OtaSlots -> [image : Images \union {"partial"}, state : ImageStates]]
    /\ selected \in OtaSlots /\ running \in OtaSlots \union {NoSlot}
    /\ manager \in [started : BOOLEAN, sawValidFrame : BOOLEAN, markedValid : BOOLEAN]
    /\ sanityOver \in BOOLEAN /\ trialUpload \in BOOLEAN
    /\ upload \in {"none", "begun", "writing", "ended"}

\* However uploads, failures and resets follow each other, one slot holds an image that
\* has answered a host and was marked valid: the modem can always come back to it.
\* The exception is the code's own: an image on trial may take an upload, which
\* overwrites the image it would be rolled back to, before it has proved itself.
KeepsAWorkingImage == ~trialUpload => Dependable(slots)
=============================================================================
