----------------------------- MODULE ConfigStore -----------------------------
(***************************************************************************)
(* The dual-slot configuration store of the RAK4631                        *)
(* (rak4631_config_store.cpp) on the nRF52 flash, as Rak4631Config drives  *)
(* it (rak4631_config.cpp): begin() loads once per boot, saveConfig() and  *)
(* factoryReset() write the slot that is not in use.                       *)
(*                                                                         *)
(* A write erases a page, programs it word by word and verifies it; power  *)
(* can go in the middle of each, and each flash call can fail.  Generations*)
(* are uint32_t: they wrap at 2 * HalfRange.                               *)
(***************************************************************************)
EXTENDS Naturals

CONSTANTS
    Configs,    \* normalized configurations
    Empty,      \* no configuration: platform defaults; also a tombstone record
    NoRecord,   \* slot contents that readSlot() finds invalid
    HalfRange   \* 2^31

ASSUME ValueAssumption == Empty \notin Configs
ASSUME RangeAssumption == HalfRange \in Nat /\ HalfRange > 1

Values == Configs \cup {Empty}
Generations == 0 .. 2 * HalfRange - 1
Slots == {"A", "B"}
Records == [gen : Generations, value : Values]

ASSUME RecordAssumption == NoRecord \notin Records

VARIABLES
    pc,                 \* "off", "idle", or the step of writeSlot()
    slot,               \* the two flash pages
    persistenceReady,
    activeConfig,       \* boot snapshot
    hasActive, activeAddress, activeGeneration,
    request,            \* value of the last save or erase
    answer              \* "idle", "ok" or "failed"

ram == <<persistenceReady, activeConfig, hasActive, activeAddress, activeGeneration>>
vars == <<pc, slot, ram, request, answer>>

WritePcs == {"erase", "write", "verify"}
-----------------------------------------------------------------------------
\* Mutant: the generation does not wrap.
FollowingWithoutWrap(g) == g + 1

\* activeGeneration_ + 1u
Following(g) == IF g = 2 * HalfRange - 1 THEN 0 ELSE g + 1

\* Mutant: generations are compared as if they never wrapped.
NewerWithoutWrap(candidate, reference) == candidate > reference

\* newer(): the distance is an unsigned difference.
Newer(candidate, reference) ==
    LET distance == IF candidate >= reference THEN candidate - reference
                    ELSE candidate + 2 * HalfRange - reference
    IN  distance # 0 /\ distance < HalfRange

Valid(s, a) == s[a] # NoRecord

\* load(): the slot it selects among s, and the value found there.
Selected(s) ==
    IF Valid(s, "B") /\ (~Valid(s, "A") \/ Newer(s["B"].gen, s["A"].gen)) THEN "B" ELSE "A"

Loaded(s) == IF Valid(s, "A") \/ Valid(s, "B") THEN s[Selected(s)].value ELSE Empty

\* save() and erase(): the slot not in use, and the generation that follows.
Target == IF hasActive /\ activeAddress = "A" THEN "B" ELSE "A"

\* Mutant: the first record is generation 0 and so is the next one.
NextGenerationStuck == IF hasActive THEN activeGeneration ELSE 0

NextGeneration == IF hasActive THEN Following(activeGeneration) ELSE 1

NewRecord == [gen |-> NextGeneration, value |-> request]
-----------------------------------------------------------------------------
Init ==
    /\ pc = "off"
    /\ slot = [a \in Slots |-> NoRecord]
    /\ persistenceReady = FALSE
    /\ activeConfig = Empty
    /\ hasActive = FALSE /\ activeAddress = "A" /\ activeGeneration = 0
    /\ request = Empty
    /\ answer = "idle"

\* begin(), with the SoftDevice out of the way: load() and take the snapshot.
Begin ==
    /\ pc = "off"
    /\ pc' = "idle"
    /\ persistenceReady' = TRUE
    /\ activeConfig' = Loaded(slot)
    /\ hasActive' = (Valid(slot, "A") \/ Valid(slot, "B"))
    /\ IF hasActive'
       THEN /\ activeAddress' = Selected(slot)
            /\ activeGeneration' = slot[Selected(slot)].gen
       ELSE UNCHANGED activeAddress /\ activeGeneration' = 0
    /\ UNCHANGED <<slot, request, answer>>

\* The SoftDevice could not be disabled: defaults, and every save is refused.
BeginWithoutFlash ==
    /\ pc = "off"
    /\ pc' = "idle"
    /\ UNCHANGED <<slot, ram, request, answer>>

\* saveConfig() and factoryReset() down to writeSlot().
StartWrite(v) ==
    /\ pc = "idle"
    /\ persistenceReady
    /\ pc' = "erase"
    /\ request' = v
    /\ UNCHANGED <<slot, ram, answer>>

\* A configuration that is not valid, or flash that cannot be written now.
Refuse ==
    /\ pc = "idle"
    /\ answer' = "failed"
    /\ UNCHANGED <<pc, slot, ram, request>>

\* erasePage(): done, or the controller timed out with the page erased or not.
Erase ==
    /\ pc = "erase"
    /\ \/ /\ slot' = [slot EXCEPT ![Target] = NoRecord]
          /\ pc' = "write"
          /\ UNCHANGED answer
       \/ /\ slot' \in {slot, [slot EXCEPT ![Target] = NoRecord]}
          /\ pc' = "idle"
          /\ answer' = "failed"
    /\ UNCHANGED <<ram, request>>

\* write(): done, or stopped before or after the last word of the record.
Write ==
    /\ pc = "write"
    /\ \/ /\ slot' = [slot EXCEPT ![Target] = NewRecord]
          /\ pc' = "verify"
          /\ UNCHANGED answer
       \/ /\ slot' \in {slot, [slot EXCEPT ![Target] = NewRecord]}
          /\ pc' = "idle"
          /\ answer' = "failed"
    /\ UNCHANGED <<ram, request>>

\* The readback, and only then the bookkeeping in RAM.
Verify ==
    /\ pc = "verify"
    /\ pc' = "idle"
    /\ IF slot[Target] = NewRecord
       THEN /\ hasActive' = TRUE
            /\ activeAddress' = Target
            /\ activeGeneration' = NextGeneration
            /\ answer' = "ok"
       ELSE /\ answer' = "failed"
            /\ UNCHANGED <<hasActive, activeAddress, activeGeneration>>
    /\ UNCHANGED <<slot, persistenceReady, activeConfig, request>>

\* Power loss or reset; a flash call under way may have had its effect or not.
PowerLoss ==
    /\ pc # "off"
    /\ pc' = "off"
    /\ slot' \in CASE pc = "erase" -> {slot, [slot EXCEPT ![Target] = NoRecord]}
                   [] pc = "write" -> {slot, [slot EXCEPT ![Target] = NewRecord]}
                   [] OTHER -> {slot}
    /\ persistenceReady' = FALSE
    /\ activeConfig' = Empty
    /\ hasActive' = FALSE /\ activeAddress' = "A" /\ activeGeneration' = 0
    /\ answer' = "idle"
    /\ UNCHANGED request

Next ==
    \/ Begin \/ BeginWithoutFlash \/ Refuse
    \/ \E v \in Values : StartWrite(v)
    \/ Erase \/ Write \/ Verify
    \/ PowerLoss

Spec == Init /\ [][Next]_vars
-----------------------------------------------------------------------------
\* Every variable has its type.
TypeOK ==
    /\ pc \in {"off", "idle"} \cup WritePcs
    /\ slot \in [Slots -> Records \cup {NoRecord}]
    /\ persistenceReady \in BOOLEAN
    /\ activeConfig \in Values
    /\ hasActive \in BOOLEAN
    /\ activeAddress \in Slots
    /\ activeGeneration \in Generations
    /\ request \in Values
    /\ answer \in {"idle", "ok", "failed"}

\* Two valid slots are one generation apart, on either side of the wrap, so
\* newer() always tells which one was written last.
GenerationsAdjacent ==
    Valid(slot, "A") /\ Valid(slot, "B") =>
        \/ slot["B"].gen = Following(slot["A"].gen)
        \/ slot["A"].gen = Following(slot["B"].gen)

\* The store is one register that survives power loss ("power-loss-safe dual-slot
\* record", README.md:317).
Settled ==
    IF ~persistenceReady THEN Loaded(slot)
    ELSE IF hasActive THEN slot[activeAddress].value ELSE Empty

Status ==
    IF ~persistenceReady THEN "off" ELSE IF pc \in WritePcs THEN "busy" ELSE answer

Register == INSTANCE ConfigRegister
    WITH status <- Status, settled <- Settled, wanted <- request, loadable <- Loaded(slot)

ImplementsRegister == Register!Spec
=============================================================================
