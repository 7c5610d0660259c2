--------------------------- MODULE RakConfigProofs ---------------------------
(***************************************************************************)
(* The configuration of a RAK4631, in flash and in the requests that       *)
(* change it.                                                              *)
(*                                                                         *)
(* The store is one register that survives power loss, for any             *)
(* configurations and any width of the generation counter; its inductive   *)
(* invariant ties what the store holds in RAM to the two pages.  What is   *)
(* saved is what the next boot takes, for texts, labels and addresses of   *)
(* any length.  sanitizeHostname() is a recursion over the text: that its  *)
(* definition has a solution, and what each step of it keeps, is shown by  *)
(* the least number for which it fails (WFMin), since that theorem has no  *)
(* operator for a parameter.                                               *)
(***************************************************************************)
EXTENDS ConfigStore, RakSettings, NaturalsInduction, WellFoundedInduction, TLAPS

\* What begin() read is still what the active page holds, and the other page
\* holds nothing or a neighbouring generation.
StoreInv ==
    /\ TypeOK
    /\ GenerationsAdjacent
    /\ pc = "off" => ~persistenceReady /\ answer = "idle"
    /\ ~persistenceReady => ~hasActive /\ pc \notin WritePcs
    /\ hasActive => /\ slot[activeAddress] # NoRecord
                    /\ slot[activeAddress].gen = activeGeneration
    /\ persistenceReady /\ ~hasActive => slot["B"] = NoRecord
    /\ pc = "write" => slot[Target] = NoRecord
    /\ pc = "verify" => slot[Target] = NewRecord

SlotContents == [Slots -> Records \cup {NoRecord}]
-----------------------------------------------------------------------------
\* newer() puts a generation before the one that follows it, and never the
\* other way round, also where the counter wraps.
LEMMA FollowingIsNewer ==
    ASSUME NEW g \in Generations
    PROVE  /\ Following(g) \in Generations
           /\ Newer(Following(g), g)
           /\ ~Newer(g, Following(g))
  BY RangeAssumption DEF Following, Newer, Generations

\* What save() and erase() are about to write is a record.
LEMMA NewRecordType ==
    ASSUME TypeOK
    PROVE  NewRecord \in Records /\ NewRecord # NoRecord /\ Target \in Slots
  <1>1. NextGeneration \in Generations
    BY FollowingIsNewer, RangeAssumption DEF NextGeneration, TypeOK, Generations
  <1> QED  BY <1>1, RecordAssumption DEF NewRecord, Records, TypeOK, Target, Slots

\* Of two neighbouring records load() takes the later one.
LEMMA LaterLoaded ==
    ASSUME NEW s \in SlotContents, NEW a \in Slots, NEW b \in Slots, a # b,
           s[a] # NoRecord, s[b] # NoRecord, s[b].gen = Following(s[a].gen)
    PROVE  Loaded(s) = s[b].value /\ Selected(s) = b
  <1>1. s[a] \in Records /\ s[b] \in Records  BY DEF SlotContents
  <1>2. s[a].gen \in Generations  BY <1>1 DEF Records
  <1>3. Newer(s[b].gen, s[a].gen) /\ ~Newer(s[a].gen, s[b].gen)
    BY <1>2, FollowingIsNewer
  <1>4. Selected(s) = b  BY <1>3 DEF Selected, Valid, Slots
  <1> QED  BY <1>4 DEF Loaded, Valid, Slots

\* With one valid page load() takes that one.
LEMMA OnlyLoaded ==
    ASSUME NEW s \in SlotContents, NEW a \in Slots, NEW b \in Slots, a # b,
           s[a] # NoRecord, s[b] = NoRecord
    PROVE  Loaded(s) = s[a].value /\ Selected(s) = a
  BY DEF Loaded, Selected, Valid, Slots

\* The page to be written is never the active one.
LEMMA TargetIsOther ==
    ASSUME TypeOK, hasActive
    PROVE  Target # activeAddress /\ activeAddress \in Slots
  BY DEF Target, TypeOK, Slots

\* After the erase of the target, load() finds the settled value.
LEMMA ErasedLoadsSettled ==
    ASSUME StoreInv, persistenceReady
    PROVE  /\ [slot EXCEPT ![Target] = NoRecord] \in SlotContents
           /\ Loaded([slot EXCEPT ![Target] = NoRecord]) = Settled
  <1> DEFINE s == [slot EXCEPT ![Target] = NoRecord]
  <1>1. TypeOK /\ slot \in SlotContents /\ Target \in Slots
    BY NewRecordType DEF StoreInv, TypeOK, SlotContents
  <1>2. s \in SlotContents  BY <1>1 DEF SlotContents
  <1>3. CASE hasActive
    <2>1. Target # activeAddress /\ activeAddress \in Slots  BY <1>1, <1>3, TargetIsOther
    <2>2. s[activeAddress] = slot[activeAddress] /\ s[Target] = NoRecord
      BY <1>1, <2>1 DEF SlotContents
    <2>3. slot[activeAddress] # NoRecord  BY <1>3 DEF StoreInv
    <2>4. Loaded(s) = s[activeAddress].value  BY <1>1, <1>2, <2>1, <2>2, <2>3, OnlyLoaded
    <2> QED  BY <1>2, <1>3, <2>2, <2>4 DEF Settled
  <1>4. CASE ~hasActive
    <2>1. s["A"] = NoRecord /\ s["B"] = NoRecord
      BY <1>1, <1>4 DEF SlotContents, Slots, Target, StoreInv
    <2> QED  BY <1>2, <1>4, <2>1 DEF Loaded, Valid, Settled
  <1> QED  BY <1>3, <1>4

\* Once the target holds the new record, load() finds the value asked for.
LEMMA WrittenLoadsWanted ==
    ASSUME StoreInv, persistenceReady,
           NEW s \in SlotContents, s = [slot EXCEPT ![Target] = NewRecord]
    PROVE  Loaded(s) = request /\ Selected(s) = Target
  <1>1. TypeOK /\ slot \in SlotContents /\ Target \in Slots /\ NewRecord # NoRecord
    BY NewRecordType DEF StoreInv, TypeOK, SlotContents
  <1>2. s[Target] = NewRecord  BY <1>1 DEF SlotContents
  <1>3. NewRecord.value = request /\ NewRecord.gen = NextGeneration  BY DEF NewRecord
  <1>4. CASE hasActive
    <2>1. Target # activeAddress /\ activeAddress \in Slots  BY <1>1, <1>4, TargetIsOther
    <2>2. s[activeAddress] = slot[activeAddress]  BY <1>1, <2>1 DEF SlotContents
    <2>3. s[activeAddress] # NoRecord /\ s[activeAddress].gen = activeGeneration
      BY <1>4, <2>2 DEF StoreInv
    <2>4. s[Target].gen = Following(s[activeAddress].gen)
      BY <1>2, <1>3, <1>4, <2>3 DEF NextGeneration
    <2>5. Loaded(s) = s[Target].value /\ Selected(s) = Target
      BY <1>1, <1>2, <2>1, <2>3, <2>4, LaterLoaded
    <2> QED  BY <1>2, <1>3, <2>5
  <1>5. CASE ~hasActive
    <2>1. Target = "A" /\ s["B"] = NoRecord
      BY <1>1, <1>5 DEF SlotContents, Slots, Target, StoreInv
    <2>2. Loaded(s) = s[Target].value /\ Selected(s) = Target
      BY <1>1, <1>2, <2>1, OnlyLoaded DEF Slots
    <2> QED  BY <1>2, <1>3, <2>2
  <1> QED  BY <1>4, <1>5
-----------------------------------------------------------------------------
\* The generation of a store that holds nothing.
LEMMA ZeroIsGeneration == 0 \in Generations
  BY RangeAssumption DEF Generations

\* Empty flash and a modem without power satisfy the invariant.
LEMMA StoreInit == Init => StoreInv
  <1> SUFFICES ASSUME Init PROVE StoreInv  OBVIOUS
  <1>1. TypeOK  BY ZeroIsGeneration DEF Init, TypeOK, Slots, Values, WritePcs
  <1>2. GenerationsAdjacent  BY DEF Init, GenerationsAdjacent, Valid, Slots
  <1> QED  BY <1>1, <1>2 DEF Init, StoreInv, WritePcs

\* begin() records the page that load() selected.
LEMMA BeginKeeps == ASSUME StoreInv, Begin PROVE StoreInv'
  <1>1. TypeOK  BY DEF StoreInv
  <1>2. Selected(slot) \in Slots /\ Loaded(slot) \in Values
    BY <1>1 DEF TypeOK, Selected, Loaded, Valid, Slots, Records, Values
  <1>3. hasActive' => slot[Selected(slot)] \in Records /\ slot[Selected(slot)] # NoRecord
    BY <1>1 DEF Begin, TypeOK, Selected, Valid, Slots
  <1>4. activeAddress' \in Slots /\ activeGeneration' \in Generations
    BY <1>1, <1>2, <1>3, RangeAssumption DEF Begin, TypeOK, Records, Generations
  <1>5. TypeOK'
    BY <1>1, <1>2, <1>4 DEF Begin, TypeOK, WritePcs
  <1>6. GenerationsAdjacent'  BY DEF Begin, StoreInv, GenerationsAdjacent, Valid
  <1>7. hasActive' => slot'[activeAddress'] # NoRecord
                      /\ slot'[activeAddress'].gen = activeGeneration'
    BY <1>3 DEF Begin
  <1>8. ~hasActive' => slot'["B"] = NoRecord  BY DEF Begin, Valid
  <1>9. pc' = "idle" /\ persistenceReady'  BY DEF Begin
  <1> QED  BY <1>5, <1>6, <1>7, <1>8, <1>9 DEF StoreInv

\* Without flash begin() records nothing.
LEMMA BeginWithoutFlashKeeps == ASSUME StoreInv, BeginWithoutFlash PROVE StoreInv'
  BY DEF StoreInv, BeginWithoutFlash, ram, TypeOK, GenerationsAdjacent, Valid, WritePcs

\* saveConfig() and factoryReset() only take note of the request.
LEMMA StartWriteKeeps ==
    ASSUME StoreInv, NEW v \in Values, StartWrite(v) PROVE StoreInv'
  BY DEF StoreInv, StartWrite, ram, TypeOK, GenerationsAdjacent, Valid, WritePcs

\* A refusal changes only the answer.
LEMMA RefuseKeeps == ASSUME StoreInv, Refuse PROVE StoreInv'
  BY DEF StoreInv, Refuse, ram, TypeOK, GenerationsAdjacent, Valid, WritePcs, Target

\* Emptying the target leaves the active page alone.
LEMMA ErasedKeeps ==
    ASSUME StoreInv, persistenceReady, UNCHANGED <<ram, request>>,
           slot' = [slot EXCEPT ![Target] = NoRecord],
           pc' \in {"idle", "write"}, answer' \in {"idle", "ok", "failed"}
    PROVE  StoreInv'
  <1>1. TypeOK /\ slot \in SlotContents /\ Target \in Slots
    BY NewRecordType DEF StoreInv, TypeOK, SlotContents
  <1>2. slot' \in SlotContents  BY <1>1 DEF SlotContents
  <1>3. TypeOK'  BY <1>1, <1>2 DEF TypeOK, ram, WritePcs, SlotContents
  <1>4. slot'[Target] = NoRecord /\ Target' = Target
    BY <1>1 DEF SlotContents, Target, ram
  <1>5. GenerationsAdjacent'  BY <1>1, <1>4 DEF GenerationsAdjacent, Valid, Slots
  <1>6. hasActive => slot'[activeAddress] = slot[activeAddress]
    BY <1>1, TargetIsOther DEF SlotContents
  <1>7. ~hasActive => slot'["B"] = NoRecord  BY <1>1 DEF SlotContents, StoreInv, Slots
  <1> QED  BY <1>3, <1>4, <1>5, <1>6, <1>7 DEF StoreInv, ram

\* The new record is the neighbour of the active one.
LEMMA WrittenKeeps ==
    ASSUME StoreInv, persistenceReady, UNCHANGED <<ram, request>>,
           slot' = [slot EXCEPT ![Target] = NewRecord],
           pc' \in {"idle", "verify"}, answer' \in {"idle", "ok", "failed"}
    PROVE  StoreInv'
  <1>1. TypeOK /\ slot \in SlotContents /\ Target \in Slots
        /\ NewRecord \in Records /\ NewRecord # NoRecord
    BY NewRecordType DEF StoreInv, TypeOK, SlotContents
  <1>2. slot' \in SlotContents  BY <1>1 DEF SlotContents
  <1>3. TypeOK'  BY <1>1, <1>2 DEF TypeOK, ram, WritePcs, SlotContents
  <1>4. slot'[Target] = NewRecord /\ Target' = Target /\ NewRecord' = NewRecord
    BY <1>1 DEF SlotContents, Target, NewRecord, NextGeneration, ram
  <1>5. hasActive => slot'[activeAddress] = slot[activeAddress]
    BY <1>1, TargetIsOther DEF SlotContents
  <1>6. ~hasActive => slot'["B"] = NoRecord
    BY <1>1 DEF SlotContents, StoreInv, Target, Slots
  <1>7. GenerationsAdjacent'
    <2>1. CASE hasActive
      <3>1. slot'[activeAddress].gen = activeGeneration  BY <1>5, <2>1 DEF StoreInv
      <3>2. slot'[Target].gen = Following(slot'[activeAddress].gen)
        BY <1>4, <2>1, <3>1 DEF NewRecord, NextGeneration
      <3>3. Target # activeAddress /\ activeAddress \in Slots  BY <1>1, <2>1, TargetIsOther
      <3> QED  BY <1>1, <3>2, <3>3 DEF GenerationsAdjacent, Slots
    <2>2. CASE ~hasActive  BY <1>6, <2>2 DEF GenerationsAdjacent, Valid
    <2> QED  BY <2>1, <2>2
  <1> QED  BY <1>3, <1>4, <1>5, <1>6, <1>7 DEF StoreInv, ram

\* A flash call that failed without effect ends the write.
LEMMA GivenUpKeeps ==
    ASSUME StoreInv, persistenceReady, UNCHANGED <<slot, ram, request>>,
           pc' = "idle", answer' \in {"idle", "ok", "failed"}
    PROVE  StoreInv'
  BY DEF StoreInv, ram, TypeOK, GenerationsAdjacent, Valid, WritePcs

\* writeSlot() leaves the write only with persistence ready.
LEMMA WritingIsReady == ASSUME StoreInv, pc \in WritePcs PROVE persistenceReady
  BY DEF StoreInv

\* Erasing keeps the invariant, whatever came of it.
LEMMA EraseKeeps == ASSUME StoreInv, Erase PROVE StoreInv'
  <1>1. persistenceReady /\ answer \in {"idle", "ok", "failed"}
    BY WritingIsReady DEF Erase, WritePcs, StoreInv, TypeOK
  <1>2. CASE slot' = [slot EXCEPT ![Target] = NoRecord]
    BY <1>1, <1>2, ErasedKeeps DEF Erase
  <1>3. CASE slot' = slot /\ pc' = "idle" /\ answer' = "failed"
    BY <1>1, <1>3, GivenUpKeeps DEF Erase
  <1> QED  BY <1>2, <1>3 DEF Erase

\* Programming keeps the invariant, whatever came of it.
LEMMA WriteKeeps == ASSUME StoreInv, Write PROVE StoreInv'
  <1>1. persistenceReady /\ answer \in {"idle", "ok", "failed"}
    BY WritingIsReady DEF Write, WritePcs, StoreInv, TypeOK
  <1>2. CASE slot' = [slot EXCEPT ![Target] = NewRecord]
    BY <1>1, <1>2, WrittenKeeps DEF Write
  <1>3. CASE slot' = slot /\ pc' = "idle" /\ answer' = "failed"
    BY <1>1, <1>3, GivenUpKeeps DEF Write
  <1> QED  BY <1>2, <1>3 DEF Write

\* The bookkeeping follows the page that was written.
LEMMA VerifyKeeps == ASSUME StoreInv, Verify PROVE StoreInv'
  <1>1. persistenceReady /\ TypeOK /\ slot[Target] = NewRecord
    BY WritingIsReady DEF Verify, WritePcs, StoreInv
  <1>2. NewRecord \in Records /\ NewRecord # NoRecord /\ Target \in Slots
        /\ NewRecord.gen = NextGeneration
    BY <1>1, NewRecordType DEF NewRecord
  <1>3. TypeOK'  BY <1>1, <1>2 DEF Verify, TypeOK, Records
  <1>4. GenerationsAdjacent'  BY DEF Verify, StoreInv, GenerationsAdjacent, Valid
  <1>5. hasActive' /\ slot'[activeAddress'] # NoRecord
        /\ slot'[activeAddress'].gen = activeGeneration'
    BY <1>1, <1>2 DEF Verify
  <1> QED  BY <1>1, <1>3, <1>4, <1>5 DEF Verify, StoreInv

\* Power loss in the middle of a flash call leaves one of the pages that call
\* could have left.
LEMMA PowerLossKeeps == ASSUME StoreInv, PowerLoss PROVE StoreInv'
  <1>1. TypeOK /\ slot \in SlotContents /\ Target \in Slots
        /\ NewRecord \in Records /\ NewRecord # NoRecord
    BY NewRecordType DEF StoreInv, TypeOK, SlotContents
  <1>2. slot' \in {slot, [slot EXCEPT ![Target] = NoRecord], [slot EXCEPT ![Target] = NewRecord]}
    BY DEF PowerLoss
  <1>3. slot' \in SlotContents  BY <1>1, <1>2 DEF SlotContents
  <1>4. TypeOK'
    BY <1>1, <1>3, ZeroIsGeneration DEF PowerLoss, TypeOK, SlotContents, Slots, Values
  <1>5. GenerationsAdjacent'
    <2>1. CASE slot' = slot  BY <2>1 DEF StoreInv, GenerationsAdjacent, Valid
    <2>2. CASE slot' = [slot EXCEPT ![Target] = NoRecord]
      <3>1. slot'[Target] = NoRecord  BY <1>1, <2>2 DEF SlotContents
      <3> QED  BY <1>1, <3>1 DEF GenerationsAdjacent, Valid, Slots
    <2>3. CASE slot' = [slot EXCEPT ![Target] = NewRecord] /\ pc = "write"
      <3>1. persistenceReady  BY <2>3, WritingIsReady DEF WritePcs
      <3>2. slot'[Target] = NewRecord  BY <1>1, <2>3 DEF SlotContents
      <3>3. CASE hasActive
        <4>1. Target # activeAddress /\ activeAddress \in Slots
          BY <1>1, <3>3, TargetIsOther
        <4>2. slot'[activeAddress].gen = activeGeneration
          BY <1>1, <2>3, <3>3, <4>1 DEF SlotContents, StoreInv
        <4>3. slot'[Target].gen = Following(slot'[activeAddress].gen)
          BY <3>2, <3>3, <4>2 DEF NewRecord, NextGeneration
        <4> QED  BY <1>1, <4>1, <4>3 DEF GenerationsAdjacent, Slots
      <3>4. CASE ~hasActive
        <4>1. slot'["B"] = NoRecord
          BY <1>1, <2>3, <3>1, <3>4 DEF SlotContents, StoreInv, Target, Slots
        <4> QED  BY <4>1 DEF GenerationsAdjacent, Valid
      <3> QED  BY <3>3, <3>4
    <2> QED  BY <2>1, <2>2, <2>3 DEF PowerLoss
  <1> QED  BY <1>4, <1>5 DEF PowerLoss, StoreInv, WritePcs

\* Every step keeps the invariant.
LEMMA StoreStep == StoreInv /\ [Next]_vars => StoreInv'
  <1> SUFFICES ASSUME StoreInv, [Next]_vars PROVE StoreInv'  OBVIOUS
  <1>1. CASE Begin  BY <1>1, BeginKeeps
  <1>2. CASE BeginWithoutFlash  BY <1>2, BeginWithoutFlashKeeps
  <1>3. CASE Refuse  BY <1>3, RefuseKeeps
  <1>4. CASE \E v \in Values : StartWrite(v)  BY <1>4, StartWriteKeeps
  <1>5. CASE Erase  BY <1>5, EraseKeeps
  <1>6. CASE Write  BY <1>6, WriteKeeps
  <1>7. CASE Verify  BY <1>7, VerifyKeeps
  <1>8. CASE PowerLoss  BY <1>8, PowerLossKeeps
  <1>9. CASE UNCHANGED vars
    BY <1>9 DEF vars, ram, StoreInv, TypeOK, GenerationsAdjacent, Valid, Target,
       NewRecord, NextGeneration
  <1> QED  BY <1>1, <1>2, <1>3, <1>4, <1>5, <1>6, <1>7, <1>8, <1>9 DEF Next

\* The RAM bookkeeping and the two pages always agree.
THEOREM StoreInvariant == Spec => []StoreInv
  <1>1. Init => StoreInv  BY StoreInit
  <1>2. StoreInv /\ [Next]_vars => StoreInv'  BY StoreStep
  <1> QED  BY <1>1, <1>2, PTL DEF Spec

\* Every variable keeps its type (rak4631_config_store.cpp, rak4631_config.cpp).
THEOREM StoreTypeCorrect == Spec => []TypeOK
  <1>1. StoreInv => TypeOK  BY DEF StoreInv
  <1> QED  BY <1>1, StoreInvariant, PTL

\* Two valid pages are one generation apart, on either side of the wrap, so
\* newer() always orders them by age.
THEOREM StoreGenerationsAdjacent == Spec => []GenerationsAdjacent
  <1>1. StoreInv => GenerationsAdjacent  BY DEF StoreInv
  <1> QED  BY <1>1, StoreInvariant, PTL
-----------------------------------------------------------------------------
\* Begin: what was loadable is what the modem runs with.
LEMMA BeginIsPowerUp == ASSUME StoreInv, Begin PROVE Register!PowerUp
  <1>1. Status = "off" /\ Status' = "idle"
    BY DEF Status, Begin, StoreInv, WritePcs
  <1>2. Loaded(slot)' = Loaded(slot)  BY DEF Begin, Loaded, Selected, Valid
  <1>3. Settled = Loaded(slot)  BY DEF Settled, Begin, StoreInv
  <1>4. Settled' = Loaded(slot)
    BY DEF Settled, Begin, Loaded, Selected, Valid
  <1>5. request' = request  BY DEF Begin
  <1> QED  BY <1>1, <1>2, <1>3, <1>4, <1>5 DEF Register!PowerUp

\* A step that touches neither the pages nor the bookkeeping changes neither
\* what is settled nor what is loadable.
LEMMA UntouchedStore ==
    ASSUME UNCHANGED <<slot, ram>>
    PROVE  Settled' = Settled /\ Loaded(slot)' = Loaded(slot)
  BY DEF ram, Settled, Loaded, Selected, Valid

\* Without the flash every save is refused and nothing changes.
LEMMA BeginWithoutFlashStutters ==
    ASSUME StoreInv, BeginWithoutFlash PROVE UNCHANGED Register!vars
  <1>1. Status' = Status  BY DEF Status, BeginWithoutFlash, StoreInv, ram
  <1> QED  BY <1>1, UntouchedStore DEF BeginWithoutFlash, Register!vars

\* saveConfig() begins a write.
LEMMA StartWriteIsBegin ==
    ASSUME StoreInv, NEW v \in Values, StartWrite(v) PROVE Register!Begin
  <1>1. Status \in {"idle", "ok", "failed"}
    BY DEF Status, StartWrite, StoreInv, TypeOK, WritePcs
  <1>2. Status' = "busy"  BY DEF Status, StartWrite, ram, WritePcs
  <1>3. request' \in Values  BY DEF StartWrite
  <1> QED  BY <1>1, <1>2, <1>3, UntouchedStore DEF StartWrite, Register!Begin

\* A refused save is a refused write, or nothing when the flash is out of reach.
LEMMA RefuseIsRefuse ==
    ASSUME StoreInv, Refuse PROVE Register!Refuse \/ UNCHANGED Register!vars
  <1>1. Settled' = Settled /\ Loaded(slot)' = Loaded(slot) /\ request' = request
    BY UntouchedStore DEF Refuse
  <1>2. CASE persistenceReady
    <2>1. Status \in {"idle", "ok", "failed"}
      BY <1>2 DEF Status, Refuse, StoreInv, TypeOK, WritePcs
    <2>2. Status' = "failed"  BY <1>2 DEF Status, Refuse, ram, WritePcs
    <2> QED  BY <1>1, <2>1, <2>2 DEF Register!Refuse
  <1>3. CASE ~persistenceReady
    <2>1. Status' = Status  BY <1>3 DEF Status, Refuse, ram
    <2> QED  BY <1>1, <2>1 DEF Register!vars
  <1> QED  BY <1>2, <1>3

\* What a flash call under way can do to what is settled and what is loadable.
LEMMA FlashCallEffect ==
    ASSUME StoreInv, pc \in {"erase", "write"}, UNCHANGED <<ram, request>>,
           slot' \in {slot} \cup (IF pc = "erase" THEN {[slot EXCEPT ![Target] = NoRecord]}
                                  ELSE {[slot EXCEPT ![Target] = NewRecord]})
    PROVE  /\ Settled' = Settled
           /\ Loaded(slot)' \in {Loaded(slot), Settled, request}
  <1>1. persistenceReady /\ TypeOK /\ slot \in SlotContents /\ Target \in Slots
        /\ NewRecord \in Records
    BY WritingIsReady, NewRecordType DEF StoreInv, TypeOK, SlotContents, WritePcs
  <1>2. Loaded(slot)' = Loaded(slot')  BY DEF Loaded, Selected, Valid
  <1>3. slot' = slot \/ Loaded(slot') \in {Settled, request}
    <2>1. CASE slot' = [slot EXCEPT ![Target] = NoRecord]
      BY <1>1, <2>1, ErasedLoadsSettled
    <2>2. CASE slot' = [slot EXCEPT ![Target] = NewRecord]
      <3>1. slot' \in SlotContents  BY <1>1, <2>2 DEF SlotContents
      <3> QED  BY <1>1, <2>2, <3>1, WrittenLoadsWanted
    <2> QED  BY <2>1, <2>2
  <1>4. Settled' = Settled
    <2>1. hasActive => slot'[activeAddress] = slot[activeAddress]
      BY <1>1, TargetIsOther DEF SlotContents
    <2> QED  BY <1>1, <2>1 DEF Settled, ram
  <1> QED  BY <1>2, <1>3, <1>4

\* A completed erase or program step is progress of the write.
LEMMA FlashStepIsProgress ==
    ASSUME StoreInv, Erase \/ Write, answer' = answer, pc' # "idle"
    PROVE  Register!Progress
  <1>1. persistenceReady /\ TypeOK /\ slot \in SlotContents /\ NewRecord \in Records
        /\ Target \in Slots
    BY WritingIsReady, NewRecordType DEF Erase, Write, StoreInv, TypeOK, SlotContents, WritePcs
  <1>2. Loaded(slot)' = Loaded(slot')  BY DEF Loaded, Selected, Valid
  <1>3. Loaded(slot') \in {Settled, request}
    <2>1. CASE slot' = [slot EXCEPT ![Target] = NoRecord]
      BY <1>1, <2>1, ErasedLoadsSettled
    <2>2. CASE slot' = [slot EXCEPT ![Target] = NewRecord]
      <3>1. slot' \in SlotContents  BY <1>1, <2>2 DEF SlotContents
      <3> QED  BY <1>1, <2>2, <3>1, WrittenLoadsWanted
    <2> QED  BY <2>1, <2>2 DEF Erase, Write
  <1>4. Settled' = Settled  BY FlashCallEffect DEF Erase, Write
  <1>5. Status = "busy" /\ Status' = "busy"
    BY <1>1 DEF Status, Erase, Write, ram, WritePcs
  <1>6. request' = request  BY DEF Erase, Write
  <1> QED  BY <1>2, <1>3, <1>4, <1>5, <1>6 DEF Register!Progress

\* A flash call that failed ends the write with its old or its new value.
LEMMA FlashStepIsFail ==
    ASSUME StoreInv, Erase \/ Write, answer' = "failed", pc' = "idle"
    PROVE  Register!Fail
  <1>1. persistenceReady  BY WritingIsReady DEF Erase, Write, WritePcs
  <1>2. Settled' = Settled /\ Loaded(slot)' \in {Loaded(slot), Settled, request}
    BY FlashCallEffect DEF Erase, Write
  <1>3. Status = "busy" /\ Status' = "failed"
    BY <1>1 DEF Status, Erase, Write, ram, WritePcs
  <1>4. request' = request  BY DEF Erase, Write
  <1> QED  BY <1>2, <1>3, <1>4 DEF Register!Fail

\* A verified write is one the next boot will load.
LEMMA VerifyIsSucceed == ASSUME StoreInv, Verify PROVE Register!Succeed
  <1>1. persistenceReady /\ TypeOK /\ slot \in SlotContents /\ Target \in Slots
        /\ slot[Target] = NewRecord
    BY WritingIsReady, NewRecordType DEF Verify, WritePcs, StoreInv, TypeOK, SlotContents
  <1>2. slot = [slot EXCEPT ![Target] = NewRecord]  BY <1>1 DEF SlotContents
  <1>3. Loaded(slot) = request  BY <1>1, <1>2, WrittenLoadsWanted
  <1>4. Loaded(slot)' = Loaded(slot)  BY DEF Verify, Loaded, Selected, Valid
  <1>5. Settled' = request  BY <1>1 DEF Settled, Verify, NewRecord
  <1>6. Status = "busy" /\ Status' = "ok"  BY <1>1 DEF Status, Verify, WritePcs
  <1>7. request' = request  BY DEF Verify
  <1> QED  BY <1>3, <1>4, <1>5, <1>6, <1>7 DEF Register!Succeed

\* After a power loss the register holds what a boot would load.
LEMMA PowerLossIsPowerLoss == ASSUME StoreInv, PowerLoss PROVE Register!PowerLoss
  <1>1. Status' = "off" /\ request' = request  BY DEF Status, PowerLoss
  <1>2. Settled' = Loaded(slot)'  BY DEF Settled, PowerLoss
  <1>3. Loaded(slot)' = Loaded(slot')  BY DEF Loaded, Selected, Valid
  <1>4. CASE slot' = slot  BY <1>1, <1>2, <1>3, <1>4 DEF Register!PowerLoss
  <1>5. CASE slot' # slot
    <2>1. pc \in {"erase", "write"}  BY <1>5 DEF PowerLoss
    <2>2. persistenceReady /\ TypeOK /\ slot \in SlotContents /\ NewRecord \in Records
          /\ Target \in Slots
      BY <2>1, WritingIsReady, NewRecordType DEF StoreInv, TypeOK, SlotContents, WritePcs
    <2>3. Loaded(slot') \in {Settled, request}
      <3>1. CASE slot' = [slot EXCEPT ![Target] = NoRecord]
        BY <2>2, <3>1, ErasedLoadsSettled
      <3>2. CASE slot' = [slot EXCEPT ![Target] = NewRecord]
        <4>1. slot' \in SlotContents  BY <2>2, <3>2 DEF SlotContents
        <4> QED  BY <2>2, <3>2, <4>1, WrittenLoadsWanted
      <3> QED  BY <1>5, <2>1, <3>1, <3>2 DEF PowerLoss
    <2>4. Status = "busy"  BY <2>1, <2>2 DEF Status, WritePcs
    <2> QED  BY <1>1, <1>2, <1>3, <2>3, <2>4 DEF Register!PowerLoss
  <1> QED  BY <1>4, <1>5

\* Every step of the store is a step of the register, or none.
LEMMA RegisterStep ==
    StoreInv /\ [Next]_vars => [Register!Next]_(Register!vars)
  <1> SUFFICES ASSUME StoreInv, [Next]_vars PROVE [Register!Next]_(Register!vars)  OBVIOUS
  <1> USE DEF Register!Next
  <1>1. CASE Begin  BY <1>1, BeginIsPowerUp
  <1>2. CASE BeginWithoutFlash  BY <1>2, BeginWithoutFlashStutters
  <1>3. CASE Refuse  BY <1>3, RefuseIsRefuse
  <1>4. CASE \E v \in Values : StartWrite(v)  BY <1>4, StartWriteIsBegin
  <1>5. CASE Erase \/ Write
    <2>1. CASE answer' = answer /\ pc' # "idle"  BY <1>5, <2>1, FlashStepIsProgress
    <2>2. CASE answer' = "failed" /\ pc' = "idle"  BY <1>5, <2>2, FlashStepIsFail
    <2> QED  BY <1>5, <2>1, <2>2 DEF Erase, Write
  <1>6. CASE Verify
    <2>1. slot[Target] = NewRecord  BY <1>6 DEF Verify, StoreInv
    <2> QED  BY <1>6, <2>1, VerifyIsSucceed
  <1>7. CASE PowerLoss  BY <1>7, PowerLossIsPowerLoss
  <1>8. CASE UNCHANGED vars
    <2>1. Status' = Status  BY <1>8 DEF vars, ram, Status
    <2> QED  BY <1>8, <2>1, UntouchedStore DEF vars, Register!vars
  <1> QED  BY <1>1, <1>2, <1>3, <1>4, <1>5, <1>6, <1>7, <1>8 DEF Next

LEMMA RegisterStarts == Init => Register!Init
  BY DEF Init, Register!Init, Status, Settled, Loaded, Valid, Slots

\* The dual-slot store is one register that survives power loss: an acknowledged
\* save is what the next boot loads, an unfinished one leaves the old value or
\* the new one (rak4631_config_store.cpp:90-177).
THEOREM StoreImplementsRegister == Spec => ImplementsRegister
  <1>1. StoreInv /\ [Next]_vars => [Register!Next]_(Register!vars)  BY RegisterStep
  <1> QED
    BY <1>1, RegisterStarts, StoreInvariant, PTL DEF Spec, ImplementsRegister, Register!Spec
-----------------------------------------------------------------------------
(* Settings *)

\* A nonempty set of natural numbers has a least element: what the inductions below rest on.
LEMMA LeastNumber ==
    ASSUME NEW T \in SUBSET Nat, T # {} PROVE \E n \in T : \A m \in T : n <= m
  <1> DEFINE R == OpToRel(<, Nat)
  <1>1. IsWellFoundedOn(R, Nat)  BY NatLessThanWellFounded
  <1>2. PICK n \in T : \A m \in T : <<m, n>> \notin R
    <2> HIDE DEF R
    <2> QED  BY <1>1, WFMin
  <1>3. \A m \in T : m \in Nat /\ n \in Nat /\ ~(m < n)  BY <1>2 DEF OpToRel
  <1> QED  BY <1>3

\* Induction up to N, for a property given by the set of the numbers that have it.
LEMMA Upwards ==
    ASSUME NEW N \in Nat, NEW T, 0 \in T, \A n \in 1 .. N : n - 1 \in T => n \in T
    PROVE  \A n \in 0 .. N : n \in T
  <1> DEFINE Missing == {n \in 0 .. N : n \notin T}
  <1> SUFFICES ASSUME Missing # {} PROVE FALSE  OBVIOUS
  <1>1. PICK n \in Missing : \A m \in Missing : n <= m
    <2>1. Missing \in SUBSET Nat  OBVIOUS
    <2> HIDE DEF Missing
    <2> QED  BY <2>1, LeastNumber
  <1>2. n # 0 /\ n \in 1 .. N  BY <1>1
  <1>3. n - 1 \in 0 .. N /\ n - 1 \notin Missing  BY <1>1, <1>2
  <1> QED  BY <1>1, <1>2, <1>3

\* g is the first N steps of the label that sanitizeHostname() grows over text.
Grows(g, text, N) ==
    g = [n \in 0 .. N |-> IF n = 0 THEN <<>> ELSE LabelGrown(g[n - 1], text[n])]

\* The recursion of Labels() has a solution, so that its definition chooses one.
LEMMA LabelsExist == ASSUME NEW text \in Seq(Characters) PROVE \E g : Grows(g, text, Len(text))
  <1> DEFINE T == {n \in 0 .. Len(text) : \E g : Grows(g, text, n)}
  <1>1. Len(text) \in Nat  OBVIOUS
  <1>2. 0 \in T
    <2>1. Grows([n \in 0 .. 0 |-> <<>>], text, 0)  BY DEF Grows
    <2> QED  BY <1>1, <2>1
  <1>3. ASSUME NEW N \in 1 .. Len(text), N - 1 \in T PROVE N \in T
    <2>1. PICK g : Grows(g, text, N - 1)  BY <1>3
    <2> DEFINE h == [n \in 0 .. N |-> IF n = N THEN LabelGrown(g[N - 1], text[N]) ELSE g[n]]
    <2>2. \A n \in 0 .. N - 1 : h[n] = g[n]  BY <1>1
    <2>3. h[N] = LabelGrown(h[N - 1], text[N])  BY <1>1, <2>2
    <2>4. \A n \in 0 .. N - 1 : g[n] = IF n = 0 THEN <<>> ELSE LabelGrown(g[n - 1], text[n])
      BY <2>1 DEF Grows
    <2>5. \A n \in 0 .. N : h[n] = IF n = 0 THEN <<>> ELSE LabelGrown(h[n - 1], text[n])
      <3> TAKE n \in 0 .. N
      <3>1. CASE n = N  BY <1>1, <2>3, <3>1
      <3>2. CASE n # N
        <4>1. n \in 0 .. N - 1 /\ (n # 0 => n - 1 \in 0 .. N - 1)  BY <1>1, <3>2
        <4> HIDE DEF h
        <4> QED  BY <2>2, <2>4, <4>1
      <3> QED  BY <3>1, <3>2
    <2>6. Grows(h, text, N)
      BY <2>5 DEF Grows
    <2> QED  BY <2>6
  <1>4. Len(text) \in T
    <2> HIDE DEF T
    <2>1. \A n \in 0 .. Len(text) : n \in T  BY <1>1, <1>2, <1>3, Upwards
    <2> QED  BY <1>1, <2>1
  <1> QED  BY <1>4

\* Labels() is a solution of its recursion.
LEMMA LabelsGrow == ASSUME NEW text \in Seq(Characters) PROVE Grows(Labels(text), text, Len(text))
  <1>1. \E g : g = [n \in 0 .. Len(text) |-> IF n = 0 THEN <<>> ELSE LabelGrown(g[n - 1], text[n])]
    BY LabelsExist DEF Grows
  <1>2. Labels(text) = CHOOSE g :
          g = [n \in 0 .. Len(text) |-> IF n = 0 THEN <<>> ELSE LabelGrown(g[n - 1], text[n])]
    BY Zenon DEF Labels
  <1> QED  BY <1>1, <1>2, Zenon DEF Grows

\* The label after n characters is the one after n - 1, grown by one.
LEMMA LabelsFollow ==
    ASSUME NEW text \in Seq(Characters)
    PROVE  /\ Labels(text)[0] = <<>>
           /\ \A n \in 1 .. Len(text) : Labels(text)[n] = LabelGrown(Labels(text)[n - 1], text[n])
  <1>1. Len(text) \in Nat  OBVIOUS
  <1>2. \A n \in 0 .. Len(text) :
          Labels(text)[n] = IF n = 0 THEN <<>> ELSE LabelGrown(Labels(text)[n - 1], text[n])
    <2> DEFINE g == Labels(text)
    <2>1. g = [n \in 0 .. Len(text) |-> IF n = 0 THEN <<>> ELSE LabelGrown(g[n - 1], text[n])]
      BY LabelsGrow DEF Grows
    <2> HIDE DEF g
    <2>2. \A n \in 0 .. Len(text) : g[n] = IF n = 0 THEN <<>> ELSE LabelGrown(g[n - 1], text[n])
      BY <2>1
    <2> QED  BY <2>2 DEF g
  <1> QED  BY <1>1, <1>2

\* A label that may still end with a hyphen.
LabelCharacters == {"lower", "-"}
IsPrefixOfLabel(label) ==
    /\ label \in Seq(LabelCharacters) /\ Len(label) <= HostnameLength
    /\ \A i \in 1 .. Len(label) :
         label[i] = "-" => i # 1 /\ (i # Len(label) => label[i + 1] # "-")

\* One more character never makes a hyphen the first or the second of two.
LEMMA GrownIsPrefix ==
    ASSUME NEW label, IsPrefixOfLabel(label), NEW ch \in Characters
    PROVE  IsPrefixOfLabel(LabelGrown(label, ch))
  <1>1. Len(label) \in Nat /\ HostnameLength \in Nat  BY RakAssumption DEF IsPrefixOfLabel
  <1>2. LabelCharacter(ch) \in LabelCharacters
    BY DEF LabelCharacter, Characters, LabelCharacters
  <1>3. CASE LabelGrown(label, ch) = label  BY <1>3
  <1>4. CASE /\ LabelGrown(label, ch) = Append(label, LabelCharacter(ch))
             /\ Len(label) # HostnameLength
             /\ LabelCharacter(ch) = "-" => label # <<>> /\ label[Len(label)] # "-"
    <2> DEFINE c == LabelCharacter(ch)
               grown == Append(label, c)
    <2> HIDE DEF c
    <2>0. c \in LabelCharacters /\ (c = "-" => label # <<>> /\ label[Len(label)] # "-")
      BY <1>2, <1>4 DEF c
    <2>1. grown \in Seq(LabelCharacters) /\ Len(grown) = Len(label) + 1 /\ grown[Len(label) + 1] = c
          /\ \A i \in 1 .. Len(label) : grown[i] = label[i]
      BY <2>0 DEF IsPrefixOfLabel
    <2>2. Len(grown) <= HostnameLength  BY <1>1, <1>4, <2>1 DEF IsPrefixOfLabel
    <2> HIDE DEF grown
    <2>3. ASSUME NEW i \in 1 .. Len(grown), grown[i] = "-"
          PROVE  i # 1 /\ (i # Len(grown) => grown[i + 1] # "-")
      <3>1. CASE i = Len(label) + 1
        <4>1. label # <<>>  BY <2>0, <2>1, <2>3, <3>1
        <4>2. Len(label) # 0  BY <4>1 DEF IsPrefixOfLabel
        <4> QED  BY <1>1, <2>1, <3>1, <4>2
      <3>2. CASE i \in 1 .. Len(label)
        <4>1. i # 1 /\ (i # Len(label) => label[i + 1] # "-")
          BY <2>1, <2>3, <3>2 DEF IsPrefixOfLabel
        <4>2. CASE i = Len(label)  BY <1>1, <2>0, <2>1, <2>3, <3>2, <4>1, <4>2
        <4>3. CASE i # Len(label)
          <5>1. i + 1 \in 1 .. Len(label)  BY <1>1, <3>2, <4>3
          <5> QED  BY <2>1, <4>1, <4>3, <5>1
        <4> QED  BY <4>2, <4>3
      <3> QED  BY <1>1, <2>1, <3>1, <3>2
    <2>4. IsPrefixOfLabel(grown)  BY <2>1, <2>2, <2>3 DEF IsPrefixOfLabel
    <2> QED  BY <1>4, <2>4 DEF grown, c
  <1> QED  BY <1>3, <1>4 DEF LabelGrown

\* What sanitizeHostname() has built when it leaves its loop.
LEMMA LabelsArePrefixes ==
    ASSUME NEW text \in Seq(Characters)
    PROVE  IsPrefixOfLabel(Labels(text)[Len(text)])
  <1> DEFINE T == {n \in 0 .. Len(text) : IsPrefixOfLabel(Labels(text)[n])}
  <1>1. Len(text) \in Nat  OBVIOUS
  <1>2. 0 \in T
    <2>1. IsPrefixOfLabel(<<>>)  BY RakAssumption DEF IsPrefixOfLabel
    <2> QED  BY <1>1, <2>1, LabelsFollow
  <1>3. ASSUME NEW n \in 1 .. Len(text), n - 1 \in T PROVE n \in T
    <2>1. text[n] \in Characters /\ n \in 0 .. Len(text)  BY <1>1
    <2>2. IsPrefixOfLabel(LabelGrown(Labels(text)[n - 1], text[n]))  BY <1>3, <2>1, GrownIsPrefix
    <2> QED  BY <2>1, <2>2, LabelsFollow
  <1>4. \A n \in 0 .. Len(text) : n \in T
    <2> HIDE DEF T
    <2> QED  BY <1>1, <1>2, <1>3, Upwards
  <1> QED  BY <1>1, <1>4

\* Whatever text it is given, sanitizeHostname() returns a label.
LEMMA SanitizedIsLabel ==
    ASSUME NEW text \in Seq(Characters)
    PROVE  Sanitized(text) \in Seq(Characters) /\ IsLabel(Sanitized(text))
  <1> DEFINE label == Labels(text)[Len(text)]
             last == Len(label)
  <1>1. IsPrefixOfLabel(label)  BY LabelsArePrefixes
  <1> HIDE DEF label
  <1>2. label \in Seq(LabelCharacters) /\ last \in Nat /\ last <= HostnameLength
        /\ \A i \in 1 .. last : label[i] \in LabelCharacters
    BY <1>1 DEF IsPrefixOfLabel
  <1>3. LabelCharacters \subseteq Characters  BY DEF LabelCharacters, Characters
  <1>4. CASE label # <<>> /\ label[last] = "-"
    <2> DEFINE front == SubSeq(label, 1, last - 1)
    <2>1. Sanitized(text) = front  BY <1>4 DEF Sanitized, LabelTrimmed, label
    <2>2. last # 0  BY <1>2, <1>4
    <2>3. front \in Seq(LabelCharacters) /\ Len(front) = last - 1
          /\ \A i \in 1 .. last - 1 : front[i] = label[i]
      <3> HIDE DEF last
      <3>1. last - 1 \in 0 .. last /\ last = Len(label)  BY <1>2, <2>2 DEF last
      <3>2. last - 1 <= Len(label) /\ last - 1 \in Nat  BY <1>2, <3>1
      <3> QED  BY <1>2, <3>1, <3>2
    <2> HIDE DEF front
    <2>4. ASSUME NEW i \in 1 .. Len(front)
          PROVE  /\ front[i] \in LabelCharacters
                 /\ front[i] = "-" => i # 1 /\ i # Len(front) /\ front[i + 1] # "-"
      <3>1. i \in 1 .. last /\ i # last /\ i + 1 \in 1 .. last /\ front[i] = label[i]
            /\ last - 1 + 1 = last
        BY <1>2, <2>2, <2>3
      <3>2. CASE label[i] = "-"
        <4>1. i # 1 /\ label[i + 1] # "-"  BY <1>1, <3>1, <3>2 DEF IsPrefixOfLabel
        <4>2. i # Len(front)  BY <1>2, <1>4, <2>3, <3>1, <4>1
        <4>3. i + 1 \in 1 .. last - 1  BY <1>2, <2>3, <4>2
        <4> QED  BY <1>2, <2>3, <3>1, <3>2, <4>1, <4>2, <4>3
      <3> QED  BY <1>2, <3>1, <3>2
    <2>5. IsLabel(front)  BY <1>2, <2>2, <2>3, <2>4, RakAssumption DEF IsLabel, LabelCharacters
    <2>6. front \in Seq(Characters)  BY <1>3, <2>3
    <2> QED  BY <2>1, <2>5, <2>6
  <1>5. CASE ~(label # <<>> /\ label[last] = "-")
    <2>1. Sanitized(text) = label  BY <1>5 DEF Sanitized, LabelTrimmed, label
    <2>2. ASSUME NEW i \in 1 .. last
          PROVE  /\ label[i] \in LabelCharacters
                 /\ label[i] = "-" => i # 1 /\ i # last /\ label[i + 1] # "-"
      BY <1>1, <1>2, <1>5 DEF IsPrefixOfLabel
    <2>3. IsLabel(label)  BY <1>2, <2>2 DEF IsLabel, LabelCharacters
    <2>4. label \in Seq(Characters)  BY <1>2, <1>3
    <2> QED  BY <2>1, <2>3, <2>4
  <1> QED  BY <1>4, <1>5

\* A label comes back as it is: sanitizing twice is sanitizing once.
LEMMA LabelIsSanitized ==
    ASSUME NEW text \in Seq(Characters), IsLabel(text) PROVE Sanitized(text) = text
  <1> DEFINE T == {n \in 0 .. Len(text) : Labels(text)[n] = SubSeq(text, 1, n)}
  <1>1. Len(text) \in Nat /\ HostnameLength \in Nat /\ Len(text) <= HostnameLength
    BY RakAssumption DEF IsLabel
  <1>2. 0 \in T
    <2>1. SubSeq(text, 1, 0) = <<>>  OBVIOUS
    <2>2. Labels(text)[0] = SubSeq(text, 1, 0)  BY <2>1, LabelsFollow
    <2>3. 0 \in 0 .. Len(text)  BY <1>1
    <2> QED  BY <2>2, <2>3, Zenon
  <1>3. ASSUME NEW n \in 1 .. Len(text), n - 1 \in T PROVE n \in T
    <2> DEFINE label == SubSeq(text, 1, n - 1)
    <2>1. n \in 0 .. Len(text) /\ n - 1 \in 0 .. Len(text) /\ Labels(text)[n - 1] = label
      BY <1>1, <1>3
    <2>2. label \in Seq(Characters) /\ Len(label) = n - 1
          /\ \A i \in 1 .. n - 1 : label[i] = text[i]
      BY <1>1
    <2>3. Append(label, text[n]) = SubSeq(text, 1, n)  BY <1>1
    <2> HIDE DEF label
    <2>4. LabelCharacter(text[n]) = text[n]  BY <1>1 DEF IsLabel, LabelCharacter
    <2>5. Len(label) # HostnameLength  BY <1>1, <2>2
    <2>6. ASSUME text[n] = "-" PROVE label # <<>> /\ label[Len(label)] # "-"
      <3>1. n # 1  BY <1>1, <2>6 DEF IsLabel
      <3>2. n - 1 \in 1 .. Len(text) /\ n - 1 + 1 = n  BY <1>1, <3>1
      <3>3. text[n - 1] # "-"  BY <2>6, <3>2 DEF IsLabel
      <3>4. n - 1 \in 1 .. n - 1  BY <3>2
      <3> QED  BY <2>2, <3>1, <3>3, <3>4
    <2>7. LabelGrown(label, text[n]) = Append(label, text[n])
      BY <2>4, <2>5, <2>6 DEF LabelGrown
    <2> QED  BY <2>1, <2>3, <2>7, LabelsFollow
  <1>4. \A n \in 0 .. Len(text) : n \in T
    <2> HIDE DEF T
    <2> QED  BY <1>1, <1>2, <1>3, Upwards
  <1>5. Labels(text)[Len(text)] = text
    <2>1. SubSeq(text, 1, Len(text)) = text  OBVIOUS
    <2>2. Len(text) \in T  BY <1>1, <1>4
    <2> QED  BY <2>1, <2>2
  <1>6. ~(text # <<>> /\ text[Len(text)] = "-")
    <2>1. text # <<>> => Len(text) \in 1 .. Len(text)  BY <1>1
    <2> QED  BY <2>1 DEF IsLabel
  <1> QED  BY <1>5, <1>6 DEF Sanitized, LabelTrimmed

\* (~mask & (~mask + 1)) == 0 says that the mask is a run of ones and then zeros.
LEMMA MaskIsPrefix ==
    ASSUME NEW subnet \in SUBSET Bits, subnet \notin {Zero, Broadcast32},
           (Bits \ subnet) \cap Incremented(Bits \ subnet) = Zero
    PROVE  \E h \in 1 .. AddressBits - 1 :
              Bits \ subnet = 0 .. h - 1 /\ subnet = h .. AddressBits - 1
  <1> DEFINE inverted == Bits \ subnet
  <1>1. AddressBits \in Nat /\ Bits = 0 .. AddressBits - 1  BY RakAssumption DEF Bits
  <1>2. \A b \in inverted : 0 .. b - 1 \subseteq inverted
    <2> SUFFICES ASSUME NEW b \in inverted PROVE 0 .. b - 1 \subseteq inverted  OBVIOUS
    <2>1. b \in Bits /\ b \notin Incremented(inverted)  BY DEF Zero
    <2> HIDE DEF inverted
    <2> QED  BY <2>1 DEF Incremented
  <1>3. PICK h \in subnet : \A b \in subnet : h <= b
    BY <1>1, LeastNumber DEF Zero
  <1>4. h \in Bits /\ 0 .. h - 1 \subseteq inverted  BY <1>1, <1>3
  <1>5. \A b \in inverted : b \in 0 .. h - 1
    <2> SUFFICES ASSUME NEW b \in inverted, b >= h PROVE FALSE  BY <1>1, <1>4
    <2>1. b # h /\ b \in Nat /\ h \in Nat  BY <1>1, <1>3
    <2>2. h \in 0 .. b - 1  BY <2>1
    <2> QED  BY <1>2, <1>3, <2>2
  <1>6. inverted # {}  BY DEF Zero, Broadcast32
  <1>7. h \in 1 .. AddressBits - 1  BY <1>1, <1>4, <1>5, <1>6
  <1>8. inverted = 0 .. h - 1  BY <1>4, <1>5
  <1>9. subnet = h .. AddressBits - 1
    <2>1. \A b \in Bits : b \in subnet <=> ~(b \in 0 .. h - 1)  BY <1>8
    <2>2. \A b \in Bits : ~(b \in 0 .. h - 1) <=> b \in h .. AddressBits - 1  BY <1>1, <1>7
    <2>3. h .. AddressBits - 1 \subseteq Bits  BY <1>1, <1>7
    <2> QED  BY <2>1, <2>2, <2>3
  <1> QED  BY <1>7, <1>8, <1>9

\* What isValidStaticNetwork() accepts are two hosts of one subnet.
LEMMA ValidIsReachable ==
    ASSUME NEW c \in RakConfigs, ValidStaticNetwork(c)
    PROVE  /\ \E h \in 1 .. AddressBits - 1 : SameSubnetHosts(c, h)
           /\ c.ip \notin ReservedAddresses /\ c.gateway \notin ReservedAddresses
  <1>1. c.ip \in SUBSET Bits /\ c.gateway \in SUBSET Bits /\ c.subnet \in SUBSET Bits
    BY DEF RakConfigs, Addresses32
  <1>2. PICK h \in 1 .. AddressBits - 1 :
          Bits \ c.subnet = 0 .. h - 1 /\ c.subnet = h .. AddressBits - 1
    BY <1>1, MaskIsPrefix DEF ValidStaticNetwork
  <1> DEFINE host == 0 .. h - 1
  <1>3. host = Bits \ c.subnet  BY <1>2
  <1> HIDE DEF host
  <1>4. /\ c.ip # c.gateway /\ c.gateway \cap c.subnet = c.ip \cap c.subnet
        /\ c.ip # c.ip \cap c.subnet /\ c.ip # (c.ip \cap c.subnet) \union host
        /\ c.gateway # c.ip \cap c.subnet /\ c.gateway # (c.ip \cap c.subnet) \union host
    BY <1>3 DEF ValidStaticNetwork
  <1>5. c.ip \ host = c.ip \cap c.subnet /\ c.gateway \ host = c.gateway \cap c.subnet
    BY <1>1, <1>3
  <1>6. c.ip \cap host # {} /\ c.ip \cap host # host
    BY <1>4, <1>5
  <1>7. c.gateway \cap host # {} /\ c.gateway \cap host # host
    BY <1>4, <1>5
  <1>8. SameSubnetHosts(c, h)
    BY <1>2, <1>4, <1>5, <1>6, <1>7 DEF SameSubnetHosts, host
  <1> QED  BY <1>8 DEF ValidStaticNetwork, UsableUnicast

\* A configuration that the next boot takes as it is.
BootableSettings == {c \in RakConfigs : ValidSettings(c) /\ IsLabel(c.hostname)}
RakInv == stored \in BootableSettings /\ editing \in BootableSettings /\ changes \in 0 .. RakChanges

\* What validateAndNormalize() accepts and returns, the next boot takes as it is.
LEMMA NormalizedBoots ==
    ASSUME NEW c \in RakConfigs, ValidSettings(c) PROVE Normalized(c) \in BootableSettings
  <1>1. Sanitized(c.hostname) \in Seq(Characters) /\ IsLabel(Sanitized(c.hostname))
    BY SanitizedIsLabel DEF RakConfigs
  <1>2. Normalized(c) \in RakConfigs /\ Normalized(c).hostname = Sanitized(c.hostname)
        /\ Normalized(c).port = c.port /\ Normalized(c).static = c.static
        /\ Normalized(c).ip = c.ip /\ Normalized(c).subnet = c.subnet
        /\ Normalized(c).gateway = c.gateway /\ Normalized(c).dns = c.dns
    BY <1>1 DEF Normalized, RakConfigs
  <1>3. ValidStaticNetwork(Normalized(c)) = ValidStaticNetwork(c)
    BY <1>2 DEF ValidStaticNetwork
  <1>4. ValidSettings(Normalized(c))
    BY <1>2, <1>3 DEF ValidSettings, ValidOptionalDns
  <1> QED  BY <1>1, <1>2, <1>4 DEF BootableSettings

\* So are the defaults.
LEMMA DefaultsBoot == Defaults \in BootableSettings
  <1>1. <<"lower">> \in Seq(Characters)  BY DEF Characters
  <1>2. Sanitized(<<"lower">>) \in Seq(Characters) /\ IsLabel(Sanitized(<<"lower">>))
    BY <1>1, SanitizedIsLabel
  <1>3. Defaults \in RakConfigs
    BY <1>2 DEF Defaults, RakConfigs, Addresses32, Zero, Ports, DEFAULT_PORT
  <1>4. ValidSettings(Defaults)
    BY DEF Defaults, ValidSettings, ValidOptionalDns, DEFAULT_PORT, HTTP_PORT
  <1> QED  BY <1>2, <1>3, <1>4 DEF BootableSettings, Defaults

\* persist() keeps the invariant, whether the save worked or not.
LEMMA PersistKeeps ==
    ASSUME RakInv, changes < RakChanges, NEW c \in RakConfigs, Persist(c) PROVE RakInv'
  <1>1. Normalized(c) \in BootableSettings  BY NormalizedBoots DEF Persist
  <1>2. Encoded(Normalized(c)) \in BootableSettings  BY <1>1, NormalizedBoots DEF Encoded, BootableSettings
  <1>3. changes' \in 0 .. RakChanges  BY RakAssumption DEF Persist, RakInv
  <1> QED  BY <1>1, <1>2, <1>3 DEF Persist, RakInv

\* A member of the JSON request is a value of its field.
LEMMA MemberKeepsType ==
    ASSUME NEW c \in RakConfigs, NEW m \in JsonMembers, NEW x \in JsonValues(m)
    PROVE  [c EXCEPT ![m] = x] \in RakConfigs
  <1>1. SampleAddresses \subseteq Addresses32 /\ SampleMasks \subseteq Addresses32
    BY RakAssumption DEF Addresses32
  <1>2. <<"other", "upper">> \in Seq(Characters)  BY DEF Characters
  <1> USE DEF JsonValues, RakConfigs
  <1>3. CASE m = "hostname"  BY <1>2, <1>3
  <1>4. CASE m = "static"  BY <1>4
  <1>5. CASE m = "port"  BY <1>5
  <1>6. CASE m = "subnet"  BY <1>1, <1>6
  <1>7. CASE m = "identity"  BY <1>7
  <1>8. CASE m = "ip"  BY <1>1, <1>8
  <1>9. CASE m = "gateway"  BY <1>1, <1>9
  <1>10. CASE m = "dns"  BY <1>1, <1>10
  <1> QED  BY <1>3, <1>4, <1>5, <1>6, <1>7, <1>8, <1>9, <1>10 DEF JsonMembers

\* The JSON request keeps the invariant.
LEMMA JsonKeeps ==
    ASSUME RakInv, changes < RakChanges, JsonPosted PROVE RakInv'
  <1>1. PICK first, second \in JsonMembers : \E x \in JsonValues(first), y \in JsonValues(second) :
          Persist([editing EXCEPT ![first] = x, ![second] = y])
    BY DEF JsonPosted
  <1>2. PICK x \in JsonValues(first), y \in JsonValues(second) :
          Persist([editing EXCEPT ![first] = x, ![second] = y])
    BY <1>1
  <1>3. [editing EXCEPT ![first] = x] \in RakConfigs
    BY MemberKeepsType DEF RakInv, BootableSettings
  <1>4. [[editing EXCEPT ![first] = x] EXCEPT ![second] = y] \in RakConfigs
    BY <1>3, MemberKeepsType
  <1> QED  BY <1>2, <1>4, PersistKeeps

\* So do the forms.
LEMMA HandlersKeep ==
    ASSUME RakInv, changes < RakChanges, HostnamePosted \/ NetworkPosted \/ IdentityPosted
    PROVE  RakInv'
  <1>1. editing \in RakConfigs  BY DEF RakInv, BootableSettings
  <1>2. SampleAddresses \subseteq Addresses32 /\ SampleMasks \subseteq Addresses32
        /\ Zero \in Addresses32
    BY RakAssumption DEF Addresses32, Zero
  <1>3. CASE HostnamePosted
    <2>1. PICK text \in Texts : Persist([editing EXCEPT !.hostname = text])
      BY <1>3 DEF HostnamePosted
    <2>2. text \in Seq(Characters)  BY RakAssumption DEF Texts
    <2>3. [editing EXCEPT !.hostname = text] \in RakConfigs  BY <1>1, <2>2 DEF RakConfigs
    <2> QED  BY <2>1, <2>3, PersistKeeps
  <1>4. CASE NetworkPosted
    <2>1. CASE \E port \in Ports, ip, gateway, dns \in SampleAddresses, subnet \in SampleMasks :
                 Persist([editing EXCEPT !.static = TRUE, !.ip = ip, !.subnet = subnet,
                                         !.gateway = gateway, !.dns = dns, !.port = port])
      <3>1. PICK port \in Ports, ip, gateway, dns \in SampleAddresses, subnet \in SampleMasks :
                 Persist([editing EXCEPT !.static = TRUE, !.ip = ip, !.subnet = subnet,
                                         !.gateway = gateway, !.dns = dns, !.port = port])
        BY <2>1
      <3>2. [editing EXCEPT !.static = TRUE, !.ip = ip, !.subnet = subnet,
                            !.gateway = gateway, !.dns = dns, !.port = port] \in RakConfigs
        BY <1>1, <1>2 DEF RakConfigs
      <3> QED  BY <3>1, <3>2, PersistKeeps
    <2>2. CASE \E port \in Ports :
                 Persist([editing EXCEPT !.static = FALSE, !.ip = Zero, !.subnet = Zero,
                                         !.gateway = Zero, !.dns = Zero, !.port = port])
      <3>1. PICK port \in Ports :
                 Persist([editing EXCEPT !.static = FALSE, !.ip = Zero, !.subnet = Zero,
                                         !.gateway = Zero, !.dns = Zero, !.port = port])
        BY <2>2
      <3>2. [editing EXCEPT !.static = FALSE, !.ip = Zero, !.subnet = Zero,
                            !.gateway = Zero, !.dns = Zero, !.port = port] \in RakConfigs
        BY <1>1, <1>2 DEF RakConfigs
      <3> QED  BY <3>1, <3>2, PersistKeeps
    <2> QED  BY <1>4, <2>1, <2>2 DEF NetworkPosted
  <1>5. CASE IdentityPosted
    <2>1. PICK v \in {0, 1} : Persist([editing EXCEPT !.identity = v])
      BY <1>5 DEF IdentityPosted
    <2>2. [editing EXCEPT !.identity = v] \in RakConfigs  BY <1>1 DEF RakConfigs
    <2> QED  BY <2>1, <2>2, PersistKeeps
  <1> QED  BY <1>3, <1>4, <1>5

\* Every step keeps the invariant.
LEMMA RakStep == RakInv /\ [RakNext]_rakVars => RakInv'
  <1> SUFFICES ASSUME RakInv, [RakNext]_rakVars PROVE RakInv'  OBVIOUS
  <1>1. CASE changes < RakChanges /\ (HostnamePosted \/ NetworkPosted \/ IdentityPosted)
    BY <1>1, HandlersKeep
  <1>2. CASE changes < RakChanges /\ JsonPosted  BY <1>2, JsonKeeps
  <1>3. CASE Restarted  BY <1>3, DefaultsBoot DEF Restarted, RakInv
  <1>4. CASE FactoryErased  BY <1>4, DefaultsBoot, RakAssumption DEF FactoryErased, RakInv
  <1>5. CASE UNCHANGED rakVars  BY <1>5 DEF rakVars, RakInv
  <1> QED  BY <1>1, <1>2, <1>3, <1>4, <1>5 DEF RakNext

\* The record in flash and the server's copy are always ones that the next boot takes as
\* they are.
THEOREM SettingsInvariant == RakSpec => []RakInv
  <1>1. RakInit => RakInv  BY DefaultsBoot, RakAssumption DEF RakInit, RakInv
  <1> QED  BY <1>1, RakStep, PTL DEF RakSpec

\* Every variable keeps its type (rak4631_config.cpp, rak4631_web_handlers.cpp).
THEOREM SettingsTypeCorrect == RakSpec => []RakTypeOK
  <1>1. RakInv => RakTypeOK  BY DEF RakInv, BootableSettings, RakTypeOK
  <1> QED  BY <1>1, SettingsInvariant, PTL

\* What that means for each of them.
LEMMA BootableBoots ==
    ASSUME NEW c \in BootableSettings
    PROVE  /\ Decodes(c) /\ Normalized(c) = c
           /\ IsLabel(c.hostname) /\ IsLabel(EffectiveHostname(c)) /\ EffectiveHostname(c) # <<>>
           /\ c.port \notin {0, HTTP_PORT}
           /\ c.static => /\ \E h \in 1 .. AddressBits - 1 : SameSubnetHosts(c, h)
                          /\ c.ip \notin ReservedAddresses /\ c.gateway \notin ReservedAddresses
  <1>1. /\ c \in RakConfigs /\ ValidSettings(c)
        /\ IsLabel(c.hostname) /\ c.hostname \in Seq(Characters)
    BY DEF BootableSettings, RakConfigs
  <1>2. Sanitized(c.hostname) = c.hostname  BY <1>1, LabelIsSanitized
  <1>3. Normalized(c) = c  BY <1>1, <1>2 DEF Normalized, RakConfigs
  <1>4. IsLabel(Generated) /\ Generated # <<>>
    <2>1. HostnameLength \in Nat \ {0} /\ Len(Generated) = HostnameLength
          /\ \A i \in 1 .. HostnameLength : Generated[i] = "lower"
      BY RakAssumption DEF Generated
    <2>2. Generated # <<>>
      <3>1. Len(<<>>) = 0  OBVIOUS
      <3> QED  BY <2>1, <3>1
    <2> HIDE DEF Generated
    <2> QED  BY <2>1, <2>2 DEF IsLabel
  <1>5. IsLabel(EffectiveHostname(c)) /\ EffectiveHostname(c) # <<>>
    BY <1>1, <1>2, <1>4 DEF EffectiveHostname
  <1> QED  BY <1>1, <1>3, <1>5, ValidIsReachable DEF Decodes, ValidSettings

LEMMA RakInvBoots == RakInv => StoredConfigBoots
  BY BootableBoots DEF RakInv, StoredConfigBoots

\* Whatever requests were sent and whichever saves failed, the modem boots with what it
\* holds and stays reachable: a network of two hosts, a port that is not the management
\* server's, a hostname that is a label (rak4631_config.cpp:104-223).
THEOREM SettingsBoot == RakSpec => []StoredConfigBoots
  BY RakInvBoots, SettingsInvariant, PTL
=============================================================================
