--------------------------- MODULE W5100sHttpProofs ---------------------------
(***************************************************************************)
(* The management server for every number of values and chunks and every   *)
(* deadline: what is owed stays armed, no save is undone, one command at a *)
(* time, and DFU only after the whole answer.                              *)
(***************************************************************************)
EXTENDS W5100sHttp, TLAPS

\* Outside an answer nothing of one is left, on either side.
NoAnswer ==
    clientState # "WRITING" =>
        /\ chunksLeft = 0 /\ heard = 0 /\ answer = "NONE"
        /\ sendState = "IDLE" /\ chip.send = "idle"

\* Between two chunks the peer has acknowledged exactly those that are behind.
BetweenChunks ==
    clientState = "WRITING" /\ sendState = "IDLE" =>
        /\ chunksLeft \in 1 .. Chunks /\ heard = Chunks - chunksLeft
        /\ chip.send = "idle"

\* While a chunk is out its flags are clear until it is acknowledged or given up.
ChunkOut ==
    sendState # "IDLE" =>
        /\ clientState = "WRITING" /\ reader = "settled"
        /\ chunksLeft \in 1 .. Chunks
        /\ chip.send # "idle" => ~chip.sendOk /\ ~chip.timedOut
        /\ heard = IF chip.sendOk THEN Chunks - chunksLeft + 1 ELSE Chunks - chunksLeft

\* DFU is armed only under its own answer or after it; a restart that is owed is armed.
Transitions ==
    /\ deferred.mode = "NONE" => ~deferred.responseClosed
    /\ deferred.mode = "BLE_OTA" =>
          deferred.responseClosed \/ (clientState = "WRITING" /\ answer = "BLE_OTA")
    /\ RestartStaysArmed

HttpInv == TypeOK /\ NoAnswer /\ BetweenChunks /\ ChunkOut /\ Transitions

-----------------------------------------------------------------------------
\* What a pass of loop() does to a client, the transition not being committed.
Served ==
    /\ ~Committed
    /\ \/ clientState = "IDLE" /\ Accept
       \/ clientState = "READING" /\ (QueueError \/ ReadByte)
       \/ clientState = "READY" /\ reader = "settled" /\ Dispatch
       \/ clientState # "READING" /\ Settle
       \/ CloseClient(FALSE)
       \/ clientState = "WRITING" /\ reader = "settled" /\ (SendChunk \/ CommandTaken \/ ChunkSent)
Restarted == Begin(stored) /\ UNCHANGED acceptable
Elsewhere ==
    \/ ReceiveTaken \/ SendTaken \/ PeerAcknowledges \/ SendTimesOut \/ PeerGone
    \/ AddressChanges \/ Tick

\* The steps of the system, sorted by what they touch.
LEMMA Steps ==
    ASSUME [Next]_vars
    PROVE  Served \/ Restarted \/ FactoryReset \/ Elsewhere \/ UNCHANGED vars
  <1>1. ASSUME Loop PROVE Served \/ Restarted
    <2>1. CASE Execute
      BY <2>1 DEF Execute, Restarted
    <2>2. CASE ~Committed /\ ~ipUsable /\ clientState # "IDLE" /\ CloseClient(FALSE)
      BY <2>2 DEF Served
    <2>3. CASE ~Committed /\ Accept
      BY <2>3 DEF Served, Accept
    <2>4. CASE ~Committed /\ Read
      BY <2>4 DEF Served, Read, ReadNothing
    <2>5. CASE ~Committed /\ Serve
      BY <2>5 DEF Served, Serve, Settled
    <2>6. CASE ~Committed /\ Write
      BY <2>6 DEF Served, Write, Settled
    <2> QED BY <1>1, <2>1, <2>2, <2>3, <2>4, <2>5, <2>6 DEF Loop
  <1> QED
    BY <1>1 DEF Next, Environment, Elsewhere, PowerLoss, Restarted

\* The deadlines are always ages.
LEMMA Ages ==
    ASSUME TypeOK, NEW ts
    PROVE  Start(ts) \in [Timers -> Nat] /\ Quiet \in [Timers -> Nat]
  BY DEF TypeOK, Start, Quiet

\* A record of a socket stays one.
Sockets == [connected : BOOLEAN, send : {"idle", "given", "out"}, sendOk : BOOLEAN,
            timedOut : BOOLEAN]
Transits == [mode : Modes, responseClosed : BOOLEAN]
LEMMA Fresh == NoSocket \in Sockets /\ Idle \in Transits
  BY DEF NoSocket, Sockets, Idle, Transits, Modes

LEMMA Records ==
    ASSUME TypeOK, NEW m \in Modes
    PROVE  /\ Armed(m) \in Transits /\ ResponseClosed \in Transits /\ ResponseAborted \in Transits
  <1>1. deferred \in Transits
    BY DEF TypeOK, Transits
  <1> QED
    BY <1>1 DEF Idle, Transits, Armed, ResponseClosed, ResponseAborted, Modes

\* Saves and resets: the configuration, its copy and what a reader may find.
ConfigType ==
    /\ managementConfig \in Configs /\ stored \in Configs
    /\ acceptable \in [Fields -> SUBSET Values] /\ owed \in BOOLEAN

LEMMA SaveType ==
    ASSUME ConfigType, NEW f \in Fields, NEW v \in Values, Persist(f, v)
    PROVE  ConfigType'
  <1>1. [managementConfig EXCEPT ![f] = v] \in Configs
    BY DEF ConfigType, Configs
  <1>2. /\ [acceptable EXCEPT ![f] = {v}] \in [Fields -> SUBSET Values]
        /\ [acceptable EXCEPT ![f] = @ \cup {v}] \in [Fields -> SUBSET Values]
    BY DEF ConfigType
  <1> QED
    BY <1>1, <1>2 DEF ConfigType, Persist, CopyOf

LEMMA ConfigStep ==
    ASSUME ConfigType, [Next]_vars
    PROVE  ConfigType'
  <1>1. Defaults \in Configs /\ [f \in Fields |-> {Factory}] \in [Fields -> SUBSET Values]
    BY ValueAssumption DEF Defaults, Configs
  <1>2. [f \in Fields |-> acceptable[f] \cup {Factory}] \in [Fields -> SUBSET Values]
    BY ValueAssumption DEF ConfigType
  <1>3. CASE Served
    <2>1. CASE \E f \in Fields, v \in Values : Persist(f, v)
      BY <2>1, SaveType
    <2>2. CASE UNCHANGED <<managementConfig, stored, acceptable>> /\ (owed' \in {owed, TRUE})
      BY <2>2 DEF ConfigType
    <2> QED
      BY <1>3, <2>1, <2>2 DEF Served, Accept, QueueError, ReadByte, Dispatch, Settle, CloseClient,
         SendChunk, CommandTaken, ChunkSent, config
  <1>4. CASE Restarted
    BY <1>4 DEF Restarted, Begin, ConfigType
  <1>5. CASE FactoryReset
    BY <1>1, <1>2, <1>5 DEF FactoryReset, Begin, ConfigType
  <1>6. CASE Elsewhere \/ UNCHANGED vars
    BY <1>6 DEF Elsewhere, ReceiveTaken, SendTaken, PeerAcknowledges, SendTimesOut, PeerGone,
       AddressChanges, Tick, config, vars, ConfigType
  <1> QED BY <1>3, <1>4, <1>5, <1>6, Steps
-----------------------------------------------------------------------------
\* The states of the client, the socket, the transition and the deadlines.
ControlType ==
    /\ clientState \in {"IDLE", "READING", "READY", "WRITING"}
    /\ sendState \in {"IDLE", "COMMAND_PENDING", "ACK_PENDING"}
    /\ reader \in {"settled", "unacknowledged", "pending"}
    /\ deferred \in Transits /\ age \in [Timers -> Nat]
    /\ ipUsable \in BOOLEAN /\ answer \in Modes /\ chip \in Sockets

LEMMA ResponseType ==
    ASSUME TypeOK, NEW m \in Modes, QueueResponse(m)
    PROVE  /\ clientState' = "WRITING" /\ sendState' = sendState /\ ipUsable' = ipUsable
           /\ deferred' \in Transits /\ age' \in [Timers -> Nat] /\ answer' \in Modes
  BY Records, Ages DEF QueueResponse

LEMMA CloseType ==
    ASSUME TypeOK, NEW done \in BOOLEAN, CloseClient(done)
    PROVE  ControlType'
  <1>1. chip' \in Sockets
    BY DEF TypeOK, CloseClient, Sockets
  <1> QED
    BY <1>1, Records, Ages DEF TypeOK, CloseClient, ControlType, Modes

LEMMA RestartType ==
    ASSUME TypeOK, NEW saved, Begin(saved)
    PROVE  ControlType'
  BY Fresh, Ages DEF TypeOK, Begin, ControlType, Modes

LEMMA ControlStep ==
    ASSUME TypeOK, [Next]_vars
    PROVE  ControlType'
  <1> USE DEF ControlType
  <1>0. ControlType
    BY DEF TypeOK, Transits, Sockets
  <1>1. CASE Served
    <2>1. CASE Accept
      <3>1. chip' \in Sockets
        BY <1>0, <2>1 DEF Accept, Sockets
      <3> QED BY <1>0, <2>1, <3>1, Ages DEF Accept
    <2>2. CASE \E m \in Modes : QueueResponse(m) /\ UNCHANGED <<chip, reader>>
      BY <1>0, <2>2, ResponseType
    <2>3. CASE ReadByte
      <3>1. CASE QueueResponse("NONE")
        BY <1>0, <2>3, <3>1, ResponseType DEF ReadByte, Modes
      <3> QED BY <1>0, <2>3, <3>1, Ages DEF ReadByte
    <2>4. CASE Dispatch
      <3>1. \E m \in Modes : QueueResponse(m) /\ UNCHANGED <<chip, reader>>
        BY <2>4 DEF Dispatch, QueueError, Persist, Modes
      <3> QED BY <2>2, <3>1
    <2>5. CASE QueueError
      BY <2>2, <2>5 DEF QueueError, Modes
    <2>6. CASE Settle
      BY <1>0, <2>6, Ages DEF Settle
    <2>7. CASE SendChunk \/ CommandTaken
      <3>1. chip' \in Sockets
        BY <1>0, <2>7 DEF SendChunk, SendGiven, CommandTaken, Sockets
      <3> QED BY <1>0, <2>7, <3>1 DEF SendChunk, CommandTaken
    <2>8. CASE CloseClient(FALSE) \/ CloseClient(TRUE)
      BY <2>8, CloseType
    <2>9. CASE ChunkSent /\ ~CloseClient(TRUE)
      <3>1. chip' \in Sockets
        BY <1>0, <2>9 DEF ChunkSent, Sockets
      <3> QED BY <1>0, <2>9, <3>1 DEF ChunkSent
    <2> QED BY <1>1, <2>1, <2>3, <2>4, <2>5, <2>6, <2>7, <2>8, <2>9 DEF Served
  <1>2. CASE Restarted \/ FactoryReset
    BY <1>0, <1>2, RestartType DEF Restarted, FactoryReset, server
  <1>3. CASE Elsewhere
    <2>1. age' \in [Timers -> Nat]
      BY <1>0, <1>3, Ages DEF Elsewhere, ReceiveTaken, SendTaken, PeerAcknowledges, SendTimesOut,
         PeerGone, AddressChanges, Tick
    <2>2. chip' \in Sockets
      BY <1>0, <1>3 DEF Elsewhere, ReceiveTaken, SendTaken, PeerAcknowledges, SendTimesOut,
         PeerGone, AddressChanges, Tick, Sockets
    <2> QED
      BY <1>0, <1>3, <2>1, <2>2 DEF Elsewhere, ReceiveTaken, SendTaken, PeerAcknowledges,
         SendTimesOut, PeerGone, AddressChanges, Tick, server
  <1>4. CASE UNCHANGED vars
    BY <1>0, <1>4 DEF vars, server
  <1> QED BY <1>1, <1>2, <1>3, <1>4, Steps
-----------------------------------------------------------------------------
\* The chunks of the answer, on both sides.
Counted == NoAnswer /\ BetweenChunks /\ ChunkOut

LEMMA ServedCounted ==
    ASSUME TypeOK, Counted, Served
    PROVE  Counted' /\ chunksLeft' \in 0 .. Chunks /\ heard' \in 0 .. Chunks
  <1> USE DEF NoAnswer, BetweenChunks, ChunkOut, Counted
  <1>1. Chunks \in Nat /\ Chunks # 0 /\ chunksLeft \in 0 .. Chunks /\ heard \in 0 .. Chunks
        /\ chip \in Sockets
    BY TimeAssumption DEF TypeOK, Sockets
  <1>2. CASE clientState = "IDLE" /\ Accept
    BY <1>1, <1>2 DEF Accept, Sockets
  <1>3. CASE clientState = "READING" /\ (QueueError \/ ReadByte)
    BY <1>1, <1>3 DEF QueueError, ReadByte, QueueResponse
  <1>4. CASE clientState = "READY" /\ Dispatch
    <2>1. \E m \in Modes : QueueResponse(m) /\ UNCHANGED <<chip, reader>>
      BY <1>4 DEF Dispatch, QueueError, Persist, Modes
    <2> QED BY <1>1, <1>4, <2>1 DEF QueueResponse
  <1>5. CASE Settle
    BY <1>1, <1>5 DEF Settle
  <1>6. CASE CloseClient(FALSE) \/ CloseClient(TRUE)
    <2>1. chip'.send = "idle"
      BY <1>1, <1>6 DEF CloseClient, Sockets
    <2>2. clientState' = "IDLE" /\ sendState' = "IDLE" /\ chunksLeft' = 0 /\ heard' = 0
          /\ answer' = "NONE"
      BY <1>6 DEF CloseClient
    <2> QED BY <1>1, <2>1, <2>2
  <1>7. CASE clientState = "WRITING" /\ reader = "settled" /\ SendChunk
    BY <1>1, <1>7 DEF SendChunk, SendGiven, Sockets
  <1>8. CASE CommandTaken
    BY <1>1, <1>8 DEF CommandTaken
  <1>9. CASE ChunkSent /\ ~CloseClient(TRUE)
    <2>1. heard = Chunks - chunksLeft + 1 /\ chunksLeft \in 1 .. Chunks /\ chip.send = "idle"
          /\ clientState = "WRITING"
      BY <1>1, <1>9 DEF ChunkSent, Sockets
    <2>2. chunksLeft' = chunksLeft - 1 /\ chunksLeft' # 0 /\ heard' = heard
          /\ sendState' = "IDLE" /\ clientState' = "WRITING" /\ chip'.send = "idle"
      BY <1>1, <1>9, <2>1 DEF ChunkSent, ChunksAfter, Sockets
    <2> QED BY <1>1, <2>1, <2>2
  <1> QED BY <1>2, <1>3, <1>4, <1>5, <1>6, <1>7, <1>8, <1>9 DEF Served

LEMMA OthersCounted ==
    ASSUME TypeOK, Counted, Restarted \/ FactoryReset \/ Elsewhere \/ UNCHANGED vars
    PROVE  Counted' /\ chunksLeft' \in 0 .. Chunks /\ heard' \in 0 .. Chunks
  <1> USE DEF NoAnswer, BetweenChunks, ChunkOut, Counted
  <1>1. Chunks \in Nat /\ Chunks # 0 /\ chunksLeft \in 0 .. Chunks /\ heard \in 0 .. Chunks
        /\ chip \in Sockets
    BY TimeAssumption DEF TypeOK, Sockets
  <1>2. CASE Restarted \/ FactoryReset
    BY <1>1, <1>2 DEF Restarted, FactoryReset, Begin, NoSocket, server
  <1>3. CASE ReceiveTaken \/ AddressChanges \/ Tick \/ UNCHANGED vars
    BY <1>1, <1>3 DEF ReceiveTaken, AddressChanges, Tick, server, vars
  <1>4. CASE SendTaken \/ SendTimesOut \/ PeerGone
    BY <1>1, <1>4 DEF SendTaken, SendTimesOut, PeerGone, server, Sockets
  <1>5. CASE PeerAcknowledges
    <2>1. sendState # "IDLE" /\ ~chip.sendOk /\ heard = Chunks - chunksLeft
          /\ chunksLeft \in 1 .. Chunks
      BY <1>1, <1>5 DEF PeerAcknowledges, TypeOK
    <2>2. chip'.sendOk /\ chip'.send = "idle" /\ heard' = heard + 1
          /\ UNCHANGED <<clientState, sendState, chunksLeft, reader, answer>>
      BY <1>1, <1>5 DEF PeerAcknowledges, server, Sockets
    <2> QED BY <1>1, <2>1, <2>2
  <1> QED BY <1>2, <1>3, <1>4, <1>5 DEF Elsewhere
-----------------------------------------------------------------------------
\* What is armed follows the answers.
LEMMA ServedTransitions ==
    ASSUME TypeOK, Counted, Transitions, Served
    PROVE  Transitions'
  <1> USE DEF Transitions, RestartStaysArmed
  <1>1. deferred \in Transits
    BY DEF TypeOK, Transits
  <1>2. CASE UNCHANGED <<clientState, deferred, answer, owed>>
    BY <1>2
  <1>3. CASE CloseClient(FALSE) \/ CloseClient(TRUE)
    BY <1>1, <1>3 DEF CloseClient, ResponseClosed, ResponseAborted, Idle, Transits, Modes, config
  <1>4. CASE clientState \in {"IDLE", "READING", "READY"} /\ UNCHANGED <<deferred, owed>>
    BY <1>4
  <1>5. CASE /\ clientState # "WRITING"
             /\ \E m \in Modes : QueueResponse(m) /\ (owed' => owed \/ m = "REBOOT")
    <2>1. deferred.mode # "BLE_OTA"
      BY <1>5 DEF Served, Committed
    <2> QED BY <1>1, <1>5, <2>1 DEF QueueResponse, Armed, Transits, Modes
  <1>6. CASE Accept
    BY <1>4, <1>6 DEF Accept, config
  <1>7. CASE clientState = "READING" /\ ReadByte
    <2>1. owed' = owed /\ "NONE" \in Modes
      BY <1>7 DEF ReadByte, config, Modes
    <2>2. CASE QueueResponse("NONE")
      BY <1>5, <1>7, <2>1, <2>2
    <2>3. CASE clientState' \in {"READING", "READY"} /\ deferred' = deferred
      BY <1>7, <2>1, <2>3
    <2> QED BY <1>7, <2>2, <2>3 DEF ReadByte
  <1>8. CASE clientState = "READING" /\ QueueError
    BY <1>5, <1>8 DEF QueueError, config, Modes
  <1>9. CASE clientState = "READY" /\ Dispatch
    <2>1. CASE \E m \in {"NONE", "BLE_OTA"} : QueueResponse(m) /\ (owed' => owed)
      BY <1>5, <1>9, <2>1 DEF Modes
    <2>2. CASE QueueResponse("REBOOT")
      BY <1>5, <1>9, <2>2 DEF Modes
    <2>3. CASE \E f \in Fields, v \in Values : Persist(f, v)
      <3>1. PICK f \in Fields, v \in Values : Persist(f, v)
        BY <2>3
      <3>2. CASE f # "httpPassword"
        BY <2>1, <2>2, <3>1, <3>2 DEF Persist
      <3>3. CASE f = "httpPassword"
        <4>1. QueueResponse("NONE")
          BY <3>1, <3>3 DEF Persist
        <4>2. owed' => owed
          BY <3>1, <3>3, Zenon DEF Persist
        <4> QED BY <2>1, <4>1, <4>2
      <3> QED BY <3>2, <3>3
    <2> QED BY <1>9, <2>1, <2>2, <2>3 DEF Dispatch, QueueError, config
  <1>10. CASE Settle \/ SendChunk \/ CommandTaken \/ (ChunkSent /\ ~CloseClient(TRUE))
    BY <1>2, <1>10 DEF Settle, SendChunk, CommandTaken, ChunkSent, config
  <1> QED
    BY <1>3, <1>6, <1>7, <1>8, <1>9, <1>10 DEF Served

LEMMA OthersTransitions ==
    ASSUME TypeOK, Counted, Transitions, Restarted \/ FactoryReset \/ Elsewhere \/ UNCHANGED vars
    PROVE  Transitions'
  <1> USE DEF Transitions, RestartStaysArmed
  <1>1. CASE UNCHANGED <<clientState, deferred, answer, owed>>
    BY <1>1
  <1>2. CASE Restarted \/ FactoryReset
    BY <1>2 DEF Restarted, FactoryReset, Begin, Idle, server
  <1> QED
    BY <1>1, <1>2 DEF Elsewhere, ReceiveTaken, SendTaken, PeerAcknowledges, SendTimesOut, PeerGone,
       AddressChanges, Tick, config, server, vars

LEMMA InitHolds == Init => HttpInv
  <1> SUFFICES ASSUME Init PROVE HttpInv
    OBVIOUS
  <1>1. Defaults \in Configs /\ Quiet \in [Timers -> Nat]
    BY ValueAssumption DEF Defaults, Configs, Quiet
  <1>2. TypeOK
    <2>1. /\ managementConfig \in Configs /\ stored \in Configs /\ age \in [Timers -> Nat]
          /\ acceptable \in [Fields -> SUBSET Values]
      BY <1>1, ValueAssumption DEF Init
    <2>2. chip \in Sockets /\ deferred \in Transits
      BY Fresh, Zenon DEF Init
    <2>3. chunksLeft \in 0 .. Chunks /\ heard \in 0 .. Chunks
      BY TimeAssumption DEF Init
    <2>4. owed \in BOOLEAN /\ ipUsable \in BOOLEAN /\ answer \in Modes
      BY DEF Init, Modes
    <2>5. /\ clientState \in {"IDLE", "READING", "READY", "WRITING"}
          /\ sendState \in {"IDLE", "COMMAND_PENDING", "ACK_PENDING"}
          /\ reader \in {"settled", "unacknowledged", "pending"}
      BY DEF Init
    <2> QED BY <2>1, <2>2, <2>3, <2>4, <2>5 DEF TypeOK, Sockets, Transits
  <1> QED
    BY <1>2 DEF Init, HttpInv, NoAnswer, BetweenChunks, ChunkOut, Transitions,
       RestartStaysArmed, NoSocket, Idle

LEMMA StepHolds == HttpInv /\ [Next]_vars => HttpInv'
  <1> SUFFICES ASSUME HttpInv, [Next]_vars PROVE HttpInv'
    OBVIOUS
  <1>1. TypeOK /\ Counted /\ Transitions /\ ConfigType
    BY DEF HttpInv, Counted, ConfigType, TypeOK
  <1>2. Counted' /\ chunksLeft' \in 0 .. Chunks /\ heard' \in 0 .. Chunks
    BY <1>1, Steps, ServedCounted, OthersCounted
  <1>3. Transitions'
    BY <1>1, Steps, ServedTransitions, OthersTransitions
  <1>4. ConfigType' /\ ControlType'
    BY <1>1, ConfigStep, ControlStep
  <1>5. TypeOK'
    BY <1>2, <1>4 DEF TypeOK, ConfigType, ControlType, Sockets, Transits
  <1> QED BY <1>2, <1>3, <1>5 DEF HttpInv, Counted

\* The inductive invariant of the server: which chunks the peer has acknowledged in
\* every state of the send machine, and what may be armed when.
THEOREM ServerInvariant == Spec => []HttpInv
  BY InitHolds, StepHolds, PTL DEF Spec

\* Every variable keeps its type; no more chunks are acknowledged than there are.
THEOREM ServerTypeCorrect == Spec => []TypeOK
  BY ServerInvariant, PTL DEF HttpInv

\* SEND and RECV never meet in the socket's command register.
THEOREM CommandsSeparate == Spec => []OneCommandAtATime
  <1>1. HttpInv => OneCommandAtATime
    BY DEF HttpInv, ChunkOut, OneCommandAtATime
  <1> QED BY <1>1, ServerInvariant, PTL

\* A restart that was promised or is needed is not cancelled or replaced.
THEOREM OwedRestartArmed == Spec => []RestartStaysArmed
  <1>1. HttpInv => RestartStaysArmed
    BY DEF HttpInv, Transitions
  <1> QED BY <1>1, ServerInvariant, PTL

\* The modem goes into DFU only after the peer acknowledged the whole answer.
THEOREM DfuFollowsAnswer == Spec => DfuOnlyWhenHeard
  <1> DEFINE Commits == deferred'.mode = "BLE_OTA" /\ deferred'.responseClosed
                        /\ ~deferred.responseClosed
  <1>1. ASSUME HttpInv, [Next]_vars, Commits PROVE answer = "BLE_OTA" /\ heard = Chunks
    <2>1. deferred \in Transits /\ TypeOK
      BY <1>1 DEF HttpInv, TypeOK, Transits
    <2>2. deferred' # deferred /\ deferred' # Idle /\ deferred' # ResponseAborted
      BY <1>1, <2>1 DEF Idle, ResponseAborted, Transits
    <2>3. \A m \in Modes : deferred' # Armed(m)
      BY <1>1, <2>1 DEF Armed, Transits
    <2>4. ~Restarted /\ ~FactoryReset /\ ~Elsewhere /\ ~UNCHANGED vars
      BY <2>2 DEF Restarted, FactoryReset, Begin, Elsewhere, ReceiveTaken, SendTaken,
         PeerAcknowledges, SendTimesOut, PeerGone, AddressChanges, Tick, vars
    <2>5. Served
      BY <1>1, <2>4, Steps
    <2>6. \A m \in Modes : ~QueueResponse(m)
      BY <2>3 DEF QueueResponse
    <2>7. ~QueueError /\ ~ReadByte /\ ~Dispatch
      BY <2>2, <2>6 DEF QueueError, ReadByte, Dispatch, Persist, Modes
    <2>8. ~CloseClient(FALSE)
      BY <2>2 DEF CloseClient
    <2>9. ChunkSent /\ CloseClient(TRUE)
      BY <2>2, <2>5, <2>7, <2>8 DEF Served, Accept, Settle, SendChunk, CommandTaken, ChunkSent
    <2>10. deferred.mode = "BLE_OTA" /\ answer = "BLE_OTA"
      BY <1>1, <2>1, <2>9 DEF CloseClient, ResponseClosed, HttpInv, Transitions, Transits
    <2>11. heard = Chunks - chunksLeft + 1 /\ chunksLeft - 1 = 0
      BY <1>1, <2>1, <2>9 DEF ChunkSent, ChunksAfter, CloseClient, HttpInv, ChunkOut
    <2> QED BY <2>1, <2>10, <2>11, TimeAssumption DEF TypeOK
  <1> QED
    BY <1>1, ServerInvariant, PTL DEF Spec, DfuOnlyWhenHeard
-----------------------------------------------------------------------------
\* Every field, in the flash and in the server's copy, is one a reader may find.
LEMMA PersistKeeps ==
    ASSUME ConfigType, UpdatesKept, NEW f \in Fields, NEW v \in Values, Persist(f, v)
    PROVE  UpdatesKept'
  BY DEF ConfigType, Configs, UpdatesKept, Persist, CopyOf

LEMMA UpdatesStep ==
    ASSUME TypeOK, UpdatesKept, [Next]_vars
    PROVE  UpdatesKept'
  <1>0. ConfigType
    BY DEF TypeOK, ConfigType
  <1>1. CASE UNCHANGED <<managementConfig, stored, acceptable>>
    BY <1>1 DEF UpdatesKept
  <1>2. CASE \E f \in Fields, v \in Values : Persist(f, v)
    BY <1>0, <1>2, PersistKeeps
  <1>3. CASE Restarted
    BY <1>3 DEF Restarted, Begin, UpdatesKept
  <1>4. CASE FactoryReset
    BY <1>4 DEF FactoryReset, Begin, Defaults, UpdatesKept
  <1> QED
    BY <1>1, <1>2, <1>3, <1>4, Steps DEF Served, Accept, QueueError, ReadByte, Dispatch, Settle,
       CloseClient, SendChunk, CommandTaken, ChunkSent, Elsewhere, ReceiveTaken, SendTaken,
       PeerAcknowledges, SendTimesOut, PeerGone, AddressChanges, Tick, config, vars

\* No save undoes an earlier one, whatever fails, is cut short or restarts in between.
THEOREM SavesKept == Spec => []UpdatesKept
  <1>1. Init => UpdatesKept
    BY DEF Init, Defaults, UpdatesKept
  <1>2. TypeOK /\ UpdatesKept /\ [Next]_vars => UpdatesKept'
    BY UpdatesStep
  <1> QED BY <1>1, <1>2, ServerTypeCorrect, PTL DEF Spec
===============================================================================
