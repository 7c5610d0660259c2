------------------------------ MODULE W5100sHttp ------------------------------
(***************************************************************************)
(* The management server of the RAK4631 with a W5100S                      *)
(* (w5100s_http_server.cpp, w5100s_bounded_rx.cpp), the saves and restarts *)
(* that its requests ask for (rak4631_web_handlers.cpp) and the restart    *)
(* that waits for the answer (bootloader_manager.cpp).  One client at a    *)
(* time; loop() does one small step per pass.  The chip, the network and   *)
(* the peer run beside it.                                                 *)
(*                                                                         *)
(* What a request says is an input of the step that first looks at it.     *)
(* Times count in steps of Tick, up to the deadline they are compared to.  *)
(***************************************************************************)
EXTENDS Naturals

CONSTANTS
    Values,                 \* values of a configuration field
    Factory,                \* the value of a fresh configuration
    Chunks,                 \* chunks of an answer, header and body
    READ_TIMEOUT, REQUEST_DEADLINE, RESPONSE_DEADLINE,
    COMMAND_DEADLINE, TRANSITION_DELAY, REBOOT_FALLBACK_DELAY

ASSUME ValueAssumption == Factory \in Values
ASSUME TimeAssumption ==
    /\ READ_TIMEOUT \in Nat /\ REQUEST_DEADLINE \in Nat /\ RESPONSE_DEADLINE \in Nat
    /\ COMMAND_DEADLINE \in Nat /\ TRANSITION_DELAY \in Nat /\ REBOOT_FALLBACK_DELAY \in Nat
    /\ Chunks \in Nat \ {0}

VARIABLES
    clientState,
    sendState,
    chunksLeft,             \* of the answer; from its offsets
    reader,                 \* RECV: "settled", "unacknowledged" bytes, or "pending"
    deferred,               \* deferredTransition
    age,                    \* time since each deadline's start
    managementConfig,
    stored,                 \* what Rak4631ConfigStore would load
    ipUsable,               \* EthernetManager::hasIP()
    chip,                   \* the client's socket
    answer,                 \* the transition the answer announces
    heard,                  \* chunks of the answer the peer acknowledged
    owed,                   \* a restart was promised or is needed since boot
    acceptable              \* per field, the values a reader may find

server == <<clientState, sendState, chunksLeft, reader>>
config == <<managementConfig, stored, acceptable, owed>>
vars == <<server, deferred, age, config, ipUsable, chip, answer, heard>>

\* httpPassword is used at once, the others after a restart.
Fields == {"httpPassword", "hostname"}
Configs == [Fields -> Values]
Modes == {"NONE", "BLE_OTA", "REBOOT"}
Idle == [mode |-> "NONE", responseClosed |-> FALSE]

Limit == [request |-> REQUEST_DEADLINE, activity |-> READ_TIMEOUT,
          response |-> RESPONSE_DEADLINE, receive |-> COMMAND_DEADLINE,
          armed |-> REBOOT_FALLBACK_DELAY, closed |-> TRANSITION_DELAY]
Timers == DOMAIN Limit
Due(t) == age[t] >= Limit[t]
Start(ts) == [t \in Timers |-> IF t \in ts THEN 0 ELSE age[t]]
-----------------------------------------------------------------------------
NoSocket == [connected |-> FALSE, send |-> "idle", sendOk |-> FALSE, timedOut |-> FALSE]
Quiet == [t \in Timers |-> 0]

Defaults == [f \in Fields |-> Factory]

Init ==
    /\ clientState = "IDLE" /\ sendState = "IDLE" /\ chunksLeft = 0 /\ reader = "settled"
    /\ deferred = Idle /\ age = Quiet /\ chip = NoSocket
    /\ managementConfig = Defaults /\ stored = Defaults
    /\ ipUsable \in BOOLEAN
    /\ answer = "NONE" /\ heard = 0 /\ owed = FALSE
    /\ acceptable = [f \in Fields |-> {Factory}]

\* begin() after a reset: the snapshot is what was saved.
Begin(saved) ==
    /\ clientState' = "IDLE" /\ sendState' = "IDLE" /\ chunksLeft' = 0 /\ reader' = "settled"
    /\ deferred' = Idle /\ age' = Quiet /\ chip' = NoSocket
    /\ stored' = saved /\ managementConfig' = saved
    /\ answer' = "NONE" /\ heard' = 0 /\ owed' = FALSE
    /\ UNCHANGED ipUsable
-----------------------------------------------------------------------------
\* DeferredTransition::arm(), responseClosed() and responseAborted().
Armed(m) ==
    IF deferred.mode # "NONE" \/ m = "NONE" THEN deferred
    ELSE [mode |-> m, responseClosed |-> FALSE]
ResponseClosed ==
    IF deferred.mode = "NONE" THEN deferred ELSE [deferred EXCEPT !.responseClosed = TRUE]
\* Mutant: an answer that fails cancels every transition.
AbortedAlike == IF deferred.responseClosed THEN deferred ELSE Idle
ResponseAborted ==
    IF deferred.responseClosed \/ deferred.mode = "REBOOT" THEN deferred ELSE Idle

Committed == deferred.mode # "NONE" /\ deferred.responseClosed

\* Mutant: no fallback for a restart.
FiresAnswered == Committed /\ Due("closed")

\* DeferredTransition::poll(), at the top of loop().
Fires ==
    \/ Committed /\ Due("closed")
    \/ deferred.mode = "REBOOT" /\ Due("armed")
Execute == Fires /\ Begin(stored) /\ UNCHANGED acceptable
-----------------------------------------------------------------------------
\* closeClient(): Sock_CLOSE and clearClientState().  The socket's interrupt
\* flags stay as they are.
CloseClient(responseCompleted) ==
    /\ clientState' = "IDLE" /\ sendState' = "IDLE" /\ chunksLeft' = 0 /\ reader' = "settled"
    /\ chip' = [chip EXCEPT !.connected = FALSE, !.send = "idle"]
    /\ deferred' = IF responseCompleted THEN ResponseClosed ELSE ResponseAborted
    /\ age' = Start({"request", "activity", "response", "receive"})
    /\ answer' = "NONE" /\ heard' = 0
    /\ UNCHANGED <<config, ipUsable>>

\* queueResponse(), then armTransition() for the answer of a management request.
QueueResponse(m) ==
    /\ clientState' = "WRITING" /\ chunksLeft' = Chunks
    /\ answer' = m /\ heard' = 0
    /\ deferred' = Armed(m)
    /\ age' = Start({"request", "activity", "response"})
    /\ UNCHANGED <<sendState, ipUsable>>
QueueError == QueueResponse("NONE") /\ UNCHANGED <<config, reader, chip>>

\* Mutant: the server's copy is not brought up to date.
OldCopy(saved) == managementConfig

\* saveManagementConfig() keeps what was saved.
CopyOf(saved) == saved

\* persist() and saveManagementConfig(): one field of the current configuration is
\* replaced.  A save that fails may still have written the record, or have taken
\* back what an earlier one left.
Persist(f, v) ==
    LET new == [managementConfig EXCEPT ![f] = v]
        restart == f # "httpPassword"
    IN \/ /\ stored' = new /\ managementConfig' = CopyOf(new)
          /\ acceptable' = [acceptable EXCEPT ![f] = {v}]
          /\ owed' = (owed \/ restart)
          /\ QueueResponse(IF restart THEN "REBOOT" ELSE "NONE")
       \/ /\ stored' \in {stored, managementConfig, new}
          /\ acceptable' = [acceptable EXCEPT ![f] = @ \cup {v}]
          /\ UNCHANGED <<managementConfig, owed>>
          /\ QueueResponse("NONE")

\* dispatch() and handlePost(): a page or a refusal, a change, a restart, or DFU.
Dispatch ==
    \/ QueueError
    \/ /\ UNCHANGED <<reader, chip>>
       /\ \/ \E f \in Fields, v \in Values : Persist(f, v)
          \/ /\ QueueResponse("REBOOT") /\ owed' = TRUE
             /\ UNCHANGED <<managementConfig, stored, acceptable>>
          \/ QueueResponse("BLE_OTA") /\ UNCHANGED config
-----------------------------------------------------------------------------
\* Mutant: a byte that was read and not yet acknowledged does not matter.
Taken == reader # "pending"

\* Reader::settled(): no byte unacknowledged and no RECV in the command register.
Settled == reader = "settled"
Stalled == reader = "pending" /\ Due("receive")
Settle ==
    /\ reader = "unacknowledged" /\ reader' = "pending"
    /\ age' = Start({"receive"})
    /\ UNCHANGED <<clientState, sendState, chunksLeft, deferred, config, ipUsable, chip,
                   answer, heard>>

\* Reader::poll() and Parser::feed(): a byte that leaves the request incomplete,
\* completes it, or spoils it; RECV follows a batch or the last byte there is.
ReadByte ==
    /\ reader # "pending" /\ reader' \in {"unacknowledged", "pending"}
    /\ \/ /\ clientState' \in {"READING", "READY"}
          /\ age' = Start({"activity", "receive"})
          /\ UNCHANGED <<sendState, chunksLeft, deferred, answer, heard, ipUsable>>
       \/ QueueResponse("NONE")
    /\ UNCHANGED <<config, chip>>

\* Nothing to read, or a RECV still pending: the parser's own timeout.
ReadNothing == reader # "unacknowledged" /\ Due("activity") /\ QueueError

Read ==
    /\ clientState = "READING"
    /\ \/ Due("request") /\ QueueError
       \/ /\ ~Due("request")
          /\ \/ ReadByte
             \/ Stalled /\ QueueError
             \/ reader = "settled" /\ ~chip.connected /\ CloseClient(FALSE)
             \/ ~Stalled /\ ReadNothing

Serve ==
    /\ clientState = "READY"
    /\ \/ Settled /\ Dispatch
       \/ Settle
       \/ Stalled /\ CloseClient(FALSE)
-----------------------------------------------------------------------------
\* Mutant: the flags of the previous SEND are left in the register.
KeepFlags == [chip EXCEPT !.send = "given"]

\* The chunk is in the chip's buffer; its flags are cleared, then SEND is given.
SendGiven == [chip EXCEPT !.send = "given", !.sendOk = FALSE, !.timedOut = FALSE]

SendChunk ==
    /\ sendState = "IDLE" /\ sendState' = "COMMAND_PENDING"
    /\ chip' = SendGiven
    /\ UNCHANGED <<clientState, chunksLeft, reader, deferred, age, config, ipUsable, answer, heard>>

CommandTaken ==
    /\ sendState = "COMMAND_PENDING" /\ chip.send # "given"
    /\ sendState' = "ACK_PENDING"
    /\ UNCHANGED <<clientState, chunksLeft, reader, deferred, age, config, ipUsable, chip,
                   answer, heard>>

\* Mutant: the offset is not moved on.
SameChunk == chunksLeft

\* The offset moves past the chunk.
ChunksAfter == chunksLeft - 1

ChunkSent ==
    /\ sendState = "ACK_PENDING" /\ ~chip.timedOut /\ chip.sendOk
    /\ IF ChunksAfter = 0 THEN CloseClient(TRUE)
       ELSE /\ chunksLeft' = ChunksAfter /\ sendState' = "IDLE"
            /\ chip' = [chip EXCEPT !.sendOk = FALSE]
            /\ UNCHANGED <<clientState, reader, deferred, age, config, ipUsable, answer, heard>>

\* Mutant: the answer has no deadline of its own.
LostClient == ~chip.connected \/ Stalled

\* writeOneChunk()
AnswerOver == Due("response") \/ ~chip.connected \/ Stalled
Write ==
    /\ clientState = "WRITING"
    /\ IF AnswerOver THEN CloseClient(FALSE)
       ELSE \/ Settle
            \/ /\ Settled
               /\ \/ SendChunk \/ CommandTaken \/ ChunkSent
                  \/ sendState = "ACK_PENDING" /\ chip.timedOut /\ CloseClient(FALSE)

\* server.accept() found a client; one from outside the LAN is answered 403.
Accept ==
    /\ clientState = "IDLE"
    /\ clientState' \in {"READING", "WRITING"}
    /\ chip' = [chip EXCEPT !.connected = TRUE]
    /\ age' = Start({"request", "activity", "response"})
    /\ chunksLeft' = IF clientState' = "WRITING" THEN Chunks ELSE 0
    /\ UNCHANGED <<sendState, reader, deferred, config, ipUsable, answer, heard>>

\* loop()
Loop ==
    \/ Execute
    \/ /\ ~Fires /\ ~Committed
       /\ \/ ~ipUsable /\ clientState # "IDLE" /\ CloseClient(FALSE)
          \/ ipUsable /\ (Accept \/ Read \/ Serve \/ Write)
-----------------------------------------------------------------------------
\* The chip empties its command register.
ReceiveTaken ==
    /\ reader = "pending" /\ reader' = "settled"
    /\ age' = Start({"receive"})
    /\ UNCHANGED <<clientState, sendState, chunksLeft, deferred, config, ipUsable, chip,
                   answer, heard>>
SendTaken ==
    /\ chip.send = "given" /\ chip' = [chip EXCEPT !.send = "out"]
    /\ UNCHANGED <<server, deferred, age, config, ipUsable, answer, heard>>

\* The peer acknowledges the chunk, or never does and the chip gives up.
PeerAcknowledges ==
    /\ chip.send = "out" /\ chip.connected
    /\ chip' = [chip EXCEPT !.send = "idle", !.sendOk = TRUE]
    /\ heard' = heard + 1
    /\ UNCHANGED <<server, deferred, age, config, ipUsable, answer>>
SendTimesOut ==
    /\ chip.send = "out"
    /\ chip' = [chip EXCEPT !.send = "idle", !.timedOut = TRUE, !.connected = FALSE]
    /\ UNCHANGED <<server, deferred, age, config, ipUsable, answer, heard>>

\* The peer resets the connection, or a new address reset the chip.
PeerGone ==
    /\ chip.connected /\ chip' = [chip EXCEPT !.connected = FALSE]
    /\ UNCHANGED <<server, deferred, age, config, ipUsable, answer, heard>>
AddressChanges == ipUsable' = ~ipUsable /\ UNCHANGED <<server, deferred, age, config, chip, answer, heard>>

\* The deadlines that run.
Running ==
    (IF clientState = "READING" THEN {"request", "activity"} ELSE {})
    \cup (IF clientState = "WRITING" THEN {"response"} ELSE {})
    \cup (IF reader = "pending" THEN {"receive"} ELSE {})
    \cup (IF deferred.mode = "REBOOT" THEN {"armed"} ELSE {})
    \cup (IF deferred.responseClosed THEN {"closed"} ELSE {})
Tick ==
    /\ \E t \in Running : ~Due(t)
    /\ age' = [t \in Timers |-> IF t \in Running /\ ~Due(t) THEN age[t] + 1 ELSE age[t]]
    /\ UNCHANGED <<server, deferred, config, ipUsable, chip, answer, heard>>

PowerLoss == Begin(stored) /\ UNCHANGED acceptable

\* CMD_WIFI_RESET: the defaults are saved and the MCU is reset; when that save
\* fails the modem goes on.
FactoryReset ==
    \/ Begin(Defaults) /\ acceptable' = [f \in Fields |-> {Factory}]
    \/ /\ stored' \in {stored, managementConfig, Defaults}
       /\ acceptable' = [f \in Fields |-> acceptable[f] \cup {Factory}]
       /\ UNCHANGED <<server, deferred, age, managementConfig, owed, ipUsable, chip, answer, heard>>

Environment ==
    \/ ReceiveTaken \/ SendTaken \/ PeerAcknowledges \/ SendTimesOut \/ PeerGone
    \/ AddressChanges \/ Tick \/ PowerLoss

Next == Loop \/ FactoryReset \/ Environment

\* loop() is called for ever, and time passes.  Neither the peer nor the chip has
\* to do anything.
Spec == Init /\ [][Next]_vars /\ WF_vars(Loop) /\ WF_vars(Tick)
-----------------------------------------------------------------------------
TypeOK ==
    /\ clientState \in {"IDLE", "READING", "READY", "WRITING"}
    /\ sendState \in {"IDLE", "COMMAND_PENDING", "ACK_PENDING"}
    /\ chunksLeft \in 0 .. Chunks /\ heard \in 0 .. Chunks
    /\ reader \in {"settled", "unacknowledged", "pending"}
    /\ deferred \in [mode : Modes, responseClosed : BOOLEAN]
    /\ age \in [Timers -> Nat]
    /\ managementConfig \in Configs /\ stored \in Configs
    /\ acceptable \in [Fields -> SUBSET Values]
    /\ ipUsable \in BOOLEAN /\ owed \in BOOLEAN /\ answer \in Modes
    /\ chip \in [connected : BOOLEAN, send : {"idle", "given", "out"},
                 sendOk : BOOLEAN, timedOut : BOOLEAN]

\* No save undoes an earlier one: in the flash and in the server's copy each field
\* has the value of its last acknowledged save, or of a later one that failed
\* (persist() edits a copy of managementConfig, whatever the flash holds by then).
UpdatesKept ==
    \A f \in Fields : stored[f] \in acceptable[f] /\ managementConfig[f] \in acceptable[f]

\* The command register of the socket never holds two commands: SEND waits until
\* RECV was taken and no byte is read while a SEND is out (settled(), poll()).
OneCommandAtATime == ~(reader = "pending" /\ sendState # "IDLE")

\* Whoever was promised a restart, or saved something that needs one, gets a plain
\* restart: nothing cancels or replaces it, whatever becomes of the answer and
\* of later clients (bootloader_manager.cpp: a durable mutation requires a reboot).
RestartStaysArmed == owed => deferred.mode = "REBOOT"

\* BLE DFU is committed only when the peer acknowledged every chunk of the answer
\* that announces it (API.md: not until the complete response is acknowledged).
DfuOnlyWhenHeard ==
    [][(deferred'.mode = "BLE_OTA" /\ deferred'.responseClosed /\ ~deferred.responseClosed)
        => answer = "BLE_OTA" /\ heard = Chunks]_vars

\* An owed restart comes, however slow or dead the client and the chip are.
RestartComes == owed ~> ~owed

\* The only slot for clients is always given back.
ClientLetGo == clientState # "IDLE" ~> clientState = "IDLE"

\* The server never hangs on a client or on the chip: what it owes happens and its slot
\* comes back (loop(), the deadlines of its client and send states).
ServerGoesOn == RestartComes /\ ClientLetGo

\* POST /dfu/ble "enters the installed Nordic Bluetooth DFU bootloader" once the
\* complete response is acknowledged.
DfuAnswerKept ==
    [][(answer = "BLE_OTA" /\ deferred'.responseClosed /\ ~deferred.responseClosed)
        => deferred'.mode = "BLE_OTA"]_vars
=============================================================================
