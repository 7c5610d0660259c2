------------------------------ MODULE W5100sTcp ------------------------------
(***************************************************************************)
(* EthernetManager and TCPServer of the RAK4631 with a W5100S              *)
(* (w5100s_ethernet_transport.cpp): link and DHCP supervision, and the one *)
(* host session whose answers leave through a queue of one frame, a chunk  *)
(* at a time, without ever waiting for the chip.  The socket's reader      *)
(* (w5100s_bounded_rx.cpp) is in its three states.                         *)
(*                                                                         *)
(* The chip reports a socket as closed between any two calls of a pass.     *)
(* A deadline is in `late' once it has elapsed, which may happen at any    *)
(* time.  The frames of the parser are inputs of the step that reads them. *)
(***************************************************************************)
EXTENDS Naturals

CONSTANTS FrameChunks,         \* chunks of 256 bytes of the longest frame
          RequiredToken   \* a token is configured

ASSUME FrameChunksAssumption == FrameChunks \in Nat \ {0}
ASSUME RequiredTokenAssumption == RequiredToken \in BOOLEAN

VARIABLES
    link,                 \* linkStatusIsUp()
    localIP,              \* Ethernet.localIP() is not 0.0.0.0
    eth,                  \* dhcpMode, dhcpLeaseValid, gotIP, lastLinkUp
    lastIpUsable,
    session,              \* client, socketReader, authenticated and the send state
    sock,                 \* the chip's side of the client's socket
    wire,                 \* the last chunk given to the chip in this session
    late,                 \* the deadlines that have elapsed
    turn                  \* which loop() is next

tcpVars == <<link, localIP, eth, lastIpUsable, session, sock, wire, late, turn>>

Deadlines == {"maintain", "retry", "send", "receive"}
Lengths == 1 .. FrameChunks

\* txLength, txOffset in chunks, sendState, closeAfterTx; `id' tells a frame from one
\* that overwrites it.
NoTx == [len |-> 0, off |-> 0, state |-> "IDLE", close |-> FALSE, id |-> 0]
NoSession == [client |-> FALSE, rx |-> "settled", authenticated |-> FALSE, refused |-> FALSE,
              tx |-> NoTx]
NoChunk == [id |-> 0, chunk |-> 0, of |-> 0, given |-> 0]
ClosedSock == [open |-> FALSE, send |-> "idle", sendOk |-> FALSE, timedOut |-> FALSE]

txBusy(s) == s.tx.len # 0 \/ s.tx.state # "IDLE"
Connected == session.client /\ sock.open
-----------------------------------------------------------------------------
(* EthernetManager *)

\* refreshIPString(): a cached address counts only with link and lease.
Refreshed(e, ip) == [e EXCEPT !.got = link /\ (e.dhcp => e.lease) /\ ip]
hasIP == Refreshed(eth, localIP).got

\* tryDhcp(): Ethernet.begin() forgets the address and may get one.
TryDhcp(e) ==
    /\ localIP' \in BOOLEAN
    /\ eth' = [e EXCEPT !.lease = localIP', !.got = localIP']
    /\ late' = late \ {"maintain", "retry"}

\* begin(), with the link as it is; without one DHCP is left for the loop.
EthernetBegin ==
    /\ link \in BOOLEAN /\ localIP \in BOOLEAN
    /\ \E dhcp \in BOOLEAN :
         /\ (dhcp /\ ~link) => ~localIP
         /\ ~dhcp => localIP
         /\ eth = [dhcp |-> dhcp, lease |-> dhcp /\ localIP,
                   got |-> link /\ localIP, seen |-> link]
         /\ late = IF dhcp /\ ~link THEN {"maintain", "retry"} ELSE {"maintain"}

\* The link changed between two polls: no lease is trusted, DHCP may start at once.
LinkChanged == "maintain" \in late /\ link # eth.seen
Polled ==
    LET e == [eth EXCEPT !.seen = link]
    IN IF LinkChanged /\ eth.dhcp THEN [e EXCEPT !.lease = FALSE, !.got = FALSE] ELSE e

\* What the poll, once a second, leaves: maintain() may report the lease as lost.
AfterPoll ==
    IF "maintain" \notin late THEN {eth}
    ELSE LET lost == IF Polled.dhcp /\ Polled.lease /\ link
                     THEN {[Polled EXCEPT !.lease = FALSE]} ELSE {}
         IN {Refreshed(e, localIP) : e \in {Polled} \union lost}

\* Mutant: only a new link asks DHCP again.
RetryOnLink == LinkChanged /\ eth.dhcp

RetryDue == "retry" \in late \/ (LinkChanged /\ eth.dhcp)

EthernetLoop ==
    /\ turn = "ethernet" /\ turn' = "tcp"
    /\ \E e \in AfterPoll :
         IF e.dhcp /\ ~e.got /\ link /\ RetryDue THEN TryDhcp(e)
         ELSE /\ eth' = e
              /\ late' = (late \ {"maintain"}) \union
                         (IF LinkChanged /\ eth.dhcp THEN {"retry"} ELSE {})
              /\ UNCHANGED localIP
    /\ UNCHANGED <<link, lastIpUsable, session, sock, wire>>
-----------------------------------------------------------------------------
(* TCPServer.  A pass is described by its outcomes, records of the session, *)
(* the socket, the wire and the deadlines.                                  *)

Now == [session |-> session, sock |-> sock, wire |-> wire, late |-> late]

\* The chip may close the socket before the next look at its status.
Shut(o) == [o EXCEPT !.sock.open = FALSE]
Closing(o) == {o, Shut(o)}

\* disconnectClient(): Sock_CLOSE, and all that belongs to the session is reset.
\* The socket's interrupt flags stay.
Disconnected(o) ==
    [o EXCEPT !.session = NoSession, !.wire = NoChunk, !.late = @ \ {"send"},
              !.sock = [o.sock EXCEPT !.open = FALSE, !.send = "idle"]]

\* resetTx() after the last chunk.
TxReset(o) == [o EXCEPT !.session.tx = NoTx, !.late = @ \ {"send"}]

\* buildFrame() into the queue; its deadline starts.
Queued(o, n) ==
    LET tx == [o.session.tx EXCEPT !.len = n, !.off = 0, !.id = 1 - @]
    IN [o EXCEPT !.session.tx = tx, !.late = @ \ {"send"}]

\* Mutant: the frame replaces what is in the queue.
SentAnyway(o, n) == Queued(o, n)

\* sendToClient(), write(): nothing is queued for a closed socket, and a frame that finds
\* the queue taken closes the client.
Sent(o, n) ==
    IF ~o.sock.open THEN o ELSE IF txBusy(o.session) THEN Disconnected(o) ELSE Queued(o, n)

\* onFrameOk() before authentication: the wrong token, or another command.  closeAfterTx
\* is set whether or not the error was queued.
Refused(o) ==
    LET q == Sent(o, 1)
    IN [q EXCEPT !.session.tx.close = TRUE, !.session.refused = TRUE]

MayCommand(s) == s.authenticated \/ ~RequiredToken

\* onFrameOk() and onFrameErr(): what one frame does.
Framed(o) ==
    {Sent(o, 1)}                                             \* onFrameErr, or AUTH again
    \union (IF MayCommand(o.session)
            THEN {o} \union {Sent(o, n) : n \in Lengths}     \* processHostCommand
            ELSE {Refused(o), [Sent(o, 1) EXCEPT !.session.authenticated = TRUE]})

\* Frames follow each other while none is queued, and the socket may close before each.
\* Two stand for any number: without an answer a third finds what the second left.
Batch(o) ==
    LET fed(S) == UNION {Framed(q) : q \in UNION {Closing(p) : p \in S}}
        first == fed({o})
    IN {o} \union first \union fed({q \in first : ~txBusy(q.session)})

\* Up to 256 bytes while no answer waits.  RECV follows a batch or the last byte.
ReadBytes(o) ==
    UNION {Batch([o EXCEPT !.session.rx = rx, !.late = @ \ {"receive"}])
             : rx \in {"unacknowledged", "pending"}}

\* The bytes left over are read whatever the socket's status; only without any is a closed
\* socket found, as is a length beyond the chip's buffer.
ReadFrom(o) ==
    IF txBusy(o.session) THEN {o}
    ELSE IF o.session.rx = "pending"
    THEN {IF "receive" \in o.late THEN Disconnected(o) ELSE o}
    ELSE {o, Disconnected(o)} \union ReadBytes(o)

SettleRx(o) == [o EXCEPT !.session.rx = "pending", !.late = @ \ {"receive"}]

\* The chunk is in the chip's buffer, its flags are cleared, then SEND is given.
ChunkGiven(o) ==
    [o EXCEPT !.session.tx.state = "COMMAND_PENDING",
              !.sock = [@ EXCEPT !.send = "given", !.sendOk = FALSE, !.timedOut = FALSE],
              !.wire = [id |-> o.session.tx.id, chunk |-> o.session.tx.off + 1,
                        of |-> o.session.tx.len,
                        given |-> IF @.chunk = @.of THEN 1 ELSE @.given + 1]]

\* Mutant: the client whose token was refused is kept.
FrameChunkSentKept(o) ==
    LET tx == o.session.tx
        p == [o EXCEPT !.sock.sendOk = FALSE]
    IN IF tx.off + 1 < tx.len
       THEN [p EXCEPT !.session.tx = [tx EXCEPT !.off = @ + 1, !.state = "IDLE"]]
       ELSE TxReset(p)

\* SEND_OK: the next chunk, or the end of the frame and of a refused client.
FrameChunkSent(o) ==
    LET tx == o.session.tx
        p == [o EXCEPT !.sock.sendOk = FALSE]
    IN IF tx.off + 1 < tx.len
       THEN [p EXCEPT !.session.tx = [tx EXCEPT !.off = @ + 1, !.state = "IDLE"]]
       ELSE IF tx.close THEN Disconnected(p) ELSE TxReset(p)

Overdue(o) == ~o.sock.open \/ "send" \in o.late

\* writeOneChunk()
Written(o) ==
    LET s == o.session
    IN CASE ~txBusy(s) -> {o}
         [] txBusy(s) /\ Overdue(o) -> {Disconnected(o)}
         [] txBusy(s) /\ ~Overdue(o) ->
            CASE s.rx = "pending" -> {IF "receive" \in o.late THEN Disconnected(o) ELSE o}
              [] s.rx = "unacknowledged" -> {SettleRx(o)}
              [] s.rx = "settled" ->
                 CASE s.tx.state = "COMMAND_PENDING" ->
                        {IF o.sock.send = "given" THEN o
                         ELSE [o EXCEPT !.session.tx.state = "ACK_PENDING"]}
                   [] s.tx.state = "ACK_PENDING" ->
                        {IF o.sock.timedOut THEN Disconnected(o)
                         ELSE IF o.sock.sendOk THEN FrameChunkSent(o) ELSE o}
                   [] s.tx.state = "IDLE" -> {o, ChunkGiven(o)}   \* o: no room in the chip

\* The client whose socket is still open is read, then written to.
Served(o) ==
    LET written(p) == IF p.session.client THEN UNION {Written(q) : q \in Closing(p)} ELSE {p}
    IN {Shut(o)} \union UNION {written(p) : p \in ReadFrom(o)}

\* accept(): a client of the LAN, one of elsewhere or none.
Accepted(o) ==
    LET new == [o EXCEPT !.session = [NoSession EXCEPT !.client = TRUE],
                         !.sock.open = TRUE, !.wire = NoChunk]
    IN {o} \union Served(new)

Become(o) == /\ session' = o.session /\ sock' = o.sock
             /\ wire' = o.wire /\ late' = o.late

\* loop(), once begin() has run; the listener restarts with the address.
TcpLoop ==
    /\ turn = "tcp" /\ turn' = "ethernet"
    /\ IF ~hasIP
       THEN /\ Become(IF session.client \/ txBusy(session) THEN Disconnected(Now) ELSE Now)
            /\ lastIpUsable' = FALSE
       ELSE /\ lastIpUsable' = TRUE
            /\ \E o \in IF Connected THEN Served(Now)
                        ELSE Accepted(IF session.client \/ txBusy(session)
                                      THEN Disconnected(Now) ELSE Now) : Become(o)
    /\ eth' = Refreshed(eth, localIP)
    /\ UNCHANGED <<link, localIP>>

\* broadcastFrame(): isClientReady(), then write().
Broadcast ==
    /\ hasIP /\ Connected /\ MayCommand(session)
    /\ \E n \in Lengths, o \in Closing(Now) : Become(Sent(o, n))
    /\ eth' = Refreshed(eth, localIP)
    /\ UNCHANGED <<link, localIP, lastIpUsable, turn>>
-----------------------------------------------------------------------------
(* The chip, the peer and the cable. *)

ChipOnly == UNCHANGED <<link, localIP, eth, lastIpUsable, late, turn>>

RecvTaken == /\ session.rx = "pending" /\ session' = [session EXCEPT !.rx = "settled"]
             /\ ChipOnly /\ UNCHANGED <<sock, wire>>
TcpSendTaken == /\ sock.send = "given" /\ sock' = [sock EXCEPT !.send = "out"]
             /\ ChipOnly /\ UNCHANGED <<session, wire>>
Acknowledged == /\ sock.send = "out" /\ sock.open
                /\ sock' = [sock EXCEPT !.send = "idle", !.sendOk = TRUE]
                /\ ChipOnly /\ UNCHANGED <<session, wire>>
SendTimedOut == /\ sock.send = "out"
                /\ sock' = [sock EXCEPT !.send = "idle", !.timedOut = TRUE, !.open = FALSE]
                /\ ChipOnly /\ UNCHANGED <<session, wire>>
TcpPeerGone == /\ sock.open /\ sock' = [sock EXCEPT !.open = FALSE]
            /\ ChipOnly /\ UNCHANGED <<session, wire>>

Cable == /\ link' = ~link
         /\ UNCHANGED <<localIP, eth, lastIpUsable, session, sock, wire, late, turn>>

Counting == {"maintain"} \union (IF eth.dhcp /\ ~eth.got THEN {"retry"} ELSE {})
            \union (IF txBusy(session) THEN {"send"} ELSE {})
            \union (IF session.rx = "pending" THEN {"receive"} ELSE {})
Passes(d) ==
    /\ d \in Counting \ late /\ late' = late \union {d}
    /\ UNCHANGED <<link, localIP, eth, lastIpUsable, session, sock, wire, turn>>

\* begin() of both, then loop(); the first chunks of the session come later.
TcpInit ==
    /\ EthernetBegin
    /\ lastIpUsable = FALSE /\ session = NoSession /\ sock = ClosedSock /\ wire = NoChunk
    /\ turn = "tcp"

TcpChip == RecvTaken \/ TcpSendTaken \/ Acknowledged \/ SendTimedOut \/ TcpPeerGone \/ Cable
TcpFirmware == EthernetLoop \/ TcpLoop
TcpNext == TcpFirmware \/ Broadcast \/ TcpChip \/ (\E d \in Deadlines : Passes(d))

\* loop() runs for ever and time passes; the chip and the peer need do nothing.
TcpFairness == WF_tcpVars(TcpFirmware) /\ \A d \in Deadlines : WF_tcpVars(Passes(d))
TcpSpec == TcpInit /\ [][TcpNext]_tcpVars /\ TcpFairness
-----------------------------------------------------------------------------
TcpTypeOK ==
    /\ link \in BOOLEAN /\ localIP \in BOOLEAN /\ lastIpUsable \in BOOLEAN
    /\ eth \in [dhcp : BOOLEAN, lease : BOOLEAN, got : BOOLEAN, seen : BOOLEAN]
    /\ session \in [client : BOOLEAN, rx : {"settled", "unacknowledged", "pending"},
                    authenticated : BOOLEAN, refused : BOOLEAN,
                    tx : [len : 0 .. FrameChunks, off : 0 .. FrameChunks, close : BOOLEAN, id : 0 .. 1,
                          state : {"IDLE", "COMMAND_PENDING", "ACK_PENDING"}]]
    /\ sock \in [open : BOOLEAN, send : {"idle", "given", "out"},
                 sendOk : BOOLEAN, timedOut : BOOLEAN]
    /\ wire \in [id : 0 .. 1, chunk : 0 .. FrameChunks, of : 0 .. FrameChunks,
                 given : 0 .. FrameChunks + 1]
    /\ late \subseteq Deadlines
    /\ turn \in {"tcp", "ethernet"}

\* What a session gives to the chip is whole frames: the chunks of a frame follow
\* each other, each once, and a frame begun stays in the queue until its last one,
\* however answers, broadcasts, deadlines and disconnections meet.
WholeFramesOnWire ==
    /\ wire.given = wire.chunk
    /\ wire.chunk < wire.of => txBusy(session) /\ session.tx.id = wire.id

\* A client whose token was refused is closed with its error: as long as its socket is
\* open it does not command and gets no second try, and its error is in the queue.  A
\* socket that closes between a frame and its error ends this: the rest of the bytes is
\* served, without an answer, before the next pass lets the client go.
RefusedClientCloses ==
    session.refused /\ session.client /\ sock.open =>
        txBusy(session) /\ session.tx.close /\ ~session.authenticated

\* An answer that is overdue leaves the queue: the peer takes it or the client is
\* let go, even when the chip never takes a command and nothing is acknowledged.
SendEnds == []<>("send" \notin late)

\* A cable that stays in and an address that stays lost mean that DHCP is asked
\* again and again.
EthernetRecovers ==
    <>[](link /\ eth.dhcp /\ ~hasIP) =>
        []<><<EthernetLoop /\ RetryDue /\ "retry" \notin late'>>_tcpVars
=============================================================================
