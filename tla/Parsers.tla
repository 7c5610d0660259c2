------------------------------- MODULE Parsers -------------------------------
(***************************************************************************)
(* The two parsers that read the network byte by byte: host frames         *)
(* (frame_parser.cpp) and management requests (http_request_parser.cpp).   *)
(* Both write fixed buffers at indices the peer's bytes advance.           *)
(*                                                                         *)
(* A byte is what the state looks at: a number below Radix in a frame's    *)
(* length, carriage return, line feed or another in a request.  What a     *)
(* completed line says is an input of the step that completes it.          *)
(***************************************************************************)
EXTENDS Naturals

CONSTANTS
    Radix, PayloadCapacity,                       \* of FrameParser::payload
    MAX_REQUEST_LINE_BYTES, MAX_HEADER_BYTES, MAX_HEADER_COUNT, MAX_BODY_BYTES

ASSUME FrameAssumption == Radix \in Nat \ {0} /\ PayloadCapacity \in Nat
ASSUME RequestAssumption ==
    /\ MAX_REQUEST_LINE_BYTES \in Nat /\ MAX_HEADER_BYTES \in Nat
    /\ MAX_HEADER_COUNT \in Nat /\ MAX_BODY_BYTES \in Nat
    /\ MAX_REQUEST_LINE_BYTES <= MAX_HEADER_BYTES

VARIABLES frame, req

parserVars == <<frame, req>>
-----------------------------------------------------------------------------
(* FrameParser *)

FrameBytes == 0 .. Radix - 1
FrameStates == {"WAIT_SYNC", "READ_CMD", "READ_LEN0", "READ_LEN1", "READ_PAYLOAD",
                "READ_CRC0", "READ_CRC1"}

\* Mutant: the length is checked before its high byte has come.
LowByteTooBig(low, high) == low > PayloadCapacity

TooBig(low, high) == low + Radix * high > PayloadCapacity

\* READ_LEN1: the whole length decides what comes.
LengthRead(high) ==
    LET len == frame.len + Radix * high
    IN [frame EXCEPT !.len = len, !.idx = 0,
          !.state = IF TooBig(frame.len, high) THEN "WAIT_SYNC"
                    ELSE IF len = 0 THEN "READ_CRC0" ELSE "READ_PAYLOAD"]

PayloadRead ==
    [frame EXCEPT !.idx = @ + 1,
                  !.state = IF frame.idx + 1 >= frame.len THEN "READ_CRC0" ELSE @]

\* frameparser_feed(); the callbacks after a checksum are TCPServer's and the host's.
FrameFeed(b) ==
    CASE frame.state = "WAIT_SYNC" ->
           frame' \in {frame, [frame EXCEPT !.state = "READ_CMD"]}
      [] frame.state = "READ_CMD" -> frame' = [frame EXCEPT !.state = "READ_LEN0"]
      [] frame.state = "READ_LEN0" -> frame' = [frame EXCEPT !.len = b, !.state = "READ_LEN1"]
      [] frame.state = "READ_LEN1" -> frame' = LengthRead(b)
      [] frame.state = "READ_PAYLOAD" -> frame' = PayloadRead
      [] frame.state = "READ_CRC0" -> frame' = [frame EXCEPT !.state = "READ_CRC1"]
      [] frame.state = "READ_CRC1" -> frame' = [frame EXCEPT !.state = "WAIT_SYNC"]

\* reset(), with every new client.
FrameReset == frame' = [frame EXCEPT !.state = "WAIT_SYNC"]

FrameInit == frame = [state |-> "WAIT_SYNC", len |-> 0, idx |-> 0]
FrameNext == (\E b \in FrameBytes : FrameFeed(b)) \/ FrameReset
-----------------------------------------------------------------------------
(* HttpRequest::Parser *)

Verdicts == {"BAD_REQUEST", "METHOD_NOT_ALLOWED", "PAYLOAD_TOO_LARGE", "TIMED_OUT"}
Results == Verdicts \union {"NEED_MORE", "COMPLETE"}

\* What Content-Length declares: nothing, no number, or a number, MAX_BODY_BYTES + 1
\* for all that are longer.
NoLength == MAX_BODY_BYTES + 2
BadLength == MAX_BODY_BYTES + 3
Declared == 0 .. BadLength

FreshRequest ==
    [state |-> "REQUEST_LINE", result |-> "NEED_MORE", method |-> "NONE",
     lineLength |-> 0, sawCr |-> FALSE, wire |-> 0, storage |-> 0, count |-> 0,
     declared |-> NoLength, encoded |-> FALSE, contentLength |-> 0, bodyLength |-> 0]

Fail(r, result) == [r EXCEPT !.state = "FAILED", !.result = result]
Done(r) == [r EXCEPT !.state = "DONE", !.result = "COMPLETE"]

\* feedByte() in the body.
BodyByte(r) ==
    LET p == [r EXCEPT !.bodyLength = @ + 1]
    IN IF r.bodyLength >= r.contentLength \/ r.bodyLength >= MAX_BODY_BYTES
       THEN Fail(r, "BAD_REQUEST")
       ELSE IF p.bodyLength = r.contentLength THEN Done(p) ELSE p

LineLimit(r) == IF r.state = "REQUEST_LINE" THEN MAX_REQUEST_LINE_BYTES ELSE MAX_HEADER_BYTES

LineByte(r) ==
    IF r.lineLength < LineLimit(r) THEN [r EXCEPT !.lineLength = @ + 1]
    ELSE Fail(r, IF r.state = "REQUEST_LINE" THEN "BAD_REQUEST" ELSE "PAYLOAD_TOO_LARGE")

\* parseRequestLine(): refused, or the method and a route.
RequestLines(r) ==
    LET p == [r EXCEPT !.lineLength = 0]
        with(m) == [p EXCEPT !.method = m]
    IN {Fail(p, "BAD_REQUEST")}
       \union (IF r.lineLength = 0 THEN {}
               ELSE {Fail(p, "METHOD_NOT_ALLOWED")}
                    \union {Fail(with(m), "BAD_REQUEST") : m \in {"GET", "POST"}}
                    \union {[with(m) EXCEPT !.state = "HEADERS"] : m \in {"GET", "POST"}})

\* A header line in the storage: malformed or known already, or a new one.
HeaderLines(r) ==
    LET stored == [r EXCEPT !.storage = @ + r.lineLength + 1]
        taken == [stored EXCEPT !.count = @ + 1, !.lineLength = 0]
    IN {Fail(stored, "BAD_REQUEST")}
       \union (IF r.lineLength < 2 THEN {} ELSE {taken})
       \union (IF r.lineLength < 2 \/ r.encoded THEN {} ELSE {[taken EXCEPT !.encoded = TRUE]})
       \union (IF r.lineLength < 2 \/ r.declared # NoLength THEN {}
               ELSE {[taken EXCEPT !.declared = d] : d \in Declared \ {NoLength}})

\* finalizeHeaders()
HeadersEnd(r) ==
    LET length == IF r.declared = NoLength THEN 0 ELSE r.declared
        p == [r EXCEPT !.contentLength = length, !.lineLength = 0]
    IN IF r.encoded \/ r.declared = BadLength THEN Fail(r, "BAD_REQUEST")
       ELSE IF length > MAX_BODY_BYTES THEN Fail(r, "PAYLOAD_TOO_LARGE")
       ELSE IF (r.method = "POST" /\ r.declared = NoLength) \/ (r.method = "GET" /\ length # 0)
       THEN Fail(r, "BAD_REQUEST")
       ELSE IF length = 0 THEN Done(p) ELSE [p EXCEPT !.state = "BODY"]

\* completeLine()
LinesCompleted(r) ==
    IF r.state = "REQUEST_LINE" THEN RequestLines(r)
    ELSE LET p == [r EXCEPT !.wire = @ + r.lineLength + 2]
         IN IF p.wire > MAX_HEADER_BYTES THEN {Fail(p, "PAYLOAD_TOO_LARGE")}
            ELSE IF p.lineLength = 0 THEN {HeadersEnd(p)}
            ELSE IF p.count >= MAX_HEADER_COUNT \/ p.storage + p.lineLength + 1 > MAX_HEADER_BYTES
            THEN {Fail(p, "PAYLOAD_TOO_LARGE")}
            ELSE HeaderLines(p)

\* feedByte()
ByteOutcomes(r, b) ==
    IF r.state = "BODY" THEN {BodyByte(r)}
    ELSE IF r.sawCr # (b = "lf") THEN {Fail(r, "BAD_REQUEST")}
    ELSE IF r.sawCr THEN LinesCompleted([r EXCEPT !.sawCr = FALSE])
    ELSE IF b = "cr" THEN {[r EXCEPT !.sawCr = TRUE]} ELSE {LineByte(r)}

\* feed(), byte by byte: one after the end of the request spoils it, in the same
\* call (`more') or in a later one.
RequestFeed(b, more) ==
    \E r \in CASE req.state = "FAILED" -> {req}
               [] req.state = "DONE" -> {Fail(req, "BAD_REQUEST")}
               [] req.state \notin {"DONE", "FAILED"} -> ByteOutcomes(req, b) :
        req' = IF more /\ r.state = "DONE" THEN Fail(r, "BAD_REQUEST") ELSE r

\* poll() after a silence, and finish().
RequestGivenUp ==
    /\ req.state \notin {"DONE", "FAILED"}
    /\ \E result \in {"TIMED_OUT", "BAD_REQUEST"} : req' = Fail(req, result)

\* reset(), with every new client.
RequestReset == req' = FreshRequest

RequestInit == req = FreshRequest
RequestNext ==
    \/ \E b \in {"cr", "lf", "other"}, more \in BOOLEAN : RequestFeed(b, more)
    \/ RequestGivenUp \/ RequestReset
-----------------------------------------------------------------------------
ParsersInit == FrameInit /\ RequestInit
ParsersNext == \/ FrameNext /\ UNCHANGED req
               \/ RequestNext /\ UNCHANGED frame
ParsersSpec == ParsersInit /\ [][ParsersNext]_parserVars
-----------------------------------------------------------------------------
ParsersTypeOK ==
    /\ frame \in [state : FrameStates, len : Nat, idx : Nat]
    /\ req \in
         [state : {"REQUEST_LINE", "HEADERS", "BODY", "DONE", "FAILED"}, result : Results,
          method : {"NONE", "GET", "POST"}, lineLength : Nat, sawCr : BOOLEAN,
          wire : Nat, storage : Nat, count : Nat, declared : Declared, encoded : BOOLEAN,
          contentLength : Nat, bodyLength : Nat]

\* A frame is written within its buffer and reaches its checksum with exactly the bytes
\* it announced, so that none of an earlier frame is delivered with it.
FrameInBounds ==
    /\ frame.state = "READ_PAYLOAD" => frame.idx < frame.len /\ frame.len <= PayloadCapacity
    /\ frame.state \in {"READ_CRC0", "READ_CRC1"} =>
         frame.idx = frame.len /\ frame.len <= PayloadCapacity

\* No line, header or body leaves its buffer.
RequestInBounds ==
    /\ req.lineLength <= MAX_HEADER_BYTES
    /\ req.storage <= MAX_HEADER_BYTES /\ req.count <= MAX_HEADER_COUNT
    /\ req.bodyLength <= MAX_BODY_BYTES

\* A request is complete with exactly the body it declared, and only then.
CompleteIsWhole ==
    req.result = "COMPLETE" =>
        /\ req.state = "DONE" /\ req.bodyLength = req.contentLength
        /\ req.method = "POST" => req.declared = req.contentLength

\* Whatever bytes a peer sends in whatever pieces, both parsers write within their
\* buffers and deliver exactly what was announced (frame_parser.cpp, feedByte()).
ParsersStayInBounds == FrameInBounds /\ RequestInBounds /\ CompleteIsWhole
=============================================================================
