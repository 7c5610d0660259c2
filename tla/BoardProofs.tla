----------------------------- MODULE BoardProofs -----------------------------
(***************************************************************************)
(* What a board has around its radio, one component after the other.       *)
(*                                                                         *)
(* The two parsers: both stay within their buffers and deliver what was    *)
(* announced, for buffers and limits of any size.                          *)
(*                                                                         *)
(* The host session of a W5100S modem: what leaves for the chip is whole   *)
(* frames, and a refused client awaits its close, for any frame length.    *)
(* A pass is a chain of outcomes, so that the invariant is one of outcomes *)
(* and every operator of a pass keeps it.                                  *)
(*                                                                         *)
(* The telemetry that hosts read: each of the five sensors keeps an        *)
(* invariant of its own, and the one of the battery is that the plausible  *)
(* samples of a batch lie between two plausible readings, so that their    *)
(* mean does too.                                                          *)
(*                                                                         *)
(* Last the two users of millis() in loop(), the AGC schedule and the      *)
(* panel: what their differences modulo the clock's width say of the time  *)
(* that really passed, for a clock of any width.                           *)
(***************************************************************************)
EXTENDS Parsers, W5100sTcp, Sensors, AgcSchedule, Panel, TLAPS

(* The host frame parser *)

Frames == [state : FrameStates, len : Nat, idx : Nat]
FrameInv == frame \in Frames /\ FrameInBounds

LEMMA FrameFeedKeeps ==
    ASSUME FrameInv, NEW b \in FrameBytes, FrameFeed(b)
    PROVE  FrameInv'
  <1>1. b \in Nat /\ Radix \in Nat /\ PayloadCapacity \in Nat /\ frame \in Frames
        /\ frame.len \in Nat /\ frame.idx \in Nat /\ frame.state \in FrameStates
    BY FrameAssumption DEF FrameInv, Frames, FrameBytes
  <1>2. CASE frame.state \in {"WAIT_SYNC", "READ_CMD", "READ_CRC0", "READ_CRC1"}
    <2>1. CASE frame' = frame
      BY <2>1 DEF FrameInv, FrameInBounds
    <2>2. ASSUME NEW s \in {"READ_CMD", "READ_LEN0", "WAIT_SYNC"}, frame' = [frame EXCEPT !.state = s]
          PROVE  FrameInv'
      <3>1. frame' \in Frames /\ frame'.state = s  BY <1>1, <2>2 DEF Frames, FrameStates
      <3> QED  BY <3>1 DEF FrameInv, FrameInBounds
    <2>3. CASE frame.state = "READ_CRC0" /\ frame' = [frame EXCEPT !.state = "READ_CRC1"]
      <3>1. frame' \in Frames /\ frame'.state = "READ_CRC1" /\ frame'.idx = frame.idx
            /\ frame'.len = frame.len
        BY <1>1, <2>3 DEF Frames, FrameStates
      <3> QED  BY <2>3, <3>1 DEF FrameInv, FrameInBounds
    <2> QED  BY <1>2, <2>1, <2>2, <2>3 DEF FrameFeed
  <1>3. CASE frame.state = "READ_LEN0"
    BY <1>1, <1>3 DEF FrameFeed, FrameInv, Frames, FrameInBounds, FrameStates
  <1>4. CASE frame.state = "READ_LEN1"
    <2> DEFINE length == frame.len + Radix * b
               s == IF TooBig(frame.len, b) THEN "WAIT_SYNC"
                    ELSE IF length = 0 THEN "READ_CRC0" ELSE "READ_PAYLOAD"
    <2>1. length \in Nat  BY <1>1
    <2>2. TooBig(frame.len, b) <=> length > PayloadCapacity  BY DEF TooBig
    <2>3. frame' = [frame EXCEPT !.len = length, !.idx = 0, !.state = s]
      BY <1>4 DEF FrameFeed, LengthRead
    <2>4. s \in FrameStates /\ (s = "READ_PAYLOAD" => length # 0 /\ ~TooBig(frame.len, b))
          /\ (s \in {"READ_CRC0", "READ_CRC1"} => length = 0)
      BY DEF FrameStates
    <2> HIDE DEF length, s
    <2>5. frame' \in Frames /\ frame'.len = length /\ frame'.idx = 0 /\ frame'.state = s
      BY <1>1, <2>1, <2>3, <2>4 DEF Frames
    <2> QED  BY <1>1, <2>1, <2>2, <2>4, <2>5 DEF FrameInv, FrameInBounds
  <1>5. CASE frame.state = "READ_PAYLOAD"
    <2> DEFINE s == IF frame.idx + 1 >= frame.len THEN "READ_CRC0" ELSE "READ_PAYLOAD"
    <2>1. frame' = [frame EXCEPT !.idx = @ + 1, !.state = s]
      BY <1>5 DEF FrameFeed, PayloadRead
    <2>2. s \in FrameStates  BY DEF FrameStates
    <2>3. s = "READ_PAYLOAD" => frame.idx + 1 < frame.len  BY <1>1
    <2>4. s # "READ_PAYLOAD" => s = "READ_CRC0" /\ frame.idx + 1 >= frame.len  OBVIOUS
    <2> HIDE DEF s
    <2>5. frame' \in Frames /\ frame'.len = frame.len /\ frame'.idx = frame.idx + 1 /\ frame'.state = s
      <3> DEFINE next == frame.idx + 1
      <3>2. next \in Nat /\ frame \in Frames  BY <1>1
      <3>3. frame' = [frame EXCEPT !.idx = next, !.state = s]  BY <2>1
      <3> HIDE DEF next
      <3>4. frame' \in Frames /\ frame'.len = frame.len /\ frame'.idx = next /\ frame'.state = s
        BY <2>2, <3>2, <3>3 DEF Frames
      <3> QED  BY <3>4 DEF next
    <2>6. frame.idx < frame.len /\ frame.len <= PayloadCapacity
      BY <1>5 DEF FrameInv, FrameInBounds
    <2>7. s # "READ_PAYLOAD" => frame.idx + 1 = frame.len  BY <1>1, <2>4, <2>6
    <2>8. CASE s = "READ_PAYLOAD"
      <3>1. frame'.idx < frame'.len /\ frame'.len <= PayloadCapacity  BY <2>3, <2>5, <2>6, <2>8
      <3> QED  BY <2>5, <2>8, <3>1 DEF FrameInv, FrameInBounds
    <2>9. CASE s # "READ_PAYLOAD"
      <3>1. frame'.idx = frame'.len /\ frame'.len <= PayloadCapacity  BY <2>5, <2>6, <2>7, <2>9
      <3>2. frame'.state = "READ_CRC0"  BY <2>4, <2>5, <2>9
      <3> QED  BY <2>5, <3>1, <3>2 DEF FrameInv, FrameInBounds
    <2> QED  BY <2>8, <2>9
  <1> QED  BY <1>1, <1>2, <1>3, <1>4, <1>5 DEF FrameStates

LEMMA FrameKeeps == ASSUME FrameInv, FrameNext PROVE FrameInv'
  <1>1. CASE FrameReset
    BY <1>1 DEF FrameReset, FrameInv, Frames, FrameInBounds, FrameStates
  <1> QED  BY <1>1, FrameFeedKeeps DEF FrameNext

LEMMA FrameStarts == FrameInit => FrameInv
  BY DEF FrameInit, FrameInv, Frames, FrameInBounds, FrameStates
-----------------------------------------------------------------------------
(* The request parser.  A step is a chain of outcomes: every operator of   *)
(* it turns a good request into a good one.                                *)

RequestStates == {"REQUEST_LINE", "HEADERS", "BODY", "DONE", "FAILED"}
Requests ==
    [state : RequestStates, result : Results, method : {"NONE", "GET", "POST"},
     lineLength : Nat, sawCr : BOOLEAN, wire : Nat, storage : Nat, count : Nat,
     declared : Declared, encoded : BOOLEAN, contentLength : Nat, bodyLength : Nat]

InBounds(r) ==
    /\ r.lineLength <= MAX_HEADER_BYTES
    /\ r.storage <= MAX_HEADER_BYTES /\ r.count <= MAX_HEADER_COUNT
    /\ r.bodyLength <= MAX_BODY_BYTES

Announced(r) == r.method = "POST" => r.declared = r.contentLength

Progress(r) ==
    /\ r.state \in {"REQUEST_LINE", "HEADERS"} => r.result # "COMPLETE" /\ r.bodyLength = 0
    /\ r.state = "BODY" => r.result # "COMPLETE" /\ Announced(r)
    /\ r.state = "DONE" => r.bodyLength = r.contentLength /\ Announced(r)
    /\ r.state = "FAILED" => r.result # "COMPLETE"

GoodRequest(r) == r \in Requests /\ InBounds(r) /\ Progress(r)

LEMMA Limits ==
    /\ MAX_REQUEST_LINE_BYTES \in Nat /\ MAX_HEADER_BYTES \in Nat /\ MAX_HEADER_COUNT \in Nat
    /\ MAX_BODY_BYTES \in Nat /\ MAX_REQUEST_LINE_BYTES <= MAX_HEADER_BYTES
    /\ Declared \subseteq Nat /\ NoLength \in Declared
  BY RequestAssumption DEF Declared, NoLength, BadLength

\* Whatever was read before, a failed request is a good one.
LEMMA FailGood ==
    ASSUME NEW r \in Requests, InBounds(r), NEW v \in Verdicts
    PROVE  GoodRequest(Fail(r, v)) /\ Fail(r, v).state = "FAILED"
  <1> DEFINE f == Fail(r, v)
  <1>1. f \in Requests /\ f.state = "FAILED" /\ f.result = v
    BY DEF Fail, Requests, RequestStates, Results
  <1>2. f.lineLength = r.lineLength /\ f.storage = r.storage /\ f.count = r.count
        /\ f.bodyLength = r.bodyLength
    BY DEF Fail, Requests
  <1>3. v # "COMPLETE"  BY DEF Verdicts
  <1> HIDE DEF f
  <1>4. GoodRequest(f)  BY <1>1, <1>2, <1>3 DEF GoodRequest, InBounds, Progress
  <1> QED  BY <1>1, <1>4 DEF f

LEMMA VerdictNames ==
    "BAD_REQUEST" \in Verdicts /\ "METHOD_NOT_ALLOWED" \in Verdicts
    /\ "PAYLOAD_TOO_LARGE" \in Verdicts /\ "TIMED_OUT" \in Verdicts
  BY DEF Verdicts

LEMMA BodyByteGood ==
    ASSUME NEW r, GoodRequest(r), r.state = "BODY"
    PROVE  GoodRequest(BodyByte(r))
  <1> DEFINE p == [r EXCEPT !.bodyLength = @ + 1]
             d == [p EXCEPT !.state = "DONE", !.result = "COMPLETE"]
  <1>1. r \in Requests /\ InBounds(r) /\ r.result # "COMPLETE" /\ Announced(r)
        /\ r.bodyLength \in Nat /\ r.contentLength \in Nat
    BY DEF GoodRequest, Progress, Requests
  <1>2. CASE BodyByte(r) = Fail(r, "BAD_REQUEST")
    BY <1>1, <1>2, FailGood, VerdictNames
  <1>3. SUFFICES ASSUME ~(r.bodyLength >= r.contentLength \/ r.bodyLength >= MAX_BODY_BYTES),
                        BodyByte(r) = IF p.bodyLength = r.contentLength THEN d ELSE p
                 PROVE  GoodRequest(BodyByte(r))
    BY <1>2 DEF BodyByte, Done
  <1>4. p \in Requests /\ p.bodyLength = r.bodyLength + 1 /\ p.state = r.state /\ p.result = r.result
        /\ p.lineLength = r.lineLength /\ p.storage = r.storage /\ p.count = r.count
        /\ p.method = r.method /\ p.declared = r.declared /\ p.contentLength = r.contentLength
    BY <1>1 DEF Requests
  <1>5. r.bodyLength + 1 <= MAX_BODY_BYTES  BY <1>1, <1>3, Limits
  <1>6. InBounds(p)  BY <1>1, <1>4, <1>5 DEF InBounds
  <1>7. GoodRequest(p)  BY <1>1, <1>4, <1>6 DEF GoodRequest, Progress, Announced
  <1> HIDE DEF p
  <1>8. d \in Requests /\ d.bodyLength = p.bodyLength /\ d.state = "DONE"
        /\ d.lineLength = p.lineLength /\ d.storage = p.storage /\ d.count = p.count
        /\ d.method = p.method /\ d.declared = p.declared /\ d.contentLength = p.contentLength
    BY <1>4 DEF Requests, RequestStates, Results
  <1> HIDE DEF d
  <1>9. p.bodyLength = r.contentLength => GoodRequest(d)
    BY <1>1, <1>4, <1>6, <1>8 DEF GoodRequest, InBounds, Progress, Announced
  <1> QED  BY <1>3, <1>7, <1>9

LEMMA LineByteGood ==
    ASSUME NEW r, GoodRequest(r), r.state \in {"REQUEST_LINE", "HEADERS"}
    PROVE  GoodRequest(LineByte(r))
  <1> DEFINE p == [r EXCEPT !.lineLength = @ + 1]
  <1>1. r \in Requests /\ InBounds(r) /\ r.lineLength \in Nat
    BY DEF GoodRequest, Requests
  <1>2. LineLimit(r) \in Nat /\ LineLimit(r) <= MAX_HEADER_BYTES  BY Limits DEF LineLimit
  <1>3. CASE r.lineLength < LineLimit(r)
    <2>1. p \in Requests /\ p.bodyLength = r.bodyLength /\ p.state = r.state /\ p.result = r.result
          /\ p.lineLength = r.lineLength + 1 /\ p.storage = r.storage /\ p.count = r.count
      BY <1>1 DEF Requests
    <2>2. r.lineLength + 1 <= MAX_HEADER_BYTES  BY <1>1, <1>2, <1>3, Limits
    <2>3. LineByte(r) = p  BY <1>3 DEF LineByte
    <2> HIDE DEF p
    <2> QED  BY <1>1, <2>1, <2>2, <2>3 DEF GoodRequest, InBounds, Progress
  <1>4. CASE ~(r.lineLength < LineLimit(r))
    BY <1>1, <1>4, FailGood, VerdictNames DEF LineByte
  <1> QED  BY <1>3, <1>4

\* What a step changes of a good request before the body starts.
Reading(r) == GoodRequest(r) /\ r.state \in {"REQUEST_LINE", "HEADERS"}

LEMMA ReadingParts ==
    ASSUME NEW r, Reading(r)
    PROVE  /\ r \in Requests /\ InBounds(r) /\ r.result # "COMPLETE" /\ r.bodyLength = 0
           /\ r.lineLength \in Nat /\ r.storage \in Nat /\ r.count \in Nat /\ r.wire \in Nat
           /\ r.method \in {"NONE", "GET", "POST"} /\ r.encoded \in BOOLEAN
           /\ r.declared \in Declared /\ r.contentLength \in Nat
  BY DEF Reading, GoodRequest, Progress, Requests

\* A request with the same buffers and another place in the head is good.
LEMMA SameBuffers ==
    ASSUME NEW r, Reading(r), NEW q \in Requests, InBounds(q),
           q.state \in {"REQUEST_LINE", "HEADERS"}, q.result = r.result, q.bodyLength = r.bodyLength
    PROVE  Reading(q)
  BY DEF Reading, GoodRequest, Progress

LEMMA RequestLinesGood ==
    ASSUME NEW r, Reading(r), NEW q \in RequestLines(r)
    PROVE  GoodRequest(q)
  <1> DEFINE p == [r EXCEPT !.lineLength = 0]
             with(m) == [p EXCEPT !.method = m]
             headers(m) == [with(m) EXCEPT !.state = "HEADERS"]
  <1>1. r \in Requests /\ InBounds(r)  BY ReadingParts
  <1>2. p \in Requests /\ p.lineLength = 0 /\ p.storage = r.storage /\ p.count = r.count
        /\ p.bodyLength = r.bodyLength /\ p.result = r.result
    BY <1>1 DEF Requests
  <1>3. InBounds(p)  BY <1>1, <1>2, Limits DEF InBounds
  <1> HIDE DEF p
  <1>4. ASSUME NEW m \in {"GET", "POST"}
        PROVE  /\ with(m) \in Requests /\ InBounds(with(m)) /\ with(m).result = r.result
               /\ with(m).bodyLength = r.bodyLength
    <2>1. /\ with(m) \in Requests /\ with(m).lineLength = p.lineLength
          /\ with(m).storage = p.storage /\ with(m).count = p.count
          /\ with(m).bodyLength = p.bodyLength /\ with(m).result = p.result
      BY <1>2 DEF Requests
    <2> QED  BY <1>2, <1>3, <2>1 DEF InBounds
  <1>5. ASSUME NEW m \in {"GET", "POST"} PROVE GoodRequest(headers(m))
    <2> DEFINE w == with(m)
    <2>1. w \in Requests /\ InBounds(w) /\ w.result = r.result /\ w.bodyLength = r.bodyLength
      BY <1>4
    <2> HIDE DEF w
    <2>2. [w EXCEPT !.state = "HEADERS"] \in Requests
          /\ [w EXCEPT !.state = "HEADERS"].state = "HEADERS"
          /\ [w EXCEPT !.state = "HEADERS"].result = w.result
          /\ [w EXCEPT !.state = "HEADERS"].lineLength = w.lineLength
          /\ [w EXCEPT !.state = "HEADERS"].storage = w.storage
          /\ [w EXCEPT !.state = "HEADERS"].count = w.count
          /\ [w EXCEPT !.state = "HEADERS"].bodyLength = w.bodyLength
      BY <2>1 DEF Requests, RequestStates
    <2>3. InBounds([w EXCEPT !.state = "HEADERS"])  BY <2>1, <2>2 DEF InBounds
    <2>4. Reading([w EXCEPT !.state = "HEADERS"])  BY <2>1, <2>2, <2>3, SameBuffers
    <2> QED  BY <2>4 DEF Reading, w
  <1>6. \/ q \in {Fail(p, "BAD_REQUEST"), Fail(p, "METHOD_NOT_ALLOWED")}
        \/ \E m \in {"GET", "POST"} : q \in {Fail(with(m), "BAD_REQUEST"), headers(m)}
    BY DEF RequestLines, p
  <1> HIDE DEF with, headers
  <1> QED  BY <1>2, <1>3, <1>4, <1>5, <1>6, FailGood, VerdictNames

\* A header line, in the storage that has been checked to hold it.
LEMMA HeaderLinesGood ==
    ASSUME NEW r, Reading(r), r.state = "HEADERS", r.count < MAX_HEADER_COUNT,
           r.storage + r.lineLength + 1 <= MAX_HEADER_BYTES, NEW q \in HeaderLines(r)
    PROVE  GoodRequest(q)
  <1> DEFINE length == r.storage + r.lineLength + 1
             stored == [r EXCEPT !.storage = @ + r.lineLength + 1]
             count == r.count + 1
             taken == [stored EXCEPT !.count = @ + 1, !.lineLength = 0]
  <1>1. r \in Requests /\ InBounds(r) /\ length \in Nat /\ length <= MAX_HEADER_BYTES
        /\ count \in Nat /\ count <= MAX_HEADER_COUNT
    BY ReadingParts, Limits
  <1>2. \/ q = Fail(stored, "BAD_REQUEST")
        \/ q = taken \/ q = [taken EXCEPT !.encoded = TRUE]
        \/ \E d \in Declared : q = [taken EXCEPT !.declared = d]
    BY DEF HeaderLines
  <1>a. stored = [r EXCEPT !.storage = length]  OBVIOUS
  <1> HIDE DEF length
  <1>3. stored \in Requests /\ stored.storage = length /\ stored.lineLength = r.lineLength
        /\ stored.count = r.count /\ stored.bodyLength = r.bodyLength
        /\ stored.result = r.result /\ stored.state = r.state
    BY <1>1, <1>a DEF Requests
  <1> HIDE DEF stored
  <1>b. taken = [stored EXCEPT !.count = count, !.lineLength = 0]  BY <1>3 DEF Requests
  <1> HIDE DEF count
  <1>4. taken \in Requests /\ taken.storage = length /\ taken.lineLength = 0
        /\ taken.count = count /\ taken.bodyLength = r.bodyLength
        /\ taken.result = r.result /\ taken.state = r.state
    BY <1>1, <1>3, <1>b DEF Requests
  <1> HIDE DEF taken
  <1>5. InBounds(stored) /\ InBounds(taken)  BY <1>1, <1>3, <1>4, Limits DEF InBounds
  <1>6. ASSUME NEW u \in Requests, u.storage = taken.storage, u.lineLength = taken.lineLength,
               u.count = taken.count, u.bodyLength = taken.bodyLength,
               u.result = taken.result, u.state = taken.state
        PROVE  GoodRequest(u)
    <2>1. InBounds(u)  BY <1>5, <1>6 DEF InBounds
    <2> QED  BY <1>4, <1>6, <2>1, SameBuffers DEF Reading
  <1>7. CASE q = Fail(stored, "BAD_REQUEST")
    BY <1>3, <1>5, <1>7, FailGood, VerdictNames
  <1>8. CASE q = taken  BY <1>4, <1>6, <1>8
  <1>9. CASE q = [taken EXCEPT !.encoded = TRUE]
    <2>1. q \in Requests /\ q.storage = taken.storage /\ q.lineLength = taken.lineLength
          /\ q.count = taken.count /\ q.bodyLength = taken.bodyLength
          /\ q.result = taken.result /\ q.state = taken.state
      BY <1>4, <1>9 DEF Requests
    <2> QED  BY <1>6, <2>1
  <1>10. ASSUME NEW d \in Declared, q = [taken EXCEPT !.declared = d] PROVE GoodRequest(q)
    <2>1. q \in Requests /\ q.storage = taken.storage /\ q.lineLength = taken.lineLength
          /\ q.count = taken.count /\ q.bodyLength = taken.bodyLength
          /\ q.result = taken.result /\ q.state = taken.state
      BY <1>4, <1>10 DEF Requests
    <2> QED  BY <1>6, <2>1
  <1> QED  BY <1>2, <1>7, <1>8, <1>9, <1>10

\* finalizeHeaders(): a body is announced, or there is none.
LEMMA HeadersEndGood ==
    ASSUME NEW r, Reading(r)
    PROVE  GoodRequest(HeadersEnd(r))
  <1> DEFINE length == IF r.declared = NoLength THEN 0 ELSE r.declared
             p == [r EXCEPT !.contentLength = length, !.lineLength = 0]
             done == [p EXCEPT !.state = "DONE", !.result = "COMPLETE"]
             body == [p EXCEPT !.state = "BODY"]
  <1>1. r \in Requests /\ InBounds(r) /\ r.result # "COMPLETE" /\ r.bodyLength = 0
        /\ r.declared \in Declared
    BY ReadingParts
  <1>2. length \in Nat  BY <1>1, Limits
  <1>3. \/ HeadersEnd(r) \in {Fail(r, "BAD_REQUEST"), Fail(r, "PAYLOAD_TOO_LARGE")}
        \/ /\ ~(r.method = "POST" /\ r.declared = NoLength)
           /\ HeadersEnd(r) = IF length = 0 THEN done ELSE body
    BY DEF HeadersEnd, Done
  <1>4. r.declared # NoLength => length = r.declared  OBVIOUS
  <1> HIDE DEF length
  <1>5. p \in Requests /\ p.contentLength = length /\ p.lineLength = 0 /\ p.storage = r.storage
        /\ p.count = r.count /\ p.bodyLength = 0 /\ p.method = r.method /\ p.declared = r.declared
        /\ p.result = r.result
    BY <1>1, <1>2 DEF Requests
  <1>6. InBounds(p)  BY <1>1, <1>5, Limits DEF InBounds
  <1> HIDE DEF p
  <1>7. done \in Requests /\ done.state = "DONE" /\ done.contentLength = length /\ done.bodyLength = 0
        /\ done.lineLength = p.lineLength /\ done.storage = p.storage /\ done.count = p.count
        /\ done.method = r.method /\ done.declared = r.declared
    BY <1>5 DEF Requests, RequestStates, Results
  <1>8. body \in Requests /\ body.state = "BODY" /\ body.contentLength = length /\ body.bodyLength = 0
        /\ body.lineLength = p.lineLength /\ body.storage = p.storage /\ body.count = p.count
        /\ body.method = r.method /\ body.declared = r.declared /\ body.result = r.result
    BY <1>5 DEF Requests, RequestStates
  <1> HIDE DEF done, body
  <1>9. CASE HeadersEnd(r) \in {Fail(r, "BAD_REQUEST"), Fail(r, "PAYLOAD_TOO_LARGE")}
    BY <1>1, <1>9, FailGood, VerdictNames
  <1>10. CASE ~(r.method = "POST" /\ r.declared = NoLength) /\ length = 0 /\ HeadersEnd(r) = done
    <2>1. InBounds(done)  BY <1>5, <1>6, <1>7 DEF InBounds
    <2>2. Announced(done)  BY <1>4, <1>7, <1>10 DEF Announced
    <2> QED  BY <1>7, <1>10, <2>1, <2>2 DEF GoodRequest, Progress
  <1>11. CASE ~(r.method = "POST" /\ r.declared = NoLength) /\ HeadersEnd(r) = body
    <2>1. InBounds(body)  BY <1>5, <1>6, <1>8 DEF InBounds
    <2>2. Announced(body)  BY <1>4, <1>8, <1>11 DEF Announced
    <2> QED  BY <1>1, <1>8, <1>11, <2>1, <2>2 DEF GoodRequest, Progress
  <1> QED  BY <1>3, <1>9, <1>10, <1>11

\* completeLine()
LEMMA LinesCompletedGood ==
    ASSUME NEW r, Reading(r), NEW q \in LinesCompleted(r)
    PROVE  GoodRequest(q)
  <1> DEFINE read == r.wire + r.lineLength + 2
             p == [r EXCEPT !.wire = @ + r.lineLength + 2]
  <1>1. /\ r \in Requests /\ InBounds(r) /\ read \in Nat /\ r.result # "COMPLETE" /\ r.bodyLength = 0
    BY ReadingParts
  <1>2. CASE r.state = "REQUEST_LINE"
    BY <1>2, RequestLinesGood DEF LinesCompleted
  <1>3. SUFFICES ASSUME r.state = "HEADERS" PROVE GoodRequest(q)
    BY <1>2 DEF Reading
  <1>4. \/ q = Fail(p, "PAYLOAD_TOO_LARGE") \/ q = HeadersEnd(p)
        \/ /\ ~(p.count >= MAX_HEADER_COUNT \/ p.storage + p.lineLength + 1 > MAX_HEADER_BYTES)
           /\ q \in HeaderLines(p)
    BY <1>3 DEF LinesCompleted
  <1>a. p = [r EXCEPT !.wire = read]  OBVIOUS
  <1> HIDE DEF read
  <1>5. p \in Requests /\ p.lineLength = r.lineLength /\ p.storage = r.storage /\ p.count = r.count
        /\ p.bodyLength = r.bodyLength /\ p.result = r.result /\ p.state = r.state
    BY <1>1, <1>a DEF Requests
  <1> HIDE DEF p
  <1>6. InBounds(p)  BY <1>1, <1>5 DEF InBounds
  <1>7. Reading(p) /\ p.state = "HEADERS"  BY <1>3, <1>5, <1>6, SameBuffers
  <1>8. p.count \in Nat /\ p.storage \in Nat /\ p.lineLength \in Nat  BY <1>7, ReadingParts
  <1>9. ~(p.count >= MAX_HEADER_COUNT \/ p.storage + p.lineLength + 1 > MAX_HEADER_BYTES)
          => p.count < MAX_HEADER_COUNT /\ p.storage + p.lineLength + 1 <= MAX_HEADER_BYTES
    BY <1>8, Limits
  <1> QED
    BY <1>4, <1>5, <1>6, <1>7, <1>9, FailGood, VerdictNames, HeadersEndGood, HeaderLinesGood

\* A change of the carriage return flag only.
LEMMA CarriageReturnGood ==
    ASSUME NEW r, Reading(r), NEW b \in BOOLEAN
    PROVE  Reading([r EXCEPT !.sawCr = b])
  <1> DEFINE p == [r EXCEPT !.sawCr = b]
  <1>1. r \in Requests /\ InBounds(r)  BY ReadingParts
  <1>2. p \in Requests /\ p.lineLength = r.lineLength /\ p.storage = r.storage /\ p.count = r.count
        /\ p.bodyLength = r.bodyLength /\ p.result = r.result /\ p.state = r.state
    BY <1>1 DEF Requests
  <1> HIDE DEF p
  <1>3. InBounds(p)  BY <1>1, <1>2 DEF InBounds
  <1>4. p.state \in {"REQUEST_LINE", "HEADERS"}  BY <1>2 DEF Reading
  <1>5. Reading(p)  BY <1>2, <1>3, <1>4, SameBuffers
  <1> QED  BY <1>5 DEF p

\* feedByte()
LEMMA ByteOutcomesGood ==
    ASSUME NEW r, GoodRequest(r), r.state \in {"REQUEST_LINE", "HEADERS", "BODY"},
           NEW b \in {"cr", "lf", "other"}, NEW q \in ByteOutcomes(r, b)
    PROVE  GoodRequest(q)
  <1>1. r \in Requests /\ InBounds(r)  BY DEF GoodRequest
  <1>2. CASE r.state = "BODY"
    BY <1>2, BodyByteGood DEF ByteOutcomes
  <1>3. CASE r.state # "BODY"
    <2>1. Reading(r)  BY <1>3 DEF Reading
    <2>2. \/ q = Fail(r, "BAD_REQUEST") \/ q \in LinesCompleted([r EXCEPT !.sawCr = FALSE])
          \/ q = [r EXCEPT !.sawCr = TRUE] \/ q = LineByte(r)
      BY <1>3 DEF ByteOutcomes
    <2>3. Reading([r EXCEPT !.sawCr = FALSE]) /\ Reading([r EXCEPT !.sawCr = TRUE])
      BY <2>1, CarriageReturnGood
    <2> QED
      BY <1>1, <1>3, <2>1, <2>2, <2>3, FailGood, VerdictNames, LinesCompletedGood, LineByteGood DEF Reading
  <1> QED  BY <1>2, <1>3

LEMMA FreshGood == GoodRequest(FreshRequest)
  <1>1. NoLength \in Declared /\ 0 \in Nat  BY Limits
  <1>2. /\ FreshRequest \in Requests /\ FreshRequest.state = "REQUEST_LINE"
        /\ FreshRequest.result = "NEED_MORE" /\ FreshRequest.lineLength = 0
        /\ FreshRequest.storage = 0 /\ FreshRequest.count = 0 /\ FreshRequest.bodyLength = 0
    BY <1>1 DEF FreshRequest, Requests, RequestStates, Results
  <1>3. InBounds(FreshRequest)  BY <1>2, Limits DEF InBounds
  <1> QED  BY <1>2, <1>3 DEF GoodRequest, Progress

LEMMA RequestKeeps == ASSUME GoodRequest(req), RequestNext PROVE GoodRequest(req)'
  <1>1. req \in Requests /\ InBounds(req) /\ req.state \in RequestStates
    BY DEF GoodRequest, Requests
  <1>2. ASSUME NEW b \in {"cr", "lf", "other"}, NEW more \in BOOLEAN, RequestFeed(b, more)
        PROVE  GoodRequest(req')
    <2>1. PICK r : /\ \/ r = req \/ r = Fail(req, "BAD_REQUEST")
                      \/ /\ req.state \notin {"DONE", "FAILED"} /\ r \in ByteOutcomes(req, b)
                   /\ req' = IF more /\ r.state = "DONE" THEN Fail(r, "BAD_REQUEST") ELSE r
      BY <1>1, <1>2 DEF RequestFeed, RequestStates
    <2>2. GoodRequest(r)
      BY <1>1, <2>1, FailGood, VerdictNames, ByteOutcomesGood DEF RequestStates
    <2>3. r \in Requests /\ InBounds(r)  BY <2>2 DEF GoodRequest
    <2> QED  BY <2>1, <2>2, <2>3, FailGood, VerdictNames
  <1>3. CASE RequestGivenUp
    BY <1>1, <1>3, FailGood, VerdictNames DEF RequestGivenUp
  <1>4. CASE RequestReset
    BY <1>4, FreshGood DEF RequestReset
  <1>5. GoodRequest(req')  BY <1>2, <1>3, <1>4 DEF RequestNext
  <1> QED  BY <1>5 DEF GoodRequest, InBounds, Progress, Announced

-----------------------------------------------------------------------------
ParsersInv == FrameInv /\ GoodRequest(req)

LEMMA ParsersStart == ParsersInit => ParsersInv
  BY FrameStarts, FreshGood DEF ParsersInit, RequestInit, ParsersInv

LEMMA ParsersKeep == ParsersInv /\ [ParsersNext]_parserVars => ParsersInv'
  <1>2. ASSUME FrameInv, UNCHANGED frame PROVE FrameInv'
    BY <1>2 DEF FrameInv, FrameInBounds
  <1>3. ASSUME GoodRequest(req), UNCHANGED req PROVE GoodRequest(req)'
    BY <1>3 DEF GoodRequest, InBounds, Progress, Announced
  <1> QED
    BY <1>2, <1>3, FrameKeeps, RequestKeeps DEF ParsersNext, parserVars, ParsersInv

LEMMA ParsersInvariant == ParsersSpec => []ParsersInv
  BY ParsersStart, ParsersKeep, PTL DEF ParsersSpec

LEMMA ParsersTyped == ParsersInv => ParsersTypeOK
  BY DEF ParsersInv, FrameInv, Frames, GoodRequest, Requests, RequestStates, ParsersTypeOK

\* The variables of both parsers keep their types.
THEOREM ParsersTypeCorrect == ParsersSpec => []ParsersTypeOK
  BY ParsersInvariant, ParsersTyped, PTL

LEMMA ParsersInvBounded == ParsersInv => ParsersStayInBounds
  <1>1. ASSUME GoodRequest(req) PROVE RequestInBounds
    BY <1>1 DEF GoodRequest, InBounds, RequestInBounds
  <1>2. ASSUME GoodRequest(req) PROVE CompleteIsWhole
    <2>1. req.state \in RequestStates  BY <1>2 DEF GoodRequest, Requests
    <2> QED  BY <1>2, <2>1 DEF GoodRequest, Progress, Announced, CompleteIsWhole, RequestStates
  <1> QED
    BY <1>1, <1>2 DEF ParsersInv, FrameInv, ParsersStayInBounds

\* frame_parser.cpp, http_request_parser.cpp: for buffers and limits of any size, whatever
\* bytes a peer sends in whatever pieces, both parsers write within their buffers and
\* deliver exactly what was announced.
THEOREM ParsersAlwaysInBounds == ParsersSpec => []ParsersStayInBounds
  BY ParsersInvBounded, ParsersInvariant, PTL
-----------------------------------------------------------------------------
(* The host session of a W5100S modem *)

Queues == [len : 0 .. FrameChunks, off : 0 .. FrameChunks, close : BOOLEAN, id : 0 .. 1,
           state : {"IDLE", "COMMAND_PENDING", "ACK_PENDING"}]
Sessions == [client : BOOLEAN, rx : {"settled", "unacknowledged", "pending"},
             authenticated : BOOLEAN, refused : BOOLEAN, tx : Queues]
Sockets == [open : BOOLEAN, send : {"idle", "given", "out"}, sendOk : BOOLEAN, timedOut : BOOLEAN]
Wires == [id : 0 .. 1, chunk : 0 .. FrameChunks, of : 0 .. FrameChunks,
          given : 0 .. FrameChunks + 1]
TcpOutcomes == [session : Sessions, sock : Sockets, wire : Wires, late : SUBSET Deadlines]

\* The queue, by itself: the offset is within the frame, and an empty queue is reset.
QueueOK(tx) ==
    /\ tx.len = 0 => tx.state = "IDLE" /\ tx.off = 0
    /\ tx.len # 0 => tx.off < tx.len

\* The wire is behind the queue by exactly the chunks that are still to be given.
WireFollows(tx, w) ==
    /\ w.given = w.chunk
    /\ tx.len = 0 => w.chunk = w.of
    /\ tx.len # 0 /\ tx.state = "IDLE" /\ tx.off = 0 => w.chunk = w.of
    /\ tx.len # 0 /\ tx.state = "IDLE" /\ tx.off # 0 =>
         w.id = tx.id /\ w.chunk = tx.off /\ w.of = tx.len
    /\ tx.len # 0 /\ tx.state # "IDLE" =>
         w.id = tx.id /\ w.chunk = tx.off + 1 /\ w.of = tx.len

\* A refused client whose socket k is open waits for its last answer and for nothing else.
RefusalOK(s, k) ==
    s.refused /\ k.open => s.client /\ s.tx.len # 0 /\ s.tx.close /\ ~s.authenticated

GoodSession(s) == s \in Sessions /\ QueueOK(s.tx)
GoodOutcome(o) ==
    /\ o \in TcpOutcomes
    /\ QueueOK(o.session.tx) /\ RefusalOK(o.session, o.sock)
    /\ WireFollows(o.session.tx, o.wire)

TcpInv ==
    /\ link \in BOOLEAN /\ localIP \in BOOLEAN /\ lastIpUsable \in BOOLEAN
    /\ eth \in [dhcp : BOOLEAN, lease : BOOLEAN, got : BOOLEAN, seen : BOOLEAN]
    /\ turn \in {"tcp", "ethernet"}
    /\ GoodOutcome(Now)

-----------------------------------------------------------------------------
LEMMA TcpLengths ==
    /\ 0 \in 0 .. FrameChunks /\ 0 \in 0 .. FrameChunks + 1 /\ 0 \in 0 .. 1
    /\ 1 \in Lengths /\ Lengths \subseteq 0 .. FrameChunks /\ \A n \in Lengths : n # 0 /\ 0 < n
  BY FrameChunksAssumption DEF Lengths

LEMMA NoTxGood == NoTx \in Queues /\ QueueOK(NoTx) /\ NoTx.len = 0
  BY TcpLengths DEF NoTx, Queues, QueueOK

LEMMA NoSessionGood ==
    /\ NoSession \in Sessions /\ NoSession.tx = NoTx /\ ~NoSession.refused
    /\ NoSession.rx = "settled"
  BY NoTxGood DEF NoSession, Sessions

LEMMA NoChunkGood == NoChunk \in Wires /\ NoChunk.given = NoChunk.chunk /\ NoChunk.chunk = NoChunk.of
  BY TcpLengths DEF NoChunk, Wires

\* The parts of a good outcome.
LEMMA OutcomeParts ==
    ASSUME NEW o, GoodOutcome(o)
    PROVE  /\ o \in TcpOutcomes /\ o.session \in Sessions /\ o.sock \in Sockets /\ o.wire \in Wires
           /\ o.late \in SUBSET Deadlines /\ o.session.tx \in Queues
           /\ QueueOK(o.session.tx) /\ RefusalOK(o.session, o.sock)
           /\ WireFollows(o.session.tx, o.wire)
  BY DEF GoodOutcome, TcpOutcomes, Sessions

\* disconnectClient() leaves nothing.
LEMMA DisconnectedGood ==
    ASSUME NEW o, GoodOutcome(o)
    PROVE  /\ GoodOutcome(Disconnected(o)) /\ Disconnected(o).session = NoSession
           /\ Disconnected(o).wire = NoChunk
  <1> DEFINE d == Disconnected(o)
             socket == [o.sock EXCEPT !.open = FALSE, !.send = "idle"]
             late0 == o.late \ {"send"}
  <1>1. socket \in Sockets  BY OutcomeParts DEF Sockets
  <1>2. late0 \in SUBSET Deadlines  BY OutcomeParts
  <1>3. d = [o EXCEPT !.session = NoSession, !.wire = NoChunk, !.late = late0, !.sock = socket]
    BY DEF Disconnected
  <1> HIDE DEF socket, late0, d
  <1>0. o \in TcpOutcomes /\ NoSession \in Sessions /\ NoChunk \in Wires
    BY OutcomeParts, NoSessionGood, NoChunkGood
  <1>4. d \in TcpOutcomes /\ d.session = NoSession /\ d.wire = NoChunk
    BY <1>0, <1>1, <1>2, <1>3 DEF TcpOutcomes
  <1>5. WireFollows(NoTx, NoChunk)  BY NoTxGood, NoChunkGood DEF WireFollows
  <1>6. GoodOutcome(d)  BY <1>4, <1>5, NoSessionGood, NoTxGood DEF GoodOutcome, RefusalOK
  <1> QED  BY <1>4, <1>6 DEF d

WithQueue(o, tx, l) == [o EXCEPT !.session.tx = tx, !.late = l]
WithReader(o, x) == [o EXCEPT !.session.rx = x, !.late = @ \ {"receive"}]
WithSocket(o, k) == [o EXCEPT !.sock = k]

\* A change of the queue and of the deadlines only.
LEMMA QueueChanged ==
    ASSUME NEW o, GoodOutcome(o), NEW tx \in Queues, NEW l \in SUBSET Deadlines,
           NEW r, r = WithQueue(o, tx, l),
           QueueOK(tx), WireFollows(tx, o.wire),
           o.session.refused /\ o.sock.open => tx.len # 0 /\ tx.close
    PROVE  /\ GoodOutcome(r) /\ r.session.tx = tx /\ r.session.client = o.session.client
           /\ r.session.authenticated = o.session.authenticated
           /\ r.session.refused = o.session.refused /\ r.session.rx = o.session.rx
           /\ r.wire = o.wire /\ r.sock = o.sock
  <1> DEFINE s == [o.session EXCEPT !.tx = tx]
  <1>0. o \in TcpOutcomes /\ o.session \in Sessions  BY OutcomeParts
  <1>a. s \in Sessions  BY <1>0 DEF Sessions
  <1>b. r = [o EXCEPT !.session = s, !.late = l]  BY DEF WithQueue
  <1> HIDE DEF s
  <1>1. /\ r \in TcpOutcomes /\ r.session \in Sessions /\ r.session = s
        /\ r.wire = o.wire /\ r.sock = o.sock
    BY <1>0, <1>a, <1>b DEF TcpOutcomes
  <1>2. r.session = [o.session EXCEPT !.tx = tx]
    BY <1>1 DEF s
  <1>3. /\ r.session.tx = tx /\ r.session.client = o.session.client
        /\ r.session.authenticated = o.session.authenticated
        /\ r.session.refused = o.session.refused /\ r.session.rx = o.session.rx
    BY <1>2, OutcomeParts DEF Sessions
  <1>4. RefusalOK(r.session, r.sock)  BY <1>1, <1>3, OutcomeParts DEF RefusalOK
  <1> QED  BY <1>1, <1>3, <1>4 DEF GoodOutcome

\* A change of the socket's registers only, which does not open it.
LEMMA SocketChanged ==
    ASSUME NEW o, GoodOutcome(o), NEW k \in Sockets, k.open => o.sock.open,
           NEW r, r = WithSocket(o, k)
    PROVE  /\ GoodOutcome(r) /\ r.session = o.session /\ r.sock = k
           /\ r.wire = o.wire /\ r.late = o.late
  <1>1. o \in TcpOutcomes /\ RefusalOK(o.session, o.sock)  BY OutcomeParts
  <1>2. /\ r \in TcpOutcomes /\ r.session = o.session /\ r.sock = k
        /\ r.wire = o.wire /\ r.late = o.late
    BY <1>1 DEF TcpOutcomes, WithSocket
  <1>3. RefusalOK(r.session, r.sock)  BY <1>1, <1>2 DEF RefusalOK
  <1> QED  BY <1>2, <1>3 DEF GoodOutcome

\* A socket that closes under an outcome.
LEMMA ClosingGood ==
    ASSUME NEW o, GoodOutcome(o), NEW q \in Closing(o)
    PROVE  GoodOutcome(q) /\ q.session = o.session
  <1> DEFINE k == [o.sock EXCEPT !.open = FALSE]
  <1>1. k \in Sockets /\ ~k.open  BY OutcomeParts DEF Sockets
  <1>2. Shut(o) = WithSocket(o, k)  BY OutcomeParts DEF Shut, WithSocket, TcpOutcomes
  <1> HIDE DEF k
  <1>3. GoodOutcome(Shut(o)) /\ Shut(o).session = o.session  BY <1>1, <1>2, SocketChanged
  <1> QED  BY <1>3 DEF Closing

\* A change of the reader's state only.
LEMMA ReaderChanged ==
    ASSUME NEW o, GoodOutcome(o), NEW x \in {"settled", "unacknowledged", "pending"},
           NEW r, r = WithReader(o, x)
    PROVE  /\ GoodOutcome(r) /\ r.session.tx = o.session.tx /\ r.session.client = o.session.client
           /\ r.session.authenticated = o.session.authenticated
           /\ r.session.refused = o.session.refused /\ r.wire = o.wire
  <1> DEFINE t == [o.session EXCEPT !.rx = x]
             l == o.late \ {"receive"}
  <1>1. o \in TcpOutcomes /\ o.session \in Sessions /\ o.late \in SUBSET Deadlines  BY OutcomeParts
  <1>2. t \in Sessions /\ t.tx = o.session.tx /\ t.client = o.session.client
        /\ t.authenticated = o.session.authenticated /\ t.refused = o.session.refused
    BY <1>1 DEF Sessions
  <1>3. l \in SUBSET Deadlines  BY <1>1
  <1>4. r = [o EXCEPT !.session = t, !.late = l]  BY DEF WithReader
  <1> HIDE DEF t, l
  <1>5. r \in TcpOutcomes /\ r.session = t /\ r.wire = o.wire /\ r.sock = o.sock
    BY <1>1, <1>2, <1>3, <1>4 DEF TcpOutcomes
  <1>6. RefusalOK(t, o.sock)  BY <1>2, OutcomeParts DEF RefusalOK
  <1> QED  BY <1>2, <1>5, <1>6 DEF GoodOutcome

Idle(s) == s.tx.len = 0 /\ s.tx.state = "IDLE"

LEMMA IdleIsNotBusy == ASSUME NEW s, GoodSession(s) PROVE txBusy(s) <=> s.tx.len # 0
  BY DEF txBusy, GoodSession, QueueOK

\* buildFrame() starts a frame where the last one has ended.
LEMMA QueuedGood ==
    ASSUME NEW o, GoodOutcome(o), NEW n \in Lengths, o.session.tx.len = 0, o.sock.open
    PROVE  /\ GoodOutcome(Queued(o, n)) /\ Queued(o, n).session.tx.len = n
           /\ Queued(o, n).session.client = o.session.client /\ ~Queued(o, n).session.refused
           /\ Queued(o, n).session.authenticated = o.session.authenticated
  <1> DEFINE tx == [o.session.tx EXCEPT !.len = n, !.off = 0, !.id = 1 - @]
             l == o.late \ {"send"}
             r == Queued(o, n)
  <1>1. o.session.tx \in Queues /\ QueueOK(o.session.tx) /\ l \in SUBSET Deadlines
        /\ o.wire \in Wires /\ WireFollows(o.session.tx, o.wire)
        /\ RefusalOK(o.session, o.sock)
    BY OutcomeParts
  <1>2. 1 - o.session.tx.id \in 0 .. 1  BY <1>1 DEF Queues
  <1>3. n \in 0 .. FrameChunks /\ n # 0 /\ 0 < n /\ 0 \in 0 .. FrameChunks  BY TcpLengths
  <1>4. tx \in Queues /\ tx.len = n /\ tx.off = 0 /\ tx.state = o.session.tx.state
        /\ tx.close = o.session.tx.close
    BY <1>1, <1>2, <1>3 DEF Queues
  <1>5. tx.state = "IDLE"  BY <1>1, <1>4 DEF QueueOK
  <1>6. ~o.session.refused  BY <1>1, Zenon DEF RefusalOK
  <1>7. r = WithQueue(o, tx, l)  BY DEF Queued, WithQueue
  <1> HIDE DEF tx, l, r
  <1>8. QueueOK(tx)  BY <1>3, <1>4 DEF QueueOK
  <1>9. WireFollows(tx, o.wire)  BY <1>1, <1>3, <1>4, <1>5 DEF WireFollows
  <1>10. GoodOutcome(r) /\ r.session.tx = tx /\ r.session.client = o.session.client
         /\ r.session.authenticated = o.session.authenticated
         /\ r.session.refused = o.session.refused
    <2>1. o.session.refused => tx.len # 0 /\ tx.close  BY <1>6
    <2>2. l \in SUBSET Deadlines  BY <1>1 DEF l
    <2> QED  BY <1>4, <1>7, <1>8, <1>9, <2>1, <2>2, QueueChanged
  <1> QED  BY <1>4, <1>6, <1>10 DEF r

\* A frame that finds the queue taken closes the client instead of replacing it.
LEMMA SentGood ==
    ASSUME NEW o, GoodOutcome(o), NEW n \in Lengths
    PROVE  GoodOutcome(Sent(o, n))
  <1>1. GoodSession(o.session)  BY OutcomeParts DEF GoodSession
  <1> QED  BY <1>1, IdleIsNotBusy, QueuedGood, DisconnectedGood DEF Sent

\* What sendToClient() leaves where nothing is queued: one frame, or a closed socket.
LEMMA SentFromIdle ==
    ASSUME NEW o, GoodOutcome(o), o.session.tx.len = 0
    PROVE  /\ GoodOutcome(Sent(o, 1)) /\ Sent(o, 1).session.client = o.session.client
           /\ Sent(o, 1).session.authenticated = o.session.authenticated
           /\ Sent(o, 1).sock.open =>
                Sent(o, 1).session.tx.len = 1 /\ ~Sent(o, 1).session.refused
  <1>1. GoodSession(o.session)  BY OutcomeParts DEF GoodSession
  <1>2. CASE o.sock.open
    <2>1. Sent(o, 1) = Queued(o, 1)  BY <1>1, <1>2, IdleIsNotBusy DEF Sent
    <2> QED  BY <1>2, <2>1, QueuedGood, TcpLengths
  <1>3. CASE ~o.sock.open
    <2>1. Sent(o, 1) = o  BY <1>3 DEF Sent
    <2> QED  BY <1>3, <2>1
  <1> QED  BY <1>2, <1>3

\* The wrong token: the error is the last answer of this client, if its socket is open.
LEMMA RefusedGood ==
    ASSUME NEW o, GoodOutcome(o), o.session.tx.len = 0, o.session.client, ~MayCommand(o.session)
    PROVE  GoodOutcome(Refused(o)) /\ Refused(o).session.client
  <1> DEFINE q == Sent(o, 1)
             tx == [q.session.tx EXCEPT !.close = TRUE]
             t == [q.session EXCEPT !.tx = tx, !.refused = TRUE]
             r == Refused(o)
  <1>3. /\ GoodOutcome(q) /\ q.session.client /\ ~q.session.authenticated
        /\ q.sock.open => q.session.tx.len = 1
    BY SentFromIdle DEF MayCommand
  <1>5. r = [q EXCEPT !.session = t]
    <2>1. r = [q EXCEPT !.session.tx.close = TRUE, !.session.refused = TRUE]
      BY DEF Refused
    <2>2. q \in TcpOutcomes /\ q.session \in Sessions  BY <1>3, OutcomeParts
    <2> HIDE DEF q, r
    <2> QED  BY <2>1, <2>2 DEF TcpOutcomes, Sessions
  <1> HIDE DEF q, r
  <1>6. q \in TcpOutcomes /\ q.session \in Sessions /\ q.session.tx \in Queues
        /\ QueueOK(q.session.tx) /\ WireFollows(q.session.tx, q.wire)
    BY <1>3, OutcomeParts
  <1>7. tx \in Queues /\ tx.len = q.session.tx.len /\ tx.off = q.session.tx.off /\ tx.close
        /\ tx.state = q.session.tx.state /\ tx.id = q.session.tx.id
    BY <1>6 DEF Queues
  <1> HIDE DEF tx
  <1>8. t \in Sessions /\ t.tx = tx /\ t.client = q.session.client
        /\ t.authenticated = q.session.authenticated
    BY <1>6, <1>7 DEF Sessions
  <1> HIDE DEF t
  <1>9. r \in TcpOutcomes /\ r.session = t /\ r.wire = q.wire /\ r.sock = q.sock
    BY <1>5, <1>6, <1>8 DEF TcpOutcomes
  <1>10. QueueOK(tx)  BY <1>6, <1>7 DEF QueueOK
  <1>11. WireFollows(tx, q.wire)  BY <1>6, <1>7 DEF WireFollows
  <1>12. RefusalOK(t, q.sock)  BY <1>3, <1>7, <1>8 DEF RefusalOK
  <1> QED  BY <1>3, <1>8, <1>9, <1>10, <1>11, <1>12 DEF GoodOutcome, r

\* The right token.
LEMMA LoginGood ==
    ASSUME NEW o, GoodOutcome(o), o.session.tx.len = 0, o.session.client
    PROVE  /\ GoodOutcome([Sent(o, 1) EXCEPT !.session.authenticated = TRUE])
           /\ [Sent(o, 1) EXCEPT !.session.authenticated = TRUE].session.client
  <1> DEFINE q == Sent(o, 1)
             t == [q.session EXCEPT !.authenticated = TRUE]
             r == [q EXCEPT !.session.authenticated = TRUE]
  <1>3. GoodOutcome(q) /\ q.session.client /\ (q.sock.open => ~q.session.refused)
    BY SentFromIdle
  <1> HIDE DEF q
  <1>4. q \in TcpOutcomes /\ q.session \in Sessions  BY <1>3, OutcomeParts
  <1>5. t \in Sessions /\ t.tx = q.session.tx /\ t.refused = q.session.refused /\ t.client
    BY <1>3, <1>4 DEF Sessions
  <1>6. r = [q EXCEPT !.session = t]  OBVIOUS
  <1> HIDE DEF t, r
  <1>7. r \in TcpOutcomes /\ r.session = t /\ r.wire = q.wire /\ r.sock = q.sock
    BY <1>4, <1>5, <1>6 DEF TcpOutcomes
  <1> QED  BY <1>3, <1>5, <1>7 DEF GoodOutcome, RefusalOK, q, r

-----------------------------------------------------------------------------
(* Reading *)

\* What one frame of a client does.  It stays a client, for the queue is empty.
LEMMA FramedGood ==
    ASSUME NEW o, GoodOutcome(o), o.session.tx.len = 0, o.session.client, NEW q \in Framed(o)
    PROVE  GoodOutcome(q) /\ q.session.client
  <1>1. GoodSession(o.session)  BY OutcomeParts DEF GoodSession
  <1>2. \/ \E n \in Lengths : q = Sent(o, n)
        \/ q = o
        \/ ~MayCommand(o.session) /\ q = Refused(o)
        \/ q = [Sent(o, 1) EXCEPT !.session.authenticated = TRUE]
    BY TcpLengths DEF Framed
  <1>3. ASSUME NEW n \in Lengths
        PROVE  GoodOutcome(Sent(o, n)) /\ Sent(o, n).session.client
    <2>1. Sent(o, n) = IF o.sock.open THEN Queued(o, n) ELSE o
      BY <1>1, IdleIsNotBusy DEF Sent
    <2> QED  BY <2>1, QueuedGood
  <1> QED  BY <1>2, <1>3, RefusedGood, LoginGood

\* What a batch of frames does.
LEMMA BatchGood ==
    ASSUME NEW o, GoodOutcome(o), o.session.tx.len = 0, o.session.client, NEW q \in Batch(o)
    PROVE  GoodOutcome(q)
  <1> DEFINE fed(S) == UNION {Framed(x) : x \in UNION {Closing(p) : p \in S}}
             Ready(x) == GoodOutcome(x) /\ x.session.tx.len = 0 /\ x.session.client
  <1>1. ASSUME NEW S, \A p \in S : Ready(p), NEW y \in fed(S)
        PROVE  GoodOutcome(y) /\ y.session.client
    <2>1. PICK p \in S : \E x \in Closing(p) : y \in Framed(x)  BY <1>1
    <2>2. PICK x \in Closing(p) : y \in Framed(x)  BY <2>1
    <2>3. Ready(x)  BY <1>1, ClosingGood
    <2> QED  BY <2>2, <2>3, FramedGood
  <1> HIDE DEF fed
  <1>2. \A y \in fed({o}) : GoodOutcome(y) /\ y.session.client  BY <1>1
  <1>3. \A y \in {x \in fed({o}) : ~txBusy(x.session)} : Ready(y)
    <2> SUFFICES ASSUME NEW y \in fed({o}), ~txBusy(y.session) PROVE Ready(y)  OBVIOUS
    <2>1. GoodOutcome(y) /\ y.session.client  BY <1>2
    <2>2. GoodSession(y.session)  BY <2>1, OutcomeParts DEF GoodSession
    <2> QED  BY <2>1, <2>2, IdleIsNotBusy
  <1>4. \A y \in fed({x \in fed({o}) : ~txBusy(x.session)}) : GoodOutcome(y)
    BY <1>1, <1>3
  <1>5. q \in {o} \union fed({o}) \union fed({x \in fed({o}) : ~txBusy(x.session)})
    BY DEF Batch, fed
  <1> QED  BY <1>2, <1>4, <1>5

LEMMA ReadFromGood ==
    ASSUME NEW o, GoodOutcome(o), o.session.client, NEW q \in ReadFrom(o)
    PROVE  GoodOutcome(q)
  <1>1. GoodSession(o.session)  BY OutcomeParts DEF GoodSession
  <1>2. CASE q = o \/ q = Disconnected(o)  BY <1>2, DisconnectedGood
  <1>3. CASE ~txBusy(o.session) /\ q \in ReadBytes(o)
    <2>1. PICK rx \in {"unacknowledged", "pending"} : q \in Batch(WithReader(o, rx))
      BY <1>3 DEF ReadBytes, WithReader
    <2> DEFINE r == WithReader(o, rx)
    <2>2. GoodOutcome(r) /\ r.session.tx = o.session.tx /\ r.session.client = o.session.client
      BY ReaderChanged
    <2>3. o.session.tx.len = 0  BY <1>1, <1>3, IdleIsNotBusy
    <2> QED  BY <2>1, <2>2, <2>3, BatchGood
  <1> QED  BY <1>2, <1>3 DEF ReadFrom

-----------------------------------------------------------------------------
(* Sending *)

\* Each chunk follows the one before it, or begins a frame.
LEMMA ChunkGivenGood ==
    ASSUME NEW o, GoodOutcome(o), o.session.tx.len # 0, o.session.tx.state = "IDLE"
    PROVE  GoodOutcome(ChunkGiven(o))
  <1> DEFINE tx == [o.session.tx EXCEPT !.state = "COMMAND_PENDING"]
             k == [o.sock EXCEPT !.send = "given", !.sendOk = FALSE, !.timedOut = FALSE]
             w == [id |-> o.session.tx.id, chunk |-> o.session.tx.off + 1,
                   of |-> o.session.tx.len,
                   given |-> IF o.wire.chunk = o.wire.of THEN 1 ELSE o.wire.given + 1]
             t == [o.session EXCEPT !.tx = tx]
             r == ChunkGiven(o)
  <1>1. /\ o \in TcpOutcomes /\ o.session \in Sessions /\ o.sock \in Sockets /\ o.wire \in Wires
        /\ o.session.tx \in Queues /\ QueueOK(o.session.tx) /\ WireFollows(o.session.tx, o.wire)
        /\ RefusalOK(o.session, o.sock)
    BY OutcomeParts
  <1>2. /\ o.session.tx.len \in 0 .. FrameChunks /\ o.session.tx.off \in 0 .. FrameChunks
        /\ o.session.tx.id \in 0 .. 1 /\ o.wire.chunk \in 0 .. FrameChunks
        /\ o.wire.of \in 0 .. FrameChunks
    BY <1>1 DEF Queues, Wires
  <1>3. o.session.tx.off < o.session.tx.len /\ o.session.tx.off + 1 \in 0 .. FrameChunks
    BY <1>1, <1>2, FrameChunksAssumption DEF QueueOK
  <1>4. w.given = w.chunk
    <2>1. CASE o.session.tx.off = 0
      BY <1>1, <2>1 DEF WireFollows
    <2>2. CASE o.session.tx.off # 0
      <3>1. o.wire.chunk = o.session.tx.off /\ o.wire.of = o.session.tx.len
            /\ o.wire.given = o.wire.chunk
        BY <1>1, <2>2 DEF WireFollows
      <3> QED  BY <1>2, <1>3, <3>1
    <2> QED  BY <2>1, <2>2
  <1>5. w.given \in 0 .. FrameChunks + 1  BY <1>2, <1>3, <1>4, FrameChunksAssumption
  <1>6. w \in Wires  BY <1>2, <1>3, <1>5 DEF Wires
  <1>7. tx \in Queues /\ tx.len = o.session.tx.len /\ tx.off = o.session.tx.off
        /\ tx.id = o.session.tx.id /\ tx.state = "COMMAND_PENDING" /\ tx.close = o.session.tx.close
    BY <1>1 DEF Queues
  <1>8. k \in Sockets /\ k.open = o.sock.open  BY <1>1 DEF Sockets
  <1>9. w.id = tx.id /\ w.chunk = tx.off + 1 /\ w.of = tx.len  BY <1>7
  <1>10. r = [o EXCEPT !.session.tx.state = "COMMAND_PENDING", !.sock = k, !.wire = w]
    BY DEF ChunkGiven
  <1> HIDE DEF r, k, w
  <1>11. r = [o EXCEPT !.session = t, !.sock = k, !.wire = w]
    BY <1>1, <1>10 DEF TcpOutcomes, Sessions
  <1> HIDE DEF tx
  <1>12. t \in Sessions /\ t.tx = tx /\ t.client = o.session.client /\ t.refused = o.session.refused
         /\ t.authenticated = o.session.authenticated
    BY <1>1, <1>7 DEF Sessions
  <1> HIDE DEF t
  <1>13. r \in TcpOutcomes /\ r.session = t /\ r.wire = w /\ r.sock = k
    BY <1>1, <1>6, <1>8, <1>11, <1>12 DEF TcpOutcomes
  <1>14. QueueOK(tx) /\ WireFollows(tx, w)
    BY <1>1, <1>4, <1>7, <1>9 DEF QueueOK, WireFollows
  <1>15. RefusalOK(t, k)  BY <1>1, <1>7, <1>8, <1>12 DEF RefusalOK
  <1> QED  BY <1>12, <1>13, <1>14, <1>15 DEF GoodOutcome, r

\* SEND_OK moves the offset or ends the frame, and with it a refused client.
LEMMA FrameChunkSentGood ==
    ASSUME NEW o, GoodOutcome(o), o.session.tx.len # 0, o.session.tx.state = "ACK_PENDING",
           o.sock.open
    PROVE  GoodOutcome(FrameChunkSent(o))
  <1> DEFINE k == [o.sock EXCEPT !.sendOk = FALSE]
             p == WithSocket(o, k)
             next == [o.session.tx EXCEPT !.off = @ + 1, !.state = "IDLE"]
  <1>0. o.sock \in Sockets /\ k \in Sockets /\ k.open  BY OutcomeParts DEF Sockets
  <1>1. /\ GoodOutcome(p) /\ p.session = o.session /\ p.wire = o.wire /\ p.late = o.late
    BY <1>0, SocketChanged
  <1>2. [o EXCEPT !.sock.sendOk = FALSE] = p
    BY OutcomeParts DEF WithSocket, TcpOutcomes
  <1> HIDE DEF k, p
  <1>3. /\ o.session.tx \in Queues /\ QueueOK(o.session.tx) /\ WireFollows(o.session.tx, o.wire)
        /\ RefusalOK(o.session, o.sock) /\ o.late \in SUBSET Deadlines /\ o.wire \in Wires
    BY OutcomeParts
  <1>4. o.wire.id = o.session.tx.id /\ o.wire.chunk = o.session.tx.off + 1
        /\ o.wire.of = o.session.tx.len /\ o.wire.given = o.wire.chunk
    BY <1>3 DEF WireFollows
  <1>5. o.session.tx.len \in 0 .. FrameChunks /\ o.session.tx.off \in 0 .. FrameChunks
        /\ o.session.tx.off < o.session.tx.len
    BY <1>3 DEF Queues, QueueOK
  <1>6. CASE o.session.tx.off + 1 < o.session.tx.len
    <2>1. o.session.tx.off + 1 \in 0 .. FrameChunks
      BY <1>5, <1>6, FrameChunksAssumption
    <2>2. next \in Queues /\ next.len = o.session.tx.len /\ next.off = o.session.tx.off + 1
          /\ next.id = o.session.tx.id /\ next.state = "IDLE" /\ next.close = o.session.tx.close
      BY <1>3, <2>1 DEF Queues
    <2>3. FrameChunkSent(o) = [p EXCEPT !.session.tx = next]
      BY <1>2, <1>6 DEF FrameChunkSent
    <2>4. FrameChunkSent(o) = WithQueue(p, next, p.late)
      <3>1. p \in TcpOutcomes /\ p.session \in Sessions  BY <1>1, OutcomeParts
      <3> HIDE DEF next
      <3> QED  BY <2>3, <3>1 DEF WithQueue, TcpOutcomes
    <2> HIDE DEF next
    <2>5. QueueOK(next) /\ WireFollows(next, p.wire)
      BY <1>1, <1>4, <1>5, <1>6, <2>2 DEF QueueOK, WireFollows
    <2>6. p.session.refused => next.len # 0 /\ next.close
      BY <1>1, <1>3, <2>2 DEF RefusalOK
    <2> QED  BY <1>1, <1>3, <2>2, <2>4, <2>5, <2>6, QueueChanged
  <1>7. CASE ~(o.session.tx.off + 1 < o.session.tx.len) /\ o.session.tx.close
    <2>1. FrameChunkSent(o) = Disconnected(p)  BY <1>2, <1>7 DEF FrameChunkSent
    <2> QED  BY <1>1, <2>1, DisconnectedGood
  <1>8. CASE ~(o.session.tx.off + 1 < o.session.tx.len) /\ ~o.session.tx.close
    <2>1. FrameChunkSent(o) = TxReset(p)  BY <1>2, <1>8 DEF FrameChunkSent
    <2>2. TxReset(p) = WithQueue(p, NoTx, p.late \ {"send"})  BY DEF TxReset, WithQueue
    <2>3. p.wire.chunk = p.wire.of /\ p.wire.given = p.wire.chunk  BY <1>1, <1>4, <1>5, <1>8
    <2>4. WireFollows(NoTx, p.wire)  BY <2>3, NoTxGood DEF WireFollows
    <2>5. ~p.session.refused  BY <1>1, <1>3, <1>8 DEF RefusalOK
    <2>6. p.late \ {"send"} \in SUBSET Deadlines  BY <1>1, <1>3
    <2> QED  BY <1>1, <2>1, <2>2, <2>4, <2>5, <2>6, NoTxGood, QueueChanged
  <1> QED  BY <1>6, <1>7, <1>8

LEMMA CommandTakenGood ==
    ASSUME NEW o, GoodOutcome(o), o.session.tx.len # 0, o.session.tx.state = "COMMAND_PENDING"
    PROVE  GoodOutcome([o EXCEPT !.session.tx.state = "ACK_PENDING"])
  <1> DEFINE tx == [o.session.tx EXCEPT !.state = "ACK_PENDING"]
             r == [o EXCEPT !.session.tx.state = "ACK_PENDING"]
  <1>1. /\ o \in TcpOutcomes /\ o.session \in Sessions /\ o.session.tx \in Queues
        /\ QueueOK(o.session.tx) /\ WireFollows(o.session.tx, o.wire)
        /\ RefusalOK(o.session, o.sock) /\ o.late \in SUBSET Deadlines
    BY OutcomeParts
  <1>2. tx \in Queues /\ tx.len = o.session.tx.len /\ tx.off = o.session.tx.off
        /\ tx.id = o.session.tx.id /\ tx.state = "ACK_PENDING" /\ tx.close = o.session.tx.close
    BY <1>1 DEF Queues
  <1>3. r = WithQueue(o, tx, o.late)  BY <1>1 DEF WithQueue, TcpOutcomes, Sessions
  <1> HIDE DEF tx, r
  <1>4. QueueOK(tx) /\ WireFollows(tx, o.wire)
    BY <1>1, <1>2 DEF QueueOK, WireFollows
  <1>5. o.session.refused /\ o.sock.open => tx.len # 0 /\ tx.close
    BY <1>1, <1>2 DEF RefusalOK
  <1>6. GoodOutcome(r)  BY <1>1, <1>2, <1>3, <1>4, <1>5, QueueChanged
  <1> QED  BY <1>6 DEF r

\* writeOneChunk(), whatever it finds.
LEMMA WrittenGood ==
    ASSUME NEW o, GoodOutcome(o), NEW q \in Written(o)
    PROVE  GoodOutcome(q)
  <1>1. GoodSession(o.session) /\ o.session \in Sessions /\ o.session.tx \in Queues
    BY OutcomeParts DEF GoodSession
  <1>2. o.session.rx \in {"settled", "unacknowledged", "pending"}
        /\ o.session.tx.state \in {"IDLE", "COMMAND_PENDING", "ACK_PENDING"}
    BY <1>1 DEF Sessions, Queues
  <1>3. CASE q = o \/ q = Disconnected(o)  BY <1>3, DisconnectedGood
  <1>4. CASE q = SettleRx(o)
    BY <1>4, ReaderChanged DEF SettleRx, WithReader
  <1>5. SUFFICES ASSUME txBusy(o.session), ~Overdue(o), o.session.rx = "settled"
                 PROVE  GoodOutcome(q)
    BY <1>2, <1>3, <1>4 DEF Written
  <1>6. o.session.tx.len # 0 /\ o.sock.open  BY <1>1, <1>5, IdleIsNotBusy DEF Overdue
  <1>7. CASE o.session.tx.state = "COMMAND_PENDING"
    BY <1>3, <1>5, <1>6, <1>7, CommandTakenGood DEF Written
  <1>8. CASE o.session.tx.state = "ACK_PENDING"
    BY <1>3, <1>5, <1>6, <1>8, FrameChunkSentGood DEF Written
  <1>9. CASE o.session.tx.state = "IDLE"
    BY <1>3, <1>5, <1>6, <1>9, ChunkGivenGood DEF Written
  <1> QED  BY <1>2, <1>7, <1>8, <1>9

LEMMA ServedGood ==
    ASSUME NEW o, GoodOutcome(o), o.session.client, NEW q \in Served(o)
    PROVE  GoodOutcome(q)
  <1>1. CASE q = Shut(o)  BY <1>1, ClosingGood DEF Closing
  <1>2. CASE \E p \in ReadFrom(o) : q = p \/ \E x \in Closing(p) : q \in Written(x)
    BY <1>2, ReadFromGood, ClosingGood, WrittenGood
  <1> QED  BY <1>1, <1>2 DEF Served

\* accept() finds no session and an empty queue.
LEMMA AcceptedGood ==
    ASSUME NEW o, GoodOutcome(o), NEW q \in Accepted(o)
    PROVE  GoodOutcome(q)
  <1> DEFINE fresh == [NoSession EXCEPT !.client = TRUE]
             k == [o.sock EXCEPT !.open = TRUE]
             new == [o EXCEPT !.session = fresh, !.sock.open = TRUE, !.wire = NoChunk]
  <1>1. o \in TcpOutcomes /\ o.sock \in Sockets  BY OutcomeParts
  <1>2. fresh \in Sessions /\ fresh.client /\ fresh.tx = NoTx /\ ~fresh.refused
    BY NoSessionGood DEF Sessions
  <1>3. k \in Sockets  BY <1>1 DEF Sockets
  <1>4. new = [o EXCEPT !.session = fresh, !.sock = k, !.wire = NoChunk]
    BY <1>1 DEF TcpOutcomes
  <1> HIDE DEF fresh, k
  <1>5. NoChunk \in Wires  BY NoChunkGood
  <1>6. q = o \/ q \in Served(new)  BY DEF Accepted, fresh
  <1> HIDE DEF new
  <1>7. new \in TcpOutcomes /\ new.session = fresh /\ new.sock = k /\ new.wire = NoChunk
    BY <1>1, <1>2, <1>3, <1>4, <1>5 DEF TcpOutcomes
  <1>8. WireFollows(NoTx, NoChunk)  BY NoTxGood, NoChunkGood DEF WireFollows
  <1>9. RefusalOK(fresh, k)  BY <1>2 DEF RefusalOK
  <1>10. GoodOutcome(new)  BY <1>2, <1>7, <1>8, <1>9, NoTxGood DEF GoodOutcome
  <1> QED  BY <1>2, <1>6, <1>7, <1>10, ServedGood

-----------------------------------------------------------------------------
(* The steps *)

Ethernets == [dhcp : BOOLEAN, lease : BOOLEAN, got : BOOLEAN, seen : BOOLEAN]

\* What becomes of a good outcome.
LEMMA BecomeGood ==
    ASSUME NEW o, GoodOutcome(o), Become(o)
    PROVE  GoodOutcome(Now)'
  <1>1. o = [session |-> o.session, sock |-> o.sock, wire |-> o.wire, late |-> o.late]
    BY OutcomeParts DEF TcpOutcomes
  <1>2. Now' = o  BY <1>1 DEF Become, Now
  <1> QED  BY <1>2 DEF GoodOutcome

\* refreshIPString() caches a Boolean.
LEMMA RefreshedType ==
    ASSUME NEW e \in Ethernets, NEW ip \in BOOLEAN, link \in BOOLEAN
    PROVE  Refreshed(e, ip) \in Ethernets /\ Refreshed(e, ip).dhcp = e.dhcp
  <1> DEFINE got == link /\ (e.dhcp => e.lease) /\ ip
  <1>1. got \in BOOLEAN  BY DEF Ethernets
  <1>2. Refreshed(e, ip) = [e EXCEPT !.got = got]  BY DEF Refreshed
  <1> HIDE DEF got
  <1> QED  BY <1>1, <1>2 DEF Ethernets

LEMMA TcpLoopKeeps == ASSUME TcpInv, TcpLoop PROVE TcpInv'
  <1>1. /\ turn' = "ethernet" /\ eth' = Refreshed(eth, localIP) /\ UNCHANGED <<link, localIP>>
        /\ lastIpUsable' \in BOOLEAN
    BY DEF TcpLoop
  <1>2. eth' \in Ethernets  BY <1>1, RefreshedType DEF TcpInv, Ethernets
  <1>3. GoodOutcome(Now) /\ Now.session = session  BY DEF TcpInv, Now
  <1>4. \E o : GoodOutcome(o) /\ Become(o)
    <2>1. GoodOutcome(Disconnected(Now))  BY <1>3, DisconnectedGood
    <2>2. CASE Become(Disconnected(Now)) \/ Become(Now)  BY <1>3, <2>1, <2>2
    <2>3. CASE Connected /\ \E o \in Served(Now) : Become(o)
      BY <1>3, <2>3, ServedGood DEF Connected
    <2>4. CASE \E o \in Accepted(Now) \union Accepted(Disconnected(Now)) : Become(o)
      BY <1>3, <2>1, <2>4, AcceptedGood
    <2> QED  BY <2>2, <2>3, <2>4 DEF TcpLoop
  <1>5. GoodOutcome(Now)'  BY <1>4, BecomeGood
  <1> QED  BY <1>1, <1>2, <1>5 DEF TcpInv, Ethernets

LEMMA BroadcastKeeps == ASSUME TcpInv, Broadcast PROVE TcpInv'
  <1>1. /\ eth' = Refreshed(eth, localIP) /\ UNCHANGED <<link, localIP, lastIpUsable, turn>>
        /\ \E n \in Lengths, o \in Closing(Now) : Become(Sent(o, n))
    BY DEF Broadcast
  <1>2. eth' \in Ethernets  BY <1>1, RefreshedType DEF TcpInv, Ethernets
  <1>3. GoodOutcome(Now)'  BY <1>1, ClosingGood, SentGood, BecomeGood DEF TcpInv
  <1> QED  BY <1>1, <1>2, <1>3 DEF TcpInv, Ethernets

\* The manager leaves the session alone.
LEMMA EthernetLoopKeeps == ASSUME TcpInv, EthernetLoop PROVE TcpInv'
  <1>1. turn' = "tcp" /\ UNCHANGED <<link, lastIpUsable, session, sock, wire>>
    BY DEF EthernetLoop
  <1>2. GoodOutcome(Now) /\ late \in SUBSET Deadlines
    BY OutcomeParts DEF TcpInv, Now
  <1>3. Polled \in Ethernets
    BY DEF Polled, TcpInv, Ethernets
  <1>4. AfterPoll \subseteq Ethernets
    <2>1. [Polled EXCEPT !.lease = FALSE] \in Ethernets  BY <1>3 DEF Ethernets
    <2>2. eth \in Ethernets /\ link \in BOOLEAN /\ localIP \in BOOLEAN  BY DEF TcpInv, Ethernets
    <2>3. \A e \in AfterPoll : \/ e = eth \/ e = Refreshed(Polled, localIP)
                               \/ e = Refreshed([Polled EXCEPT !.lease = FALSE], localIP)
      BY DEF AfterPoll
    <2> QED  BY <1>3, <2>1, <2>2, <2>3, RefreshedType
  <1>5. PICK e \in AfterPoll :
          IF e.dhcp /\ ~e.got /\ link /\ RetryDue THEN TryDhcp(e)
          ELSE /\ eth' = e
               /\ late' = (late \ {"maintain"}) \union
                          (IF LinkChanged /\ eth.dhcp THEN {"retry"} ELSE {})
               /\ UNCHANGED localIP
    BY DEF EthernetLoop
  <1>6. eth' \in Ethernets /\ localIP' \in BOOLEAN /\ late' \in SUBSET Deadlines
    <2>1. CASE TryDhcp(e)
      <3>1. localIP' \in BOOLEAN /\ eth' = [e EXCEPT !.lease = localIP', !.got = localIP']
            /\ late' = late \ {"maintain", "retry"}
        BY <2>1 DEF TryDhcp
      <3> QED  BY <1>2, <1>4, <3>1 DEF Ethernets
    <2>2. CASE /\ eth' = e
               /\ late' = (late \ {"maintain"}) \union
                          (IF LinkChanged /\ eth.dhcp THEN {"retry"} ELSE {})
               /\ UNCHANGED localIP
      BY <1>2, <1>4, <2>2 DEF TcpInv, Deadlines
    <2> QED  BY <1>5, <2>1, <2>2
  <1>7. GoodOutcome(Now)'
    BY <1>1, <1>2, <1>6 DEF Now, GoodOutcome, TcpOutcomes
  <1> QED  BY <1>1, <1>6, <1>7 DEF TcpInv, Ethernets

\* The chip, the peer, the cable and the clock.
LEMMA NowParts ==
    ASSUME TcpInv
    PROVE  /\ session \in Sessions /\ sock \in Sockets /\ wire \in Wires /\ late \in SUBSET Deadlines
           /\ QueueOK(session.tx) /\ RefusalOK(session, sock) /\ WireFollows(session.tx, wire)
  BY OutcomeParts DEF TcpInv, Now

LEMMA NowFrom ==
    ASSUME session' \in Sessions, sock' \in Sockets, wire' \in Wires, late' \in SUBSET Deadlines,
           QueueOK(session.tx)', RefusalOK(session, sock)', WireFollows(session.tx, wire)',
           link' \in BOOLEAN, localIP' \in BOOLEAN, lastIpUsable' \in BOOLEAN, eth' \in Ethernets,
           turn' \in {"tcp", "ethernet"}
    PROVE  TcpInv'
  BY DEF TcpInv, Ethernets, Now, GoodOutcome, TcpOutcomes

LEMMA ManagerParts ==
    ASSUME TcpInv
    PROVE  /\ link \in BOOLEAN /\ localIP \in BOOLEAN /\ lastIpUsable \in BOOLEAN
           /\ eth \in Ethernets /\ turn \in {"tcp", "ethernet"}
  BY DEF TcpInv, Ethernets

LEMMA ChipKeeps ==
    ASSUME TcpInv, TcpChip \/ \E d \in Deadlines : Passes(d)
    PROVE  TcpInv'
  <1>1. CASE RecvTaken
    <2>1. /\ session' = [session EXCEPT !.rx = "settled"] /\ UNCHANGED <<sock, wire, late>>
          /\ UNCHANGED <<link, localIP, eth, lastIpUsable, turn>>
      BY <1>1 DEF RecvTaken, ChipOnly
    <2>2. /\ session' \in Sessions /\ session'.tx = session.tx /\ session'.refused = session.refused
          /\ session'.client = session.client /\ session'.authenticated = session.authenticated
      BY <2>1, NowParts DEF Sessions
    <2>3. QueueOK(session.tx)' /\ RefusalOK(session, sock)' /\ WireFollows(session.tx, wire)'
      BY <2>1, <2>2, NowParts DEF QueueOK, RefusalOK, WireFollows
    <2> QED  BY <2>1, <2>2, <2>3, NowParts, ManagerParts, NowFrom
  <1>2. CASE TcpSendTaken \/ Acknowledged \/ SendTimedOut \/ TcpPeerGone
    <2>1. /\ UNCHANGED <<session, wire, late>> /\ UNCHANGED <<link, localIP, eth, lastIpUsable, turn>>
      BY <1>2 DEF TcpSendTaken, Acknowledged, SendTimedOut, TcpPeerGone, ChipOnly
    <2>2. sock' \in Sockets
      BY <1>2, NowParts DEF TcpSendTaken, Acknowledged, SendTimedOut, TcpPeerGone, Sockets
    <2>3. sock'.open => sock.open
      BY <1>2, NowParts DEF TcpSendTaken, Acknowledged, SendTimedOut, TcpPeerGone, Sockets
    <2>4. QueueOK(session.tx)' /\ RefusalOK(session, sock)' /\ WireFollows(session.tx, wire)'
      BY <2>1, <2>3, NowParts DEF QueueOK, RefusalOK, WireFollows
    <2> QED  BY <2>1, <2>2, <2>4, NowParts, ManagerParts, NowFrom
  <1>3. CASE Cable \/ \E d \in Deadlines : Passes(d)
    <2>1. /\ UNCHANGED <<session, sock, wire>> /\ UNCHANGED <<localIP, eth, lastIpUsable, turn>>
          /\ link' \in BOOLEAN /\ late' \in SUBSET Deadlines
      BY <1>3, NowParts, ManagerParts DEF Cable, Passes
    <2>2. QueueOK(session.tx)' /\ RefusalOK(session, sock)' /\ WireFollows(session.tx, wire)'
      BY <2>1, NowParts DEF QueueOK, RefusalOK, WireFollows
    <2> QED  BY <2>1, <2>2, NowParts, ManagerParts, NowFrom
  <1> QED  BY <1>1, <1>2, <1>3 DEF TcpChip

LEMMA TcpStarts == TcpInit => TcpInv
  <1> SUFFICES ASSUME TcpInit PROVE TcpInv
    OBVIOUS
  <1>1. /\ EthernetBegin /\ lastIpUsable = FALSE /\ session = NoSession /\ sock = ClosedSock
        /\ wire = NoChunk /\ turn = "tcp"
    BY DEF TcpInit
  <1>2. PICK dhcp \in BOOLEAN :
          /\ eth = [dhcp |-> dhcp, lease |-> dhcp /\ localIP, got |-> link /\ localIP, seen |-> link]
          /\ late = IF dhcp /\ ~link THEN {"maintain", "retry"} ELSE {"maintain"}
    BY <1>1 DEF EthernetBegin
  <1>3. link \in BOOLEAN /\ localIP \in BOOLEAN  BY <1>1 DEF EthernetBegin
  <1>4. (dhcp /\ localIP) \in BOOLEAN /\ (link /\ localIP) \in BOOLEAN  OBVIOUS
  <1>5. eth \in Ethernets  BY <1>2, <1>3, <1>4 DEF Ethernets
  <1>6. late \in SUBSET Deadlines  BY <1>2 DEF Deadlines
  <1>7. sock \in Sockets  BY <1>1 DEF ClosedSock, Sockets
  <1>8. WireFollows(NoTx, NoChunk)  BY NoTxGood, NoChunkGood DEF WireFollows
  <1>9. GoodOutcome(Now)
    BY <1>1, <1>6, <1>7, <1>8, NoSessionGood, NoTxGood, NoChunkGood DEF Now, GoodOutcome, TcpOutcomes, RefusalOK
  <1> QED  BY <1>1, <1>3, <1>5, <1>9 DEF TcpInv, Ethernets

LEMMA TcpKeeps == TcpInv /\ [TcpNext]_tcpVars => TcpInv'
  <1>1. ASSUME TcpInv, UNCHANGED tcpVars PROVE TcpInv'
    BY <1>1 DEF tcpVars, TcpInv, Now, GoodOutcome, TcpOutcomes, QueueOK, RefusalOK, WireFollows
  <1> QED
    BY <1>1, TcpLoopKeeps, EthernetLoopKeeps, BroadcastKeeps, ChipKeeps DEF TcpNext, TcpFirmware

LEMMA TcpInvariant == TcpSpec => []TcpInv
  BY TcpStarts, TcpKeeps, PTL DEF TcpSpec

\* What the invariant says of a session: it is typed, its frames are whole, and a
\* refused client with an open socket does not command.
LEMMA TcpInvTyped == TcpInv => TcpTypeOK
  BY NowParts, ManagerParts DEF TcpTypeOK, Sessions, Sockets, Wires, Queues, Ethernets

LEMMA TcpInvWhole == TcpInv => WholeFramesOnWire
  <1> SUFFICES ASSUME TcpInv PROVE WholeFramesOnWire
    OBVIOUS
  <1>1. /\ session.tx \in Queues /\ QueueOK(session.tx) /\ WireFollows(session.tx, wire)
        /\ GoodSession(session) /\ wire \in Wires
    BY NowParts DEF Sessions, GoodSession
  <1>2. txBusy(session) <=> session.tx.len # 0  BY <1>1, IdleIsNotBusy
  <1>3. wire.chunk < wire.of => session.tx.len # 0 /\ session.tx.id = wire.id
    BY <1>1 DEF WireFollows, Wires, Queues
  <1> QED  BY <1>1, <1>2, <1>3 DEF WholeFramesOnWire, WireFollows

LEMMA TcpInvRefused == TcpInv => RefusedClientCloses
  <1> SUFFICES ASSUME TcpInv PROVE RefusedClientCloses
    OBVIOUS
  <1>1. RefusalOK(session, sock) /\ GoodSession(session)  BY NowParts DEF GoodSession
  <1> QED  BY <1>1, IdleIsNotBusy DEF RefusedClientCloses, RefusalOK

\* The variables keep their types.
THEOREM TcpTypeCorrect == TcpSpec => []TcpTypeOK
  BY TcpInvTyped, TcpInvariant, PTL

\* w5100s_ethernet_transport.cpp: whatever answers, broadcasts, deadlines and
\* disconnections meet, what a session gives to the chip is whole frames, chunk by chunk,
\* and a frame begun stays in the queue until its last one, for frames of any length.
THEOREM FramesStayWhole == TcpSpec => []WholeFramesOnWire
  BY TcpInvWhole, TcpInvariant, PTL

\* onFrameOk(): a client whose token was refused does not command as long as its socket is
\* open, and its error is in the queue; a socket that closes in the pass of the refusal
\* is the exception (see RefusedClientCloses).
THEOREM RefusedClientAwaitsClose == TcpSpec => []RefusedClientCloses
  BY TcpInvRefused, TcpInvariant, PTL

(* The battery: a mean of plausible samples is plausible. *)

\* What a quotient is, once for all that divides below.
LEMMA Quotient ==
    ASSUME NEW a \in Nat, NEW d \in Nat \ {0}
    PROVE  a \div d \in Nat /\ d * (a \div d) <= a /\ a < d * ((a \div d) + 1)
  OBVIOUS

LEMMA QuotientAtLeast ==
    ASSUME NEW a \in Nat, NEW d \in Nat \ {0}, NEW q \in Nat, d * q <= a
    PROVE  q <= a \div d
  <1> DEFINE x == a \div d
  <1>1. x \in Nat /\ a < d * (x + 1)  BY Quotient
  <1> HIDE DEF x
  <1>2. SUFFICES ASSUME x < q PROVE FALSE  BY <1>1
  <1>3. x + 1 <= q  BY <1>1, <1>2
  <1>4. d * (x + 1) <= d * q  BY <1>1, <1>3
  <1> QED  BY <1>1, <1>4

LEMMA QuotientAtMost ==
    ASSUME NEW a \in Nat, NEW d \in Nat \ {0}, NEW q \in Nat, a < d * (q + 1)
    PROVE  a \div d <= q
  <1> DEFINE x == a \div d
  <1>1. x \in Nat /\ d * x <= a  BY Quotient
  <1> HIDE DEF x
  <1>2. SUFFICES ASSUME q < x PROVE FALSE  BY <1>1
  <1>3. q + 1 <= x  BY <1>1, <1>2
  <1>4. d * (q + 1) <= d * x  BY <1>1, <1>3
  <1> QED  BY <1>1, <1>4

\* The conversion is monotone, so what lies between two plausible readings is plausible.
LEMMA PlausibleBetween ==
    ASSUME NEW low \in Nat, NEW high \in Nat, NEW mean \in Nat,
           Plausible(low), Plausible(high), low <= mean, mean <= high
    PROVE  Plausible(mean)
  <1> DEFINE D == ADC_COUNTS * MV_DENOMINATOR
             mv(raw) == (raw * MV_NUMERATOR) \div D
  <1>1. D \in Nat \ {0} /\ MV_NUMERATOR \in Nat /\ ADC_COUNTS \in Nat /\ MIN_MV \in Nat
        /\ MAX_MV \in Nat /\ MILLIVOLTS_UNAVAILABLE \in Nat /\ MAX_MV < MILLIVOLTS_UNAVAILABLE
    BY AdcAssumption
  <1>2. ASSUME NEW raw \in Nat
        PROVE  Plausible(raw) <=> raw < ADC_COUNTS /\ mv(raw) >= MIN_MV /\ mv(raw) <= MAX_MV
    <2>1. mv(raw) \in Nat  BY <1>1, Quotient
    <2> QED  BY <2>1, <1>1 DEF Plausible, Millivolts
  <1>3. ASSUME NEW a \in Nat, NEW b \in Nat, a <= b
        PROVE  mv(a) <= mv(b)
    <2>1. a * MV_NUMERATOR <= b * MV_NUMERATOR /\ a * MV_NUMERATOR \in Nat
          /\ b * MV_NUMERATOR \in Nat
      BY <1>1, <1>3
    <2>2. mv(a) \in Nat /\ D * mv(a) <= a * MV_NUMERATOR  BY <1>1, <2>1, Quotient
    <2> HIDE DEF D
    <2>3. D * mv(a) <= b * MV_NUMERATOR  BY <1>1, <2>1, <2>2
    <2> QED  BY <1>1, <2>1, <2>2, <2>3, QuotientAtLeast
  <1>4. mv(low) \in Nat /\ mv(mean) \in Nat /\ mv(high) \in Nat  BY <1>1, Quotient
  <1>5. mv(low) <= mv(mean) /\ mv(mean) <= mv(high)  BY <1>3
  <1>6. low < ADC_COUNTS /\ mv(low) >= MIN_MV /\ high < ADC_COUNTS /\ mv(high) <= MAX_MV
    BY <1>2
  <1>7. mean < ADC_COUNTS  BY <1>1, <1>6
  <1> HIDE DEF mv
  <1>8. mv(mean) >= MIN_MV /\ mv(mean) <= MAX_MV  BY <1>1, <1>4, <1>5, <1>6
  <1> QED  BY <1>2, <1>7, <1>8

LEMMA MeanPlausible ==
    ASSUME NEW valid \in Nat \ {0}, NEW total \in Nat, NEW low \in Nat, NEW high \in Nat,
           Plausible(low), Plausible(high), valid * low <= total, total <= valid * high
    PROVE  Plausible(total \div valid)
  <1> DEFINE mean == total \div valid
  <1>1. mean \in Nat  BY Quotient
  <1>2. low <= mean  BY QuotientAtLeast
  <1>3. total < valid * (high + 1)
    <2>1. valid * (high + 1) = valid * high + valid  OBVIOUS
    <2>2. valid * high \in Nat  OBVIOUS
    <2> QED  BY <2>1, <2>2
  <1>4. mean <= high  BY <1>3, QuotientAtMost
  <1> HIDE DEF mean
  <1>5. Plausible(mean)  BY <1>1, <1>2, <1>4, PlausibleBetween
  <1> QED  BY <1>5 DEF mean

LEMMA SampleKeepsBounds ==
    ASSUME NEW valid \in Nat, NEW total \in Nat, NEW raw \in Nat,
           NEW low \in Nat, NEW high \in Nat, low <= raw, raw <= high,
           valid * low <= total, total <= valid * high
    PROVE  (valid + 1) * low <= total + raw /\ total + raw <= (valid + 1) * high
  <1>1. (valid + 1) * low = valid * low + low /\ (valid + 1) * high = valid * high + high
    OBVIOUS
  <1>2. valid * low \in Nat /\ valid * high \in Nat  OBVIOUS
  <1> QED  BY <1>1, <1>2

LEMMA TighterBound ==
    ASSUME NEW valid \in Nat, NEW a \in Nat, NEW b \in Nat, a <= b
    PROVE  valid * a <= valid * b
  OBVIOUS

LEMMA SampledKeeps ==
    ASSUME NEW valid \in Nat, NEW total \in Nat, NEW raw \in Nat, Plausible(raw),
           valid = 0 => total = 0,
           valid # 0 => \E low, high \in Nat :
                /\ Plausible(low) /\ Plausible(high) /\ low <= high
                /\ valid * low <= total /\ total <= valid * high
    PROVE  \E low, high \in Nat :
                /\ Plausible(low) /\ Plausible(high) /\ low <= high
                /\ (valid + 1) * low <= total + raw /\ total + raw <= (valid + 1) * high
  <1>1. CASE valid = 0
    <2>1. (valid + 1) * raw = raw /\ total + raw = raw  BY <1>1
    <2> QED  BY <2>1
  <1>2. CASE valid # 0
    <2>1. PICK low \in Nat, high \in Nat :
                /\ Plausible(low) /\ Plausible(high) /\ low <= high
                /\ valid * low <= total /\ total <= valid * high
      BY <1>2
    <2> DEFINE least == IF raw < low THEN raw ELSE low
               most == IF raw > high THEN raw ELSE high
    <2>2. least \in Nat /\ most \in Nat /\ least <= low /\ high <= most /\ least <= raw
          /\ raw <= most /\ least <= most
      BY <2>1
    <2>3. Plausible(least) /\ Plausible(most)  BY <2>1
    <2> HIDE DEF least, most
    <2>4. valid * least <= valid * low /\ valid * high <= valid * most  BY <2>2, TighterBound
    <2>5. valid * least <= total /\ total <= valid * most
      <3>1. valid * least \in Nat /\ valid * low \in Nat /\ valid * high \in Nat
            /\ valid * most \in Nat
        BY <2>2
      <3> QED  BY <2>1, <2>4, <3>1
    <2>6. (valid + 1) * least <= total + raw /\ total + raw <= (valid + 1) * most
      BY <2>2, <2>5, SampleKeepsBounds
    <2> QED  BY <2>2, <2>3, <2>6
  <1> QED  BY <1>1, <1>2

\* The plausible samples of a batch lie between two plausible readings.
BatchSound(b) ==
    /\ b.valid = 0 => b.total = 0
    /\ b.valid # 0 => \E low, high \in Nat :
                        /\ Plausible(low) /\ Plausible(high) /\ low <= high
                        /\ b.valid * low <= b.total /\ b.total <= b.valid * high
Batches == [taken : Nat, valid : Nat, total : Nat, millivolts : Nat]
Told(mv) == mv \in (MIN_MV .. MAX_MV) \union {MILLIVOLTS_UNAVAILABLE}
BatterySound ==
    battery \in Batches /\ battery.taken < SAMPLES /\ BatchSound(battery) /\ Told(battery.millivolts)

LEMMA BatchGrows ==
    ASSUME NEW b \in Batches, BatchSound(b), NEW raw \in Nat
    PROVE  /\ Sampled(b, raw) \in Batches /\ BatchSound(Sampled(b, raw))
           /\ Sampled(b, raw).millivolts = b.millivolts
  <1>1. b.taken \in Nat /\ b.valid \in Nat /\ b.total \in Nat /\ b.taken + 1 \in Nat
        /\ b.valid + 1 \in Nat /\ b.total + raw \in Nat
    BY DEF Batches
  <1>2. CASE ~Plausible(raw)
    <2>1. Sampled(b, raw) = [b EXCEPT !.taken = @ + 1, !.valid = @, !.total = @]
      BY <1>2 DEF Sampled
    <2> QED  BY <1>1, <2>1 DEF Batches, BatchSound
  <1>3. CASE Plausible(raw)
    <2> DEFINE s == Sampled(b, raw)
    <2>1. s = [b EXCEPT !.taken = @ + 1, !.valid = @ + 1, !.total = @ + raw]
      BY <1>3 DEF Sampled
    <2>2. s \in Batches /\ s.valid = b.valid + 1 /\ s.total = b.total + raw
          /\ s.millivolts = b.millivolts
      BY <1>1, <2>1 DEF Batches
    <2>3. s.valid # 0  BY <1>1, <2>2
    <2>4. \E low, high \in Nat :
                /\ Plausible(low) /\ Plausible(high) /\ low <= high
                /\ (b.valid + 1) * low <= b.total + raw /\ b.total + raw <= (b.valid + 1) * high
      BY <1>1, <1>3, SampledKeeps DEF BatchSound
    <2> HIDE DEF s
    <2>5. BatchSound(s)  BY <2>2, <2>3, <2>4 DEF BatchSound
    <2> QED  BY <2>2, <2>5 DEF s
  <1> QED  BY <1>2, <1>3

LEMMA FilterPlausible ==
    ASSUME NEW b \in Batches, BatchSound(b)
    PROVE  Told(Filtered(b)) /\ Filtered(b) \in Nat
  <1>1. MIN_SAMPLES \in Nat \ {0} /\ MIN_MV \in Nat /\ MAX_MV \in Nat
        /\ MILLIVOLTS_UNAVAILABLE \in Nat
    BY AdcAssumption
  <1>2. CASE b.valid < MIN_SAMPLES
    BY <1>1, <1>2 DEF Told, Filtered
  <1>3. CASE ~(b.valid < MIN_SAMPLES)
    <2>1. b.valid \in Nat \ {0} /\ b.total \in Nat  BY <1>1, <1>3 DEF Batches
    <2>2. PICK low \in Nat, high \in Nat :
             /\ Plausible(low) /\ Plausible(high)
             /\ b.valid * low <= b.total /\ b.total <= b.valid * high
      BY <2>1 DEF BatchSound
    <2>3. Plausible(b.total \div b.valid)  BY <2>1, <2>2, MeanPlausible
    <2>4. Filtered(b) = Millivolts(b.total \div b.valid)  BY <1>3 DEF Filtered
    <2> QED  BY <1>1, <2>3, <2>4 DEF Plausible, Told
  <1> QED  BY <1>2, <1>3

LEMMA BatteryStarts ==
    ASSUME BatteryInit
    PROVE  BatterySound
  <1>1. battery \in Batches  BY AdcAssumption DEF BatteryInit, Batches
  <1>2. BatchSound(battery) /\ battery.taken < SAMPLES /\ Told(battery.millivolts)
    BY AdcAssumption DEF BatteryInit, BatchSound, Told
  <1> QED  BY <1>1, <1>2 DEF BatterySound

LEMMA BatteryKeeps ==
    ASSUME BatterySound, BatteryLoop
    PROVE  BatterySound'
  <1>1. PICK raw \in 0 .. ADC_COUNTS :
          battery' = IF Sampled(battery, raw).taken < SAMPLES THEN Sampled(battery, raw)
                     ELSE [taken |-> 0, valid |-> 0, total |-> 0,
                           millivolts |-> Filtered(Sampled(battery, raw))]
    BY DEF BatteryLoop
  <1> DEFINE b == Sampled(battery, raw)
  <1>2. raw \in Nat  BY AdcAssumption
  <1>3. b \in Batches /\ BatchSound(b) /\ b.millivolts = battery.millivolts
    BY <1>2, BatchGrows DEF BatterySound
  <1>4. Told(battery.millivolts) /\ SAMPLES \in Nat \ {0}  BY AdcAssumption DEF BatterySound
  <1>5. Told(Filtered(b)) /\ Filtered(b) \in Nat  BY <1>3, FilterPlausible
  <1>6. battery' = IF b.taken < SAMPLES THEN b
                   ELSE [taken |-> 0, valid |-> 0, total |-> 0, millivolts |-> Filtered(b)]
    BY <1>1
  <1> HIDE DEF b
  <1>7. CASE b.taken < SAMPLES
    <2>1. battery' = b  BY <1>6, <1>7
    <2> QED  BY <1>3, <1>4, <1>7, <2>1 DEF BatterySound, BatchSound, Told
  <1>8. CASE ~(b.taken < SAMPLES)
    <2>1. battery' = [taken |-> 0, valid |-> 0, total |-> 0, millivolts |-> Filtered(b)]
      BY <1>6, <1>8
    <2>2. battery' \in Batches /\ battery'.taken < SAMPLES /\ battery'.valid = 0
          /\ battery'.total = 0 /\ battery'.millivolts = Filtered(b)
      BY <1>4, <1>5, <2>1 DEF Batches
    <2> QED  BY <1>5, <2>2 DEF BatterySound, BatchSound, Told
  <1> QED  BY <1>7, <1>8

(* The climate *)

LEMMA OlderAge ==
    ASSUME NEW limit \in Nat, NEW age \in 0 .. limit
    PROVE  Older(age, limit) \in 0 .. limit
  BY DEF Older

Climates == [detected : BOOLEAN, measuring : BOOLEAN, available : BOOLEAN,
             probe : 0 .. REPROBE_INTERVAL, start : 0 .. MAX_SAMPLE_AGE,
             sample : 0 .. MAX_SAMPLE_AGE, converted : 0 .. MAX_SAMPLE_AGE]
EnvSound(e) == e \in Climates /\ e.sample = e.converted /\ (e.available => e.detected)

LEMMA ProbeSound ==
    ASSUME NEW e \in Climates, e.sample = e.converted, NEW f \in ProbeOutcomes(e) \union {Offline(e)}
    PROVE  EnvSound(f)
  <1>1. SAMPLE_INTERVAL \in 0 .. MAX_SAMPLE_AGE /\ 0 \in 0 .. MAX_SAMPLE_AGE
        /\ 0 \in 0 .. REPROBE_INTERVAL
    BY IntervalAssumption
  <1>2. Offline(e) \in Climates /\ Offline(e).sample = Offline(e).converted
        /\ ~Offline(e).available
    BY <1>1 DEF Climates, Offline
  <1> DEFINE o == Offline(e)
  <1>3. f = o \/ f = [o EXCEPT !.detected = TRUE, !.start = SAMPLE_INTERVAL]
    BY DEF ProbeOutcomes
  <1>4. o \in Climates /\ o.sample = o.converted /\ ~o.available  BY <1>2
  <1> HIDE DEF o
  <1>5. CASE f = o  BY <1>4, <1>5 DEF EnvSound
  <1>6. CASE f = [o EXCEPT !.detected = TRUE, !.start = SAMPLE_INTERVAL]
    BY <1>1, <1>4, <1>6 DEF EnvSound, Climates
  <1> QED  BY <1>3, <1>5, <1>6

LEMMA EnvKeeps ==
    ASSUME EnvSound(env), EnvNext
    PROVE  EnvSound(env')
  <1>1. env \in Climates /\ env.sample = env.converted /\ (env.available => env.detected)
    BY DEF EnvSound
  <1>2. CASE EnvTick
    <2>1. MAX_SAMPLE_AGE \in Nat /\ REPROBE_INTERVAL \in Nat  BY IntervalAssumption
    <2> DEFINE p == Older(env.probe, REPROBE_INTERVAL)
               s == Older(env.start, MAX_SAMPLE_AGE)
               a == Older(env.sample, MAX_SAMPLE_AGE)
    <2>2. p \in 0 .. REPROBE_INTERVAL /\ s \in 0 .. MAX_SAMPLE_AGE /\ a \in 0 .. MAX_SAMPLE_AGE
      BY <1>1, <2>1, OlderAge DEF Climates
    <2>3. env' = [env EXCEPT !.probe = p, !.start = s, !.sample = a, !.converted = a]
      BY <1>1, <1>2 DEF EnvTick
    <2> HIDE DEF p, s, a
    <2> QED  BY <1>1, <2>2, <2>3 DEF EnvSound, Climates
  <1>3. CASE EnvLoop
    <2>1. 0 \in 0 .. MAX_SAMPLE_AGE  BY IntervalAssumption
    <2>2. CASE env' \in ProbeOutcomes(env) \union {Offline(env)}
      BY <1>1, <2>2, ProbeSound
    <2>3. CASE env' = env
      BY <2>3 DEF EnvSound
    <2>4. CASE env.detected /\ env' = [env EXCEPT !.measuring = TRUE, !.start = 0]
      BY <1>1, <2>1, <2>4 DEF EnvSound, Climates
    <2>5. CASE env.detected /\ env' = Cached(env)
      BY <1>1, <2>5 DEF EnvSound, Climates, Cached
    <2>6. env.detected \in BOOLEAN /\ env.measuring \in BOOLEAN  BY <1>1 DEF Climates
    <2>7. CASE ~env.detected
      BY <1>3, <2>2, <2>3, <2>7 DEF EnvLoop, EnvOutcomes
    <2>8. CASE env.detected /\ ~env.measuring
      BY <1>3, <2>2, <2>3, <2>4, <2>8 DEF EnvLoop, EnvOutcomes
    <2>9. CASE env.detected /\ env.measuring
      <3>1. env' \in {env, Offline(env), Busy(env), Cached(env)}
        BY <1>3, <2>9 DEF EnvLoop, EnvOutcomes
      <3>2. Busy(env) \in {env, Offline(env)}  BY DEF Busy
      <3> QED  BY <2>2, <2>3, <2>5, <2>9, <3>1, <3>2
    <2> QED  BY <2>6, <2>7, <2>8, <2>9
  <1> QED  BY <1>2, <1>3 DEF EnvNext

LEMMA EnvStarts ==
    ASSUME EnvInit
    PROVE  EnvSound(env)
  <1> DEFINE e == [detected |-> FALSE, measuring |-> FALSE, available |-> FALSE,
                   probe |-> 0, start |-> 0, sample |-> 0, converted |-> 0]
  <1>1. e \in Climates /\ e.sample = e.converted  BY IntervalAssumption DEF Climates
  <1>2. env \in ProbeOutcomes(e)  BY DEF EnvInit
  <1> HIDE DEF e
  <1> QED  BY <1>1, <1>2, ProbeSound

(* The supply *)

Supplies == [available : BOOLEAN, valid : BOOLEAN, answered : BOOLEAN,
             failures : 0 .. MAX_CONSECUTIVE_FAILURES, probe : 0 .. REPROBE_INTERVAL,
             voltage : Volts \union {NoVolts}, minimum : Volts \union {NoVolts}]
SupplySound(p) ==
    /\ p \in Supplies
    /\ p.available => p.failures < MAX_CONSECUTIVE_FAILURES
    /\ p.valid => p.available /\ p.answered /\ p.minimum <= p.voltage

LEMMA SampleSound ==
    ASSUME NEW p \in Supplies, p.failures < MAX_CONSECUTIVE_FAILURES,
           NEW q \in SampleOutcomes(p)
    PROVE  SupplySound(q)
  <1>1. MAX_CONSECUTIVE_FAILURES \in Nat \ {0} /\ 0 \in 0 .. REPROBE_INTERVAL
        /\ Volts \subseteq Nat /\ NoVolts \in Nat
    BY IntervalAssumption, AdcAssumption DEF NoVolts
  <1>2. CASE q = SampleFails(p)
    <2> DEFINE f == [p EXCEPT !.valid = FALSE, !.failures = @ + 1, !.answered = FALSE]
    <2> DEFINE next == p.failures + 1
    <2>0. next \in 0 .. MAX_CONSECUTIVE_FAILURES /\ p \in Supplies
      <3>1. p.failures \in 0 .. MAX_CONSECUTIVE_FAILURES  BY DEF Supplies
      <3> QED  BY <1>1, <3>1
    <2> HIDE DEF next
    <2>1. f \in Supplies /\ f.failures = next /\ ~f.valid
      <3>1. f = [p EXCEPT !.valid = FALSE, !.failures = next, !.answered = FALSE]
        BY <2>0 DEF next, Supplies
      <3> HIDE DEF f
      <3> QED  BY <2>0, <3>1 DEF Supplies
    <2>2. q = IF f.failures >= MAX_CONSECUTIVE_FAILURES
              THEN [f EXCEPT !.available = FALSE, !.probe = 0] ELSE f
      BY <1>2 DEF SampleFails
    <2> HIDE DEF f
    <2>3. CASE f.failures >= MAX_CONSECUTIVE_FAILURES
      BY <1>1, <2>1, <2>2, <2>3 DEF SupplySound, Supplies
    <2>4. CASE ~(f.failures >= MAX_CONSECUTIVE_FAILURES)
      <3>1. f.failures \in Nat  BY <1>1, <2>1 DEF Supplies
      <3> QED  BY <1>1, <2>1, <2>2, <2>4, <3>1 DEF SupplySound
    <2> QED  BY <2>3, <2>4
  <1>3. ASSUME NEW v \in Volts, q = SampleGives(p, v)
        PROVE  SupplySound(q)
    <2> DEFINE least == IF p.minimum = NoVolts \/ v < p.minimum THEN v ELSE p.minimum
    <2>1. p.minimum \in Nat /\ v \in Nat  BY <1>1 DEF Supplies
    <2>2. least \in Volts \union {NoVolts} /\ least <= v  BY <1>1, <2>1 DEF Supplies
    <2>3. q = [p EXCEPT !.valid = TRUE, !.available = TRUE, !.failures = 0, !.voltage = v,
                        !.answered = TRUE, !.minimum = least]
      BY <1>3 DEF SampleGives
    <2> HIDE DEF least
    <2>4. q \in Supplies
      <3>1. v \in Volts \union {NoVolts} /\ 0 \in 0 .. MAX_CONSECUTIVE_FAILURES  BY <1>1
      <3> QED  BY <2>2, <2>3, <3>1 DEF Supplies
    <2>5. q.available /\ q.answered /\ q.failures = 0 /\ q.minimum = least /\ q.voltage = v
      BY <2>3 DEF Supplies
    <2> QED  BY <1>1, <2>2, <2>4, <2>5 DEF SupplySound
  <1> QED  BY <1>2, <1>3 DEF SampleOutcomes

LEMMA BeginSound ==
    ASSUME NEW p \in Supplies, NEW q \in BeginOutcomes(p)
    PROVE  SupplySound(q)
  <1>1. /\ MAX_CONSECUTIVE_FAILURES \in Nat \ {0} /\ 0 \in 0 .. REPROBE_INTERVAL
        /\ 0 \in 0 .. MAX_CONSECUTIVE_FAILURES
    BY IntervalAssumption
  <1> DEFINE asked == [p EXCEPT !.probe = 0, !.answered = FALSE]
             begun == [asked EXCEPT !.failures = 0, !.available = TRUE]
  <1>2. asked \in Supplies  BY <1>1 DEF Supplies
  <1>3. begun \in Supplies /\ begun.failures = 0
    <2> HIDE DEF asked
    <2> QED  BY <1>1, <1>2 DEF Supplies
  <1>4. \/ q = [asked EXCEPT !.available = FALSE, !.valid = FALSE]
        \/ \E s \in SampleOutcomes(begun) :
             q = IF s.valid THEN s ELSE [s EXCEPT !.available = FALSE, !.probe = 0]
    BY DEF BeginOutcomes
  <1> HIDE DEF asked, begun
  <1>5. CASE q = [asked EXCEPT !.available = FALSE, !.valid = FALSE]
    BY <1>2, <1>5 DEF SupplySound, Supplies
  <1>6. ASSUME NEW s \in SampleOutcomes(begun),
               q = IF s.valid THEN s ELSE [s EXCEPT !.available = FALSE, !.probe = 0]
        PROVE  SupplySound(q)
    <2>1. SupplySound(s)  BY <1>1, <1>3, SampleSound
    <2>2. CASE s.valid  BY <1>6, <2>1, <2>2
    <2>3. CASE ~s.valid
      BY <1>1, <1>6, <2>1, <2>3 DEF SupplySound, Supplies
    <2> QED  BY <2>2, <2>3
  <1> QED  BY <1>4, <1>5, <1>6

LEMMA PowerStarts ==
    ASSUME PowerInit
    PROVE  SupplySound(power)
  <1> DEFINE p == [available |-> FALSE, valid |-> FALSE, failures |-> 0, probe |-> 0,
                   answered |-> FALSE, voltage |-> NoVolts, minimum |-> NoVolts]
  <1>1. p \in Supplies  BY IntervalAssumption DEF Supplies
  <1>2. power \in BeginOutcomes(p)  BY DEF PowerInit
  <1> HIDE DEF p
  <1> QED  BY <1>1, <1>2, BeginSound

LEMMA PowerKeeps ==
    ASSUME SupplySound(power), PowerNext
    PROVE  SupplySound(power')
  <1>1. power \in Supplies /\ (power.available => power.failures < MAX_CONSECUTIVE_FAILURES)
    BY DEF SupplySound
  <1>2. CASE PowerTick
    <2> DEFINE o == Older(power.probe, REPROBE_INTERVAL)
    <2>1. o \in 0 .. REPROBE_INTERVAL
      BY <1>1, IntervalAssumption, OlderAge DEF Supplies
    <2>2. power' = [power EXCEPT !.probe = o]  BY <1>2 DEF PowerTick
    <2> HIDE DEF o
    <2> QED  BY <1>1, <2>1, <2>2 DEF SupplySound, Supplies
  <1>3. CASE PowerLoop
    <2>1. CASE power.available
      BY <1>1, <1>3, <2>1, SampleSound DEF PowerLoop
    <2>2. CASE power' \in BeginOutcomes(power)
      BY <1>1, <2>2, BeginSound
    <2>3. CASE power' = power
      BY <2>3
    <2>4. power.available \/ power' \in BeginOutcomes(power) \/ power' = power
      BY <1>3 DEF PowerLoop
    <2> QED  BY <2>1, <2>2, <2>3, <2>4
  <1> QED  BY <1>2, <1>3 DEF PowerNext

(* The fan *)

Fans == [task : {"setup", "running", "publishing", "ended"},
         pin : BOOLEAN, enabled : BOOLEAN, control : BOOLEAN,
         reading : Temperatures, temperature : Temperatures, age : 0 .. TEMPERATURE_AGE]

\* What the task decided rests on the reading that it publishes next.
FanSound ==
    /\ fan \in Fans
    /\ fan.enabled = fan.pin
    /\ ~fan.pin => fan.temperature \in {"cool", "band"}
    /\ fan.task = "publishing" /\ ~fan.control => fan.reading \in {"cool", "band"}

LEMMA FanStarts ==
    ASSUME FanInit
    PROVE  FanSound
  <1>1. PICK s \in {"ended", "setup"} :
          fan = [task |-> s, pin |-> TRUE, enabled |-> TRUE, control |-> TRUE,
                 reading |-> "none", temperature |-> "none", age |-> 0]
    BY DEF FanInit
  <1>2. 0 \in 0 .. TEMPERATURE_AGE  BY IntervalAssumption
  <1> QED  BY <1>1, <1>2 DEF FanSound, Fans, Temperatures

LEMMA FanKeeps ==
    ASSUME FanSound, FanNext
    PROVE  FanSound'
  <1>1. CASE FanSetup
    BY <1>1 DEF FanSetup, FanSound, Fans
  <1>2. ASSUME NEW t \in Temperatures, fan.task = "running",
               fan' = [fan EXCEPT !.task = "publishing", !.reading = t,
                                  !.control = Updated(@, t)]
        PROVE  FanSound'
    <2> DEFINE on == Updated(fan.control, t)
    <2>1. on \in BOOLEAN /\ (~on => t \in {"cool", "band"})
      BY DEF Updated, Temperatures
    <2>2. fan' = [fan EXCEPT !.task = "publishing", !.reading = t, !.control = on]
      BY <1>2 DEF FanSound, Fans
    <2> HIDE DEF on
    <2> QED  BY <2>1, <2>2 DEF FanSound, Fans
  <1>3. CASE FanPublishes
    <2>1. 0 \in 0 .. TEMPERATURE_AGE  BY IntervalAssumption
    <2> QED  BY <1>3, <2>1 DEF FanPublishes, FanSound, Fans
  <1>4. CASE FanTick
    <2> DEFINE o == Older(fan.age, TEMPERATURE_AGE)
    <2>1. o \in 0 .. TEMPERATURE_AGE
      BY IntervalAssumption, OlderAge DEF FanSound, Fans
    <2>2. fan' = [fan EXCEPT !.age = o]  BY <1>4 DEF FanTick
    <2> HIDE DEF o
    <2> QED  BY <2>1, <2>2 DEF FanSound, Fans
  <1> QED  BY <1>1, <1>2, <1>3, <1>4 DEF FanNext, FanReads

(* The GPS receiver *)

Fixes == [seen : BOOLEAN, fixValid : BOOLEAN, utcTime : BOOLEAN, date : BOOLEAN,
          datetimeUtc : BOOLEAN, stored : 0 .. MAX_IN_VIEW]
Receivers == [enabled : BOOLEAN, casic : BOOLEAN, mixed : BOOLEAN, line : 0 .. LINE_LENGTH,
              of : 0 .. 1, session : 0 .. 1, commands : 0 .. CONFIG_COMMANDS, current : Fixes]

\* A receiver that is off holds nothing, and half a line is of the present power-up.
GpsSound ==
    /\ gps \in Receivers
    /\ ~gps.enabled => gps.current = NoGps /\ gps.line = 0
    /\ gps.line # 0 => gps.of = gps.session
    /\ ~gps.mixed

LEMMA GpsStarts ==
    ASSUME GpsInit
    PROVE  GpsSound
  <1>1. 0 \in 0 .. LINE_LENGTH /\ 0 \in 0 .. CONFIG_COMMANDS /\ 0 \in 0 .. MAX_IN_VIEW
        /\ CONFIG_COMMANDS \in 0 .. CONFIG_COMMANDS /\ 0 \in 0 .. 1
    BY GpsAssumption
  <1>2. NoGps \in Fixes  BY <1>1 DEF NoGps, Fixes
  <1>3. ASSUME NEW on \in BOOLEAN, NEW casic \in BOOLEAN,
               NEW c \in 0 .. CONFIG_COMMANDS,
               gps = [enabled |-> on, casic |-> casic, current |-> NoGps, line |-> 0, of |-> 0,
                      session |-> 0, mixed |-> FALSE, commands |-> c]
        PROVE  GpsSound
    BY <1>1, <1>2, <1>3 DEF GpsSound, Receivers
  <1> QED  BY <1>1, <1>3 DEF GpsInit

LEMMA SentencesTyped ==
    ASSUME NEW c \in Fixes, NEW e \in GpsSentences(c)
    PROVE  e \in Fixes
  <1> DEFINE known == [c EXCEPT !.seen = TRUE]
  <1>1. known \in Fixes  BY DEF Fixes
  <1>2. e \in {c, known} \/ e \in GpsFix(known) \/ e \in GpsView(known)
    BY DEF GpsSentences
  <1> HIDE DEF known
  <1>3. ASSUME NEW fix \in BOOLEAN, NEW t \in BOOLEAN, NEW date \in BOOLEAN
        PROVE  GpsFixed(known, fix, t, date) \in Fixes
    <2> DEFINE both == known.datetimeUtc \/ (date /\ t)
    <2>1. both \in BOOLEAN  OBVIOUS
    <2>2. GpsFixed(known, fix, t, date)
            = [known EXCEPT !.fixValid = fix, !.utcTime = t, !.date = date,
                            !.datetimeUtc = both]
      BY <1>1 DEF Fixes, GpsFixed
    <2> HIDE DEF both
    <2> QED  BY <1>1, <2>1, <2>2 DEF Fixes
  <1>4. ASSUME NEW from \in {0, known.stored}, NEW k \in 0 .. 4,
               e = [known EXCEPT !.stored = IF from + k > MAX_IN_VIEW THEN MAX_IN_VIEW
                                            ELSE from + k]
        PROVE  e \in Fixes
    <2> DEFINE n == IF from + k > MAX_IN_VIEW THEN MAX_IN_VIEW ELSE from + k
    <2>1. known.stored \in 0 .. MAX_IN_VIEW  BY <1>1 DEF Fixes
    <2>2. n \in 0 .. MAX_IN_VIEW  BY <2>1, GpsAssumption
    <2> HIDE DEF n
    <2>3. e = [known EXCEPT !.stored = n]  BY <1>4 DEF n
    <2> QED  BY <1>1, <2>2, <2>3 DEF Fixes
  <1>5. CASE e \in GpsFix(known)
    <2>1. \E fix, t, date \in BOOLEAN : e = GpsFixed(known, fix, t, date)
      BY <1>5 DEF GpsFix
    <2> QED  BY <1>3, <2>1
  <1>6. CASE e \in GpsView(known)  BY <1>4, <1>6 DEF GpsView
  <1>7. c \in Fixes  OBVIOUS
  <1> QED  BY <1>1, <1>2, <1>5, <1>6, <1>7

LEMMA GpsKeeps ==
    ASSUME GpsSound, GpsNext
    PROVE  GpsSound'
  <1>1. /\ gps \in Receivers /\ ~gps.mixed /\ LINE_LENGTH \in Nat /\ CONFIG_COMMANDS \in Nat
        /\ gps.line \in 0 .. LINE_LENGTH /\ gps.session \in 0 .. 1 /\ gps.enabled \in BOOLEAN
        /\ gps.commands \in 0 .. CONFIG_COMMANDS /\ gps.current \in Fixes /\ gps.of \in 0 .. 1
    BY GpsAssumption DEF GpsSound, Receivers
  <1>2. CASE gps.enabled /\ gps' = GpsLonger
    <2> DEFINE n == IF gps.line < LINE_LENGTH THEN gps.line + 1 ELSE 0
               o == IF gps.line = 0 THEN gps.session ELSE gps.of
    <2>1. n \in 0 .. LINE_LENGTH /\ o \in 0 .. 1 /\ o = gps.session
      BY <1>1 DEF GpsSound
    <2>2. gps' = [gps EXCEPT !.line = n, !.of = o]  BY <1>2 DEF GpsLonger
    <2> HIDE DEF n, o
    <2> QED  BY <1>1, <1>2, <2>1, <2>2 DEF GpsSound, Receivers
  <1>3. CASE gps.enabled /\ gps' \in GpsLineEnds
    <2>1. CASE gps' = gps
      BY <2>1 DEF GpsSound
    <2>2. ASSUME NEW c \in GpsSentences(gps.current), gps.line # 0,
                 gps' = [gps EXCEPT !.line = 0, !.current = c,
                                    !.mixed = @ \/ gps.of # gps.session]
          PROVE  GpsSound'
      <3>1. c \in Fixes /\ 0 \in 0 .. LINE_LENGTH  BY <1>1, SentencesTyped
      <3>2. gps.of = gps.session  BY <2>2 DEF GpsSound
      <3>3. gps' = [gps EXCEPT !.line = 0, !.current = c, !.mixed = FALSE]
        BY <1>1, <2>2, <3>2 DEF Receivers
      <3> QED  BY <1>1, <1>3, <3>1, <3>3 DEF GpsSound, Receivers
    <2> QED  BY <1>3, <2>1, <2>2 DEF GpsLineEnds
  <1>4. CASE GpsConfigures
    <2> DEFINE n == gps.commands + 1
    <2>1. n \in 0 .. CONFIG_COMMANDS  BY <1>1, <1>4 DEF GpsConfigures
    <2>2. gps' = [gps EXCEPT !.commands = n]  BY <1>4 DEF GpsConfigures
    <2> HIDE DEF n
    <2> QED  BY <1>1, <2>1, <2>2 DEF GpsSound, Receivers
  <1>5. ASSUME NEW on \in BOOLEAN, GpsSetEnabled(on)
        PROVE  GpsSound'
    <2>1. CASE on = gps.enabled
      BY <1>5, <2>1 DEF GpsSetEnabled, GpsSound
    <2>2. CASE on # gps.enabled
      <3> DEFINE s == IF on THEN 1 - gps.session ELSE gps.session
                 n == IF on /\ gps.casic THEN 0 ELSE CONFIG_COMMANDS
      <3>1. s \in 0 .. 1 /\ n \in 0 .. CONFIG_COMMANDS /\ 0 \in 0 .. LINE_LENGTH
        BY <1>1
      <3>2. NoGps \in Fixes
        <4>1. 0 \in 0 .. MAX_IN_VIEW  BY GpsAssumption
        <4> QED  BY <4>1 DEF NoGps, Fixes
      <3>3. gps' = [gps EXCEPT !.enabled = on, !.current = NoGps, !.line = 0, !.session = s,
                               !.commands = n]
        BY <1>5, <2>2 DEF GpsSetEnabled
      <3> HIDE DEF s, n
      <3> QED  BY <1>1, <3>1, <3>2, <3>3 DEF GpsSound, Receivers
    <2> QED  BY <2>1, <2>2
  <1> QED  BY <1>2, <1>3, <1>4, <1>5 DEF GpsNext, GpsByte

(* The five together *)

SensorsInv == EnvSound(env) /\ SupplySound(power) /\ FanSound /\ BatterySound /\ GpsSound

LEMMA SensorsStart ==
    SensorsInit => SensorsInv
  BY EnvStarts, PowerStarts, FanStarts, BatteryStarts, GpsStarts DEF SensorsInit, SensorsInv

LEMMA SensorsKeep ==
    SensorsInv /\ [SensorsNext]_sensorVars => SensorsInv'
  <1> SUFFICES ASSUME SensorsInv, [SensorsNext]_sensorVars
               PROVE  SensorsInv'
    OBVIOUS
  <1>1. EnvSound(env) /\ SupplySound(power) /\ FanSound /\ BatterySound /\ GpsSound
    BY DEF SensorsInv
  <1>2. EnvNext => EnvSound(env')  BY <1>1, EnvKeeps
  <1>3. PowerNext => SupplySound(power')  BY <1>1, PowerKeeps
  <1>4. FanNext => FanSound'  BY <1>1, FanKeeps
  <1>5. BatteryLoop => BatterySound'  BY <1>1, BatteryKeeps
  <1>6. GpsNext => GpsSound'  BY <1>1, GpsKeeps
  <1>7. env' = env => EnvSound(env')  BY <1>1
  <1>8. power' = power => SupplySound(power')  BY <1>1
  <1>9. fan' = fan => FanSound'  BY <1>1 DEF FanSound
  <1>10. battery' = battery => BatterySound'  BY <1>1 DEF BatterySound
  <1>11. gps' = gps => GpsSound'  BY <1>1 DEF GpsSound
  <1>12. SensorsInv' <=> EnvSound(env') /\ SupplySound(power') /\ FanSound' /\ BatterySound'
                         /\ GpsSound'
    BY DEF SensorsInv
  <1> QED
    BY <1>2, <1>3, <1>4, <1>5, <1>6, <1>7, <1>8, <1>9, <1>10, <1>11, <1>12
    DEF SensorsNext, sensorVars

LEMMA SensorsInvHonest ==
    SensorsInv => TelemetryHonest
  <1> SUFFICES ASSUME SensorsInv
               PROVE  TelemetryHonest
    OBVIOUS
  <1>1. EnvSound(env) /\ SupplySound(power) /\ FanSound /\ BatterySound /\ GpsSound
    BY DEF SensorsInv
  <1>2. EnvPublished => env.detected /\ env.converted < MAX_SAMPLE_AGE
    BY <1>1 DEF EnvSound, EnvPublished
  <1>3. power.valid => power.available /\ power.answered /\ power.minimum <= power.voltage
    BY <1>1 DEF SupplySound
  <1>4. /\ fan.enabled = fan.pin
        /\ ~fan.pin => fan.temperature \in {"cool", "band"}
    BY <1>1 DEF FanSound
  <1>5. battery.millivolts \in (MIN_MV .. MAX_MV) \union {MILLIVOLTS_UNAVAILABLE}
    BY <1>1 DEF BatterySound, Told
  <1>6. (~gps.enabled => gps.current = NoGps) /\ ~gps.mixed
    BY <1>1 DEF GpsSound
  <1> QED  BY <1>2, <1>3, <1>4, <1>5, <1>6 DEF TelemetryHonest

LEMMA SensorsInvTyped ==
    SensorsInv => SensorsTypeOK
  <1> SUFFICES ASSUME SensorsInv
               PROVE  SensorsTypeOK
    OBVIOUS
  <1>1. env \in Climates /\ power \in Supplies /\ fan \in Fans /\ gps \in Receivers
    BY DEF SensorsInv, EnvSound, SupplySound, FanSound, GpsSound
  <1>2. battery \in Batches /\ battery.taken < SAMPLES /\ Told(battery.millivolts)
    BY DEF SensorsInv, BatterySound
  <1>3. battery.taken \in 0 .. SAMPLES - 1 /\ battery.millivolts \in 0 .. MILLIVOLTS_UNAVAILABLE
    <2>1. battery.taken \in Nat  BY <1>2 DEF Batches
    <2> QED  BY <1>2, <2>1, AdcAssumption DEF Told
  <1>4. battery \in [taken : 0 .. SAMPLES - 1, valid : Nat, total : Nat,
                     millivolts : 0 .. MILLIVOLTS_UNAVAILABLE]
    BY <1>2, <1>3 DEF Batches
  <1> QED  BY <1>1, <1>4 DEF SensorsTypeOK, Climates, Supplies, Fans, Receivers, Fixes

\* Every variable of the sensors keeps its type, whatever the devices answer and when.
THEOREM SensorsTypeCorrect ==
    SensorsSpec => []SensorsTypeOK
  <1>1. SensorsInit => SensorsInv  BY SensorsStart
  <1>2. SensorsInv /\ [SensorsNext]_sensorVars => SensorsInv'  BY SensorsKeep
  <1>3. SensorsInv => SensorsTypeOK  BY SensorsInvTyped
  <1> QED  BY <1>1, <1>2, <1>3, PTL DEF SensorsSpec

\* Telemetry never passes for more than it is.
THEOREM TelemetryAlwaysHonest ==
    SensorsSpec => []TelemetryHonest
  <1>1. SensorsInit => SensorsInv  BY SensorsStart
  <1>2. SensorsInv /\ [SensorsNext]_sensorVars => SensorsInv'  BY SensorsKeep
  <1>3. SensorsInv => TelemetryHonest  BY SensorsInvHonest
  <1> QED  BY <1>1, <1>2, <1>3, PTL DEF SensorsSpec

(* The AGC schedule *)

\* millis() modulo its width: what passed since t, and one step later.
Elapsed(at, t) == (at + AgcWrap - t) % AgcWrap

LEMMA RemainderOnce ==
    ASSUME NEW w \in Nat \ {0}, NEW b \in 0 .. w - 1
    PROVE  b % w = b /\ (b + w) % w = b
  <1>1. b % w = b  OBVIOUS
  <1>2. (b + w) % w = b  OBVIOUS
  <1> QED  BY <1>1, <1>2

LEMMA ElapsedValue ==
    ASSUME AgcWrap \in Nat \ {0}, NEW at \in 0 .. AgcWrap - 1, NEW t \in 0 .. AgcWrap - 1
    PROVE  Elapsed(at, t) = IF t <= at THEN at - t ELSE at + AgcWrap - t
  <1>1. CASE t <= at
    <2> DEFINE b == at - t
    <2>1. b \in 0 .. AgcWrap - 1 /\ at + AgcWrap - t = b + AgcWrap  BY <1>1
    <2> HIDE DEF b
    <2>2. Elapsed(at, t) = b  BY <2>1, RemainderOnce DEF Elapsed
    <2> QED  BY <1>1, <2>2 DEF b
  <1>2. CASE ~(t <= at)
    <2> DEFINE b == at + AgcWrap - t
    <2>1. b \in 0 .. AgcWrap - 1  BY <1>2
    <2>2. Elapsed(at, t) = b % AgcWrap  BY DEF Elapsed
    <2> HIDE DEF b
    <2>3. Elapsed(at, t) = b  BY <2>1, <2>2, RemainderOnce
    <2> QED  BY <1>2, <2>3 DEF b
  <1> QED  BY <1>1, <1>2

LEMMA ElapsedRange ==
    ASSUME AgcWrap \in Nat \ {0}, NEW at \in 0 .. AgcWrap - 1, NEW t \in 0 .. AgcWrap - 1
    PROVE  Elapsed(at, t) \in 0 .. AgcWrap - 1
  <1>1. Elapsed(at, t) = IF t <= at THEN at - t ELSE at + AgcWrap - t  BY ElapsedValue
  <1> QED  BY <1>1

LEMMA ElapsedGrows ==
    ASSUME AgcWrap \in Nat \ {0}, NEW at \in 0 .. AgcWrap - 1, NEW t \in 0 .. AgcWrap - 1,
           NEW time \in {0, 1}
    PROVE  /\ (at + time) % AgcWrap \in 0 .. AgcWrap - 1
           /\ Elapsed((at + time) % AgcWrap, t) <= Elapsed(at, t) + time
  <1> DEFINE next == (at + time) % AgcWrap
  <1>1. next = IF at + time < AgcWrap THEN at + time ELSE 0
    <2>1. CASE at + time < AgcWrap
      <3>1. at + time \in 0 .. AgcWrap - 1  BY <2>1
      <3> QED  BY <2>1, <3>1, RemainderOnce
    <2>2. CASE ~(at + time < AgcWrap)
      <3>1. at + time = 0 + AgcWrap /\ 0 \in 0 .. AgcWrap - 1  BY <2>2
      <3>2. (0 + AgcWrap) % AgcWrap = 0  BY <3>1, RemainderOnce
      <3> QED  BY <2>2, <3>1, <3>2
    <2> QED  BY <2>1, <2>2
  <1>2. next \in 0 .. AgcWrap - 1  BY <1>1
  <1> HIDE DEF next
  <1>3. Elapsed(next, t) = IF t <= next THEN next - t ELSE next + AgcWrap - t
    BY <1>2, ElapsedValue
  <1>4. Elapsed(at, t) = IF t <= at THEN at - t ELSE at + AgcWrap - t
    BY ElapsedValue
  <1>5. Elapsed(next, t) <= Elapsed(at, t) + time  BY <1>1, <1>2, <1>3, <1>4
  <1> QED  BY <1>2, <1>5 DEF next

Schedules ==
    [now : 0 .. AgcWrap - 1, station : BOOLEAN, interval : Intervals,
     scheduled : Intervals \union {MaxInterval}, lastAttempt : 0 .. AgcWrap - 1,
     lastPacket : 0 .. AgcWrap - 1, lastTx : 0 .. AgcWrap - 1,
     rested : 0 .. AgcWrap, quiet : 0 .. AgcWrap]

\* No clock has run ahead of the true time.
InTime(s) ==
    /\ s \in Schedules
    /\ Elapsed(s.now, s.lastAttempt) <= s.rested
    /\ s.station /\ s.lastTx # 0 => Elapsed(s.now, s.lastTx) <= s.quiet

LEMMA PassedInTime ==
    ASSUME AgcWrap \in Nat \ {0}, NEW s, InTime(s), NEW time \in {0, 1}
    PROVE  InTime(Passed(s, time))
  <1> DEFINE next == (s.now + time) % AgcWrap
             r == IF s.rested < AgcWrap THEN s.rested + time ELSE s.rested
             q == IF s.quiet < AgcWrap THEN s.quiet + time ELSE s.quiet
             p == Passed(s, time)
  <1>1. /\ s.now \in 0 .. AgcWrap - 1 /\ s.lastAttempt \in 0 .. AgcWrap - 1
        /\ s.lastTx \in 0 .. AgcWrap - 1 /\ s.rested \in 0 .. AgcWrap /\ s.quiet \in 0 .. AgcWrap
    BY DEF InTime, Schedules
  <1>2. next \in 0 .. AgcWrap - 1
        /\ Elapsed(next, s.lastAttempt) <= Elapsed(s.now, s.lastAttempt) + time
        /\ Elapsed(next, s.lastTx) <= Elapsed(s.now, s.lastTx) + time
    BY <1>1, ElapsedGrows
  <1>3. r \in 0 .. AgcWrap /\ q \in 0 .. AgcWrap  BY <1>1
  <1>4. p = [s EXCEPT !.now = next, !.rested = r, !.quiet = q]  BY DEF Passed
  <1> HIDE DEF p
  <1>5. /\ p \in Schedules
        /\ p.now = next /\ p.rested = r /\ p.quiet = q /\ p.lastAttempt = s.lastAttempt
        /\ p.lastTx = s.lastTx /\ p.station = s.station
    <2> HIDE DEF next, r, q
    <2> QED  BY <1>2, <1>3, <1>4 DEF InTime, Schedules
  <1> HIDE DEF next
  <1>6. /\ Elapsed(next, s.lastAttempt) \in 0 .. AgcWrap - 1
        /\ Elapsed(s.now, s.lastAttempt) \in 0 .. AgcWrap - 1
        /\ Elapsed(next, s.lastTx) \in 0 .. AgcWrap - 1
        /\ Elapsed(s.now, s.lastTx) \in 0 .. AgcWrap - 1
    BY <1>1, <1>2, ElapsedRange
  <1>7. Elapsed(next, s.lastAttempt) <= r
    <2>1. Elapsed(s.now, s.lastAttempt) <= s.rested  BY DEF InTime
    <2> QED  BY <1>1, <1>2, <1>6, <2>1
  <1>8. s.station /\ s.lastTx # 0 => Elapsed(next, s.lastTx) <= q
    <2>1. s.station /\ s.lastTx # 0 => Elapsed(s.now, s.lastTx) <= s.quiet  BY DEF InTime
    <2> QED  BY <1>1, <1>2, <1>6, <2>1
  <1> QED  BY <1>5, <1>7, <1>8 DEF InTime, p

LEMMA AgcStarts ==
    AgcInit => InTime(agc)
  <1> SUFFICES ASSUME AgcInit PROVE InTime(agc)
    OBVIOUS
  <1>1. AgcWrap \in Nat \ {0} /\ 1 < AgcWrap /\ MaxInterval = AgcWrap
    BY AgcAssumption DEF MaxInterval
  <1>2. PICK station \in BOOLEAN, interval \in Intervals :
          agc = [now |-> 1, station |-> station, interval |-> interval, scheduled |-> MaxInterval,
                 lastAttempt |-> 1, lastPacket |-> 0, lastTx |-> 0, rested |-> 0,
                 quiet |-> AgcWrap]
    BY DEF AgcInit
  <1>3. Elapsed(1, 1) = 0
    <2>1. 1 \in 0 .. AgcWrap - 1  BY <1>1
    <2> QED  BY <1>1, <2>1, ElapsedValue
  <1>4. 0 \in 0 .. AgcWrap - 1 /\ 1 \in 0 .. AgcWrap - 1 /\ 0 \in 0 .. AgcWrap
        /\ AgcWrap \in 0 .. AgcWrap
    BY <1>1
  <1>5. agc.lastTx = 0 /\ agc.now = 1 /\ agc.lastAttempt = 1 /\ agc.rested = 0  BY <1>2
  <1>6. Elapsed(agc.now, agc.lastAttempt) <= agc.rested  BY <1>3, <1>5
  <1>7. agc \in Schedules
    BY <1>2, <1>4 DEF Schedules
  <1> QED  BY <1>5, <1>6, <1>7 DEF InTime

\* What noting the present moment does to a record that is in time.
LEMMA NotedInTime ==
    ASSUME AgcWrap \in Nat \ {0}, NEW s, InTime(s)
    PROVE  /\ InTime([s EXCEPT !.lastAttempt = s.now, !.rested = 0])
           /\ InTime([s EXCEPT !.scheduled = s.interval, !.lastAttempt = s.now, !.rested = 0])
           /\ InTime([s EXCEPT !.lastPacket = s.now])
           /\ InTime([s EXCEPT !.lastPacket = s.now, !.quiet = 0,
                              !.lastTx = IF s.station THEN s.now ELSE @])
           /\ \A i \in Intervals : InTime([s EXCEPT !.interval = i])
  <1>1. /\ s.now \in 0 .. AgcWrap - 1 /\ 0 \in 0 .. AgcWrap /\ s.interval \in Intervals
        /\ s.station \in BOOLEAN /\ s.lastTx \in 0 .. AgcWrap - 1
    BY DEF InTime, Schedules
  <1>2. Elapsed(s.now, s.now) = 0  BY <1>1, ElapsedValue
  <1>3. InTime([s EXCEPT !.lastAttempt = s.now, !.rested = 0])
    <2> DEFINE n == [s EXCEPT !.lastAttempt = s.now, !.rested = 0]
    <2>1. n \in Schedules  BY <1>1 DEF InTime, Schedules
    <2>2. n.now = s.now /\ n.lastAttempt = s.now /\ n.rested = 0 /\ n.station = s.station
          /\ n.lastTx = s.lastTx /\ n.quiet = s.quiet
      BY DEF InTime, Schedules
    <2> HIDE DEF n
    <2>3. InTime(n)  BY <1>2, <2>1, <2>2 DEF InTime
    <2> QED  BY <2>3 DEF n
  <1>4. InTime([s EXCEPT !.scheduled = s.interval, !.lastAttempt = s.now, !.rested = 0])
    <2> DEFINE n == [s EXCEPT !.scheduled = s.interval, !.lastAttempt = s.now, !.rested = 0]
    <2>1. n \in Schedules  BY <1>1 DEF InTime, Schedules
    <2>2. n.now = s.now /\ n.lastAttempt = s.now /\ n.rested = 0 /\ n.station = s.station
          /\ n.lastTx = s.lastTx /\ n.quiet = s.quiet
      BY DEF InTime, Schedules
    <2> HIDE DEF n
    <2>3. InTime(n)  BY <1>2, <2>1, <2>2 DEF InTime
    <2> QED  BY <2>3 DEF n
  <1>5. InTime([s EXCEPT !.lastPacket = s.now])
    BY <1>1 DEF InTime, Schedules
  <1>6. InTime([s EXCEPT !.lastPacket = s.now, !.quiet = 0,
                         !.lastTx = IF s.station THEN s.now ELSE @])
    <2> DEFINE t == IF s.station THEN s.now ELSE s.lastTx
    <2>1. t \in 0 .. AgcWrap - 1 /\ (s.station => t = s.now)  BY <1>1
    <2> HIDE DEF t
    <2> DEFINE n == [s EXCEPT !.lastPacket = s.now, !.quiet = 0, !.lastTx = t]
    <2>2. n \in Schedules  BY <1>1, <2>1 DEF InTime, Schedules
    <2>3. n.now = s.now /\ n.lastAttempt = s.lastAttempt /\ n.rested = s.rested
          /\ n.station = s.station /\ n.lastTx = t /\ n.quiet = 0
      BY DEF InTime, Schedules
    <2> HIDE DEF n
    <2>4. InTime(n)  BY <1>2, <2>1, <2>2, <2>3 DEF InTime
    <2> QED  BY <2>4 DEF n, t
  <1>7. ASSUME NEW i \in Intervals PROVE InTime([s EXCEPT !.interval = i])
    BY <1>7 DEF InTime, Schedules
  <1> QED  BY <1>3, <1>4, <1>5, <1>6, <1>7

LEMMA AgcKeeps ==
    InTime(agc) /\ [AgcNext]_agcVars => InTime(agc')
  <1> SUFFICES ASSUME InTime(agc), [AgcNext]_agcVars PROVE InTime(agc')
    OBVIOUS
  <1>1. AgcWrap \in Nat \ {0}  BY AgcAssumption
  <1>2. ASSUME NEW time \in {0, 1}, Rescheduled(time) PROVE InTime(agc')
    BY <1>1, <1>2, NotedInTime, PassedInTime DEF Rescheduled
  <1>3. ASSUME NEW time \in {0, 1}, Attempted(time) PROVE InTime(agc')
    BY <1>1, <1>3, NotedInTime, PassedInTime DEF Attempted
  <1>4. ASSUME NEW time \in {0, 1}, Deferred(time) \/ BusyPass(time) PROVE InTime(agc')
    BY <1>1, <1>4, PassedInTime DEF Deferred, BusyPass
  <1>5. CASE PacketReceived  BY <1>1, <1>5, NotedInTime DEF PacketReceived
  <1>6. CASE TxCompleted
    <2>1. agc' = [agc EXCEPT !.lastPacket = agc.now, !.quiet = 0,
                             !.lastTx = IF agc.station THEN agc.now ELSE @]
      BY <1>6 DEF TxCompleted
    <2> QED  BY <1>1, <2>1, NotedInTime
  <1>7. CASE IntervalSet
    <2>1. PICK i \in Intervals : agc' = [agc EXCEPT !.interval = i]  BY <1>7 DEF IntervalSet
    <2> QED  BY <1>1, <2>1, NotedInTime
  <1>8. CASE UNCHANGED agcVars  BY <1>8 DEF agcVars
  <1> QED  BY <1>2, <1>3, <1>4, <1>5, <1>6, <1>7, <1>8 DEF AgcNext, ReadyPass

\* A reset of the receiver is due by the clock only if it is due by the true time.
LEMMA AttemptInTime ==
    ASSUME InTime(agc), NEW time \in {0, 1}, Attempted(time)
    PROVE  /\ agc.interval # 0 /\ agc.rested >= agc.interval
           /\ agc.station /\ agc.lastTx # 0 => agc.quiet >= STATION_POST_TX_QUIET
  <1>1. AgcWrap \in Nat \ {0} /\ STATION_POST_TX_QUIET \in Nat /\ Intervals \subseteq Nat
    BY AgcAssumption
  <1>2. agcSince(agc.lastAttempt) = Elapsed(agc.now, agc.lastAttempt)
        /\ agcSince(agc.lastTx) = Elapsed(agc.now, agc.lastTx)
    BY DEF agcSince, Elapsed
  <1>3. /\ agc.now \in 0 .. AgcWrap - 1 /\ agc.lastAttempt \in 0 .. AgcWrap - 1
        /\ agc.lastTx \in 0 .. AgcWrap - 1 /\ agc.rested \in 0 .. AgcWrap
        /\ agc.quiet \in 0 .. AgcWrap /\ agc.interval \in Nat
    BY <1>1 DEF InTime, Schedules
  <1>4. Elapsed(agc.now, agc.lastAttempt) \in 0 .. AgcWrap - 1
        /\ Elapsed(agc.now, agc.lastTx) \in 0 .. AgcWrap - 1
    BY <1>1, <1>3, ElapsedRange
  <1>5. agc.interval # 0 /\ Elapsed(agc.now, agc.lastAttempt) >= agc.interval
    BY <1>2 DEF Attempted, Due
  <1>6. agc.station /\ agc.lastTx # 0 => Elapsed(agc.now, agc.lastTx) >= STATION_POST_TX_QUIET
    BY <1>2 DEF Attempted, Undisturbed
  <1>7. Elapsed(agc.now, agc.lastAttempt) <= agc.rested  BY DEF InTime
  <1>8. agc.station /\ agc.lastTx # 0 => Elapsed(agc.now, agc.lastTx) <= agc.quiet  BY DEF InTime
  <1>9. agc.rested >= agc.interval  BY <1>3, <1>4, <1>5, <1>7
  <1>10. agc.station /\ agc.lastTx # 0 => agc.quiet >= STATION_POST_TX_QUIET
    BY <1>1, <1>3, <1>4, <1>6, <1>8
  <1> QED  BY <1>5, <1>9, <1>10

\* Attempts are a whole interval apart, and outside the quiet time of a Station.
THEOREM AttemptsAlwaysSpaced ==
    AgcSpec => AttemptsSpaced
  <1>1. AgcInit => InTime(agc)  BY AgcStarts
  <1>2. InTime(agc) /\ [AgcNext]_agcVars => InTime(agc)'
    <2>1. InTime(agc') <=> InTime(agc)'  BY DEF InTime
    <2> QED  BY AgcKeeps, <2>1
  <1>3. InTime(agc) /\ [AgcNext]_agcVars =>
          [(\E time \in {0, 1} : Attempted(time)) =>
             /\ agc.interval # 0 /\ agc.rested >= agc.interval
             /\ agc.station /\ agc.lastTx # 0 => agc.quiet >= STATION_POST_TX_QUIET]_agcVars
    BY AttemptInTime
  <1> QED  BY <1>1, <1>2, <1>3, PTL DEF AgcSpec, AttemptsSpaced

(* The panel *)

LEMMA PanelConstants ==
    /\ PRG_DEBOUNCE \in Nat /\ OLED_WAKE_DURATION \in Nat /\ PanelWrap \in Nat \ {0}
    /\ PRG_DEBOUNCE < OLED_WAKE_DURATION /\ OLED_WAKE_DURATION + OLED_WAKE_DURATION < PanelWrap
    /\ PanelWrap \div 2 + PanelWrap \div 2 = PanelWrap /\ PanelWrap \div 2 \in Nat
    /\ 1 \in Millis /\ 0 \in Millis
  BY PanelAssumption DEF Millis

\* A time less than the clock's width ahead.
LEMMA AfterValue ==
    ASSUME NEW t \in Millis, NEW d \in 0 .. PanelWrap
    PROVE  /\ After(t, d) = IF t + d < PanelWrap THEN t + d ELSE t + d - PanelWrap
           /\ After(t, d) \in Millis
  <1>0. t \in 0 .. PanelWrap - 1 /\ PanelWrap \in Nat \ {0}  BY PanelConstants DEF Millis
  <1>1. CASE t + d < PanelWrap
    <2>1. t + d \in 0 .. PanelWrap - 1  BY <1>0, <1>1
    <2>2. After(t, d) = t + d  BY <1>0, <2>1, RemainderOnce DEF After
    <2> QED  BY <1>1, <2>1, <2>2 DEF Millis
  <1>2. CASE ~(t + d < PanelWrap)
    <2> DEFINE b == t + d - PanelWrap
    <2>1. b \in 0 .. PanelWrap - 1 /\ t + d = b + PanelWrap  BY <1>0, <1>2
    <2> HIDE DEF b
    <2>2. After(t, d) = b  BY <1>0, <2>1, RemainderOnce DEF After
    <2> QED  BY <1>2, <2>1, <2>2 DEF Millis, b
  <1> QED  BY <1>1, <1>2

\* A deadline that is ahead by less than half the clock's width is not reached.
LEMMA NotReached ==
    ASSUME now \in Millis, NEW d \in 1 .. OLED_WAKE_DURATION
    PROVE  ~Reached(After(now, d))
  <1> DEFINE t == After(now, d)
  <1>0. now \in 0 .. PanelWrap - 1 /\ PanelWrap \in Nat \ {0} /\ d \in 0 .. PanelWrap
        /\ PanelWrap \div 2 + PanelWrap \div 2 = PanelWrap /\ PanelWrap \div 2 \in Nat
        /\ d + d < PanelWrap /\ d \in Nat /\ d > 0
    BY PanelConstants DEF Millis
  <1>1. t = IF now + d < PanelWrap THEN now + d ELSE now + d - PanelWrap
    BY <1>0, AfterValue DEF Millis
  <1> HIDE DEF t
  <1>2. now + PanelWrap - t = IF now + d < PanelWrap THEN PanelWrap - d ELSE (PanelWrap - d) + PanelWrap
    BY <1>0, <1>1
  <1>3. PanelWrap - d \in 0 .. PanelWrap - 1  BY <1>0
  <1> DEFINE b == PanelWrap - d
  <1>4. b \in 0 .. PanelWrap - 1  BY <1>3
  <1>5. now + PanelWrap - t = b \/ now + PanelWrap - t = b + PanelWrap  BY <1>2
  <1> HIDE DEF b
  <1>6. Since(t) = b  BY <1>0, <1>4, <1>5, RemainderOnce DEF Since
  <1>7. ~(b < PanelWrap \div 2)  BY <1>0 DEF b
  <1> QED  BY <1>6, <1>7 DEF Reached, t

\* What the clock has yet to run falls by what it runs.
LEMMA AfterShift ==
    ASSUME NEW t \in Millis, NEW d \in 0 .. OLED_WAKE_DURATION, NEW time \in 0 .. 1, time <= d
    PROVE  After(t, d) = After(After(t, time), d - time)
  <1>0. t \in 0 .. PanelWrap - 1 /\ PanelWrap \in Nat \ {0} /\ OLED_WAKE_DURATION < PanelWrap
        /\ OLED_WAKE_DURATION \in Nat
    BY PanelConstants DEF Millis
  <1>1. d \in 0 .. PanelWrap /\ time \in 0 .. PanelWrap /\ d - time \in 0 .. PanelWrap  BY <1>0
  <1> DEFINE n == After(t, time)
  <1>2. /\ After(t, d) = IF t + d < PanelWrap THEN t + d ELSE t + d - PanelWrap
        /\ n = IF t + time < PanelWrap THEN t + time ELSE t + time - PanelWrap
        /\ n \in Millis
    BY <1>1, AfterValue
  <1> HIDE DEF n
  <1>3. After(n, d - time)
          = IF n + (d - time) < PanelWrap THEN n + (d - time) ELSE n + (d - time) - PanelWrap
    BY <1>1, <1>2, AfterValue
  <1>4. After(t, d) = After(n, d - time)  BY <1>0, <1>1, <1>2, <1>3
  <1> QED  BY <1>4 DEF n

\* The deadlines against the time that passed since the press that set them.
DeadlinesAhead(t, r, w, wake, ignore) ==
    /\ hasButton /\ r < OLED_WAKE_DURATION => wake = After(t, OLED_WAKE_DURATION - r)
    /\ ~w => r <= t /\ t # 0 /\ (ignore = 0 \/ ignore = After(t - r, PRG_DEBOUNCE))
\* What the driver shows against what loop() takes it for.
Shows(d, s) ==
    /\ d.ready \/ d.kind = "tracker" => (d.lit <=> s # "SLEEP")
    /\ d.kind = "tracker" => (d.ready <=> s # "SLEEP")
PanelInv ==
    /\ PanelTypeOK
    /\ DeadlinesAhead(now, rest, wrapped, oledWakeUntil, prgIgnoreUntil)
    /\ ~hasButton => screen # "SLEEP"
    /\ Shows(display, screen)

Displays == [kind : Drivers, ready : BOOLEAN, lit : BOOLEAN]

LEMMA TurnedOff ==
    ASSUME NEW d \in Displays, NEW s, Shows(d, s), s # "SLEEP"
    PROVE  turnOff(d) \in Displays /\ Shows(turnOff(d), "SLEEP")
  <1>1. CASE d.ready
    <2> DEFINE r == d.kind # "tracker"
               o == [d EXCEPT !.lit = FALSE, !.ready = r]
    <2>1. turnOff(d) = o  BY <1>1 DEF turnOff
    <2>2. r \in BOOLEAN  OBVIOUS
    <2>3. o \in Displays /\ o.lit = FALSE /\ o.ready = r /\ o.kind = d.kind
      <3> HIDE DEF r
      <3> QED  BY <2>2 DEF Displays
    <2> HIDE DEF o
    <2> QED  BY <2>1, <2>3 DEF Shows
  <1>2. CASE ~d.ready
    BY <1>2 DEF turnOff, Shows
  <1> QED  BY <1>1, <1>2

LEMMA TurnedOn ==
    ASSUME NEW d \in Displays, NEW s, s # "SLEEP"
    PROVE  turnOn(d) \in Displays /\ Shows(turnOn(d), s)
  <1>1. CASE d.kind = "tracker" \/ d.ready
    <2> DEFINE o == [d EXCEPT !.lit = TRUE, !.ready = TRUE]
    <2>1. turnOn(d) = o  BY <1>1 DEF turnOn
    <2>2. o \in Displays /\ o.lit = TRUE /\ o.ready = TRUE /\ o.kind = d.kind
      BY DEF Displays
    <2> HIDE DEF o
    <2> QED  BY <2>1, <2>2 DEF Shows
  <1>2. CASE ~(d.kind = "tracker" \/ d.ready)
    BY <1>2 DEF turnOn, Shows
  <1> QED  BY <1>1, <1>2

LEMMA PanelStarts ==
    ASSUME PanelInit
    PROVE  PanelInv
  <1>1. 1 \in Millis /\ 0 \in Millis /\ OLED_WAKE_DURATION \in 0 .. PanelWrap /\ 0 \in 0 .. PanelWrap
        /\ OLED_WAKE_DURATION - 0 = OLED_WAKE_DURATION
    BY PanelConstants
  <1>2. After(1, OLED_WAKE_DURATION) \in Millis  BY <1>1, AfterValue
  <1>3. PICK d \in DisplayBegun : display = d  BY DEF PanelInit
  <1>4. display \in Displays /\ Shows(display, "STATUS")
    <2>1. CASE display = [kind |-> "oled", ready |-> FALSE, lit |-> FALSE]
      BY <2>1 DEF Displays, Drivers, Shows
    <2>2. ASSUME NEW k \in Drivers, display = [kind |-> k, ready |-> TRUE, lit |-> TRUE]
          PROVE  display \in Displays /\ Shows(display, "STATUS")
      BY <2>2 DEF Displays, Shows
    <2> QED  BY <1>3, <2>1, <2>2 DEF DisplayBegun
  <1>5. PanelTypeOK  BY <1>1, <1>2, <1>4 DEF PanelInit, PanelTypeOK, Screens, Displays
  <1>6. DeadlinesAhead(now, rest, wrapped, oledWakeUntil, prgIgnoreUntil)
    BY <1>1 DEF PanelInit, DeadlinesAhead
  <1> QED  BY <1>4, <1>5, <1>6 DEF PanelInit, PanelInv

\* A pass moves the deadlines with the clock.
LEMMA DeadlinesKept ==
    ASSUME PanelInv, NEW btn \in BOOLEAN, NEW time \in {0, 1}, PanelPass(btn, time)
    PROVE  /\ now' \in Millis /\ rest' \in 0 .. PanelWrap /\ wrapped' \in BOOLEAN
           /\ oledWakeUntil' \in Millis /\ prgIgnoreUntil' \in Millis
           /\ DeadlinesAhead(now', rest', wrapped', oledWakeUntil', prgIgnoreUntil')
  <1> DEFINE pressed == PressServed(btn)
             n == After(now, time)
             r == IF pressed THEN time ELSE IF rest < PanelWrap THEN rest + time ELSE rest
  <1>1. /\ prgIgnoreUntil' = IF pressed THEN After(now, PRG_DEBOUNCE) ELSE prgIgnoreUntil
        /\ oledWakeUntil' = IF pressed \/ ~hasButton THEN After(now, OLED_WAKE_DURATION)
                            ELSE oledWakeUntil
        /\ now' = n /\ rest' = r /\ (wrapped' <=> (wrapped /\ ~pressed) \/ n < now)
        /\ wrapped' \in BOOLEAN
    BY DEF PanelPass, Awakened
  <1>2. /\ now \in Millis /\ rest \in 0 .. PanelWrap /\ PanelWrap \in Nat \ {0}
        /\ oledWakeUntil \in Millis /\ prgIgnoreUntil \in Millis
        /\ PRG_DEBOUNCE \in 0 .. PanelWrap /\ OLED_WAKE_DURATION \in 0 .. PanelWrap
        /\ OLED_WAKE_DURATION \in Nat /\ OLED_WAKE_DURATION < PanelWrap /\ OLED_WAKE_DURATION > 0
        /\ time \in 0 .. 1 /\ time \in 0 .. PanelWrap /\ now \in 0 .. PanelWrap - 1
        /\ hasButton \in BOOLEAN /\ wrapped \in BOOLEAN /\ pressed \in BOOLEAN
    BY PanelConstants DEF PanelInv, PanelTypeOK, PressServed, Millis
  <1>3. n \in Millis /\ (n = IF now + time < PanelWrap THEN now + time ELSE now + time - PanelWrap)
    BY <1>2, AfterValue
  <1>4. After(now, PRG_DEBOUNCE) \in Millis /\ After(now, OLED_WAKE_DURATION) \in Millis
    BY <1>2, AfterValue
  <1>5. /\ hasButton /\ rest < OLED_WAKE_DURATION
             => oledWakeUntil = After(now, OLED_WAKE_DURATION - rest)
        /\ ~wrapped => rest <= now /\ now # 0
             /\ (prgIgnoreUntil = 0 \/ prgIgnoreUntil = After(now - rest, PRG_DEBOUNCE))
    BY DEF PanelInv, DeadlinesAhead
  <1> HIDE DEF pressed, n
  <1>6. r \in 0 .. PanelWrap  BY <1>2
  <1>7. ASSUME hasButton, r < OLED_WAKE_DURATION
        PROVE  oledWakeUntil' = After(n, OLED_WAKE_DURATION - r)
    <2>1. CASE pressed
      <3>1. r = time /\ time <= OLED_WAKE_DURATION /\ OLED_WAKE_DURATION \in 0 .. OLED_WAKE_DURATION
        BY <1>2, <2>1
      <3>2. After(now, OLED_WAKE_DURATION) = After(After(now, time), OLED_WAKE_DURATION - time)
        BY <1>2, <3>1, AfterShift
      <3> QED  BY <1>1, <2>1, <3>1, <3>2 DEF n
    <2>2. CASE ~pressed
      <3> DEFINE left == OLED_WAKE_DURATION - rest
      <3>1. r = rest + time /\ rest < OLED_WAKE_DURATION /\ left \in 0 .. OLED_WAKE_DURATION
            /\ time <= left /\ left - time = OLED_WAKE_DURATION - r
        BY <1>2, <1>7, <2>2
      <3>2. oledWakeUntil = After(now, left)  BY <1>5, <1>7, <3>1
      <3> HIDE DEF left
      <3>3. After(now, left) = After(After(now, time), left - time)  BY <1>2, <3>1, AfterShift
      <3> QED  BY <1>1, <1>7, <2>2, <3>1, <3>2, <3>3 DEF n
    <2> QED  BY <2>1, <2>2
  <1>8. ASSUME ~wrapped'
        PROVE  r <= n /\ n # 0
               /\ (prgIgnoreUntil' = 0 \/ prgIgnoreUntil' = After(n - r, PRG_DEBOUNCE))
    <2>1. n = now + time /\ (pressed \/ ~wrapped)  BY <1>1, <1>2, <1>3, <1>8
    <2>2. CASE pressed
      <3>1. now # 0
        <4>1. now > prgIgnoreUntil  BY <2>2 DEF pressed, PressServed
        <4> QED  BY <1>2, <4>1 DEF Millis
      <3>2. r = time /\ n - r = now  BY <1>2, <2>1, <2>2
      <3> QED  BY <1>1, <1>2, <2>1, <2>2, <3>1, <3>2
    <2>3. CASE ~pressed
      <3>1. ~wrapped /\ rest <= now /\ now # 0  BY <1>5, <2>1, <2>3
      <3>2. r = rest + time /\ n - r = now - rest  BY <1>2, <2>1, <2>3, <3>1
      <3> QED  BY <1>1, <1>2, <1>5, <2>1, <2>3, <3>1, <3>2
    <2> QED  BY <2>2, <2>3
  <1> HIDE DEF r
  <1>9. UNCHANGED hasButton  BY DEF PanelPass
  <1>10. DeadlinesAhead(now', rest', wrapped', oledWakeUntil', prgIgnoreUntil')
    BY <1>1, <1>7, <1>8 DEF DeadlinesAhead
  <1> QED  BY <1>1, <1>2, <1>3, <1>4, <1>6, <1>10

\* ... and leaves the panel as loop() takes it to be.
LEMMA ScreenKept ==
    ASSUME PanelInv, NEW btn \in BOOLEAN, NEW time \in {0, 1}, PanelPass(btn, time)
    PROVE  /\ screen' \in Screens /\ display' \in Displays /\ lastOledUpdate' \in Millis
           /\ lastAutoCycle' \in Millis /\ hasButton' = hasButton
           /\ Shows(display', screen')
           /\ screen' = "SLEEP" /\ screen # "SLEEP" =>
                hasButton /\ ~PressServed(btn) /\ Reached(oledWakeUntil)
           /\ PressServed(btn) => screen' = NextScreen(screen)
           /\ ~hasButton => screen' # "SLEEP"
  <1> DEFINE pressed == PressServed(btn)
             current == IF pressed \/ CycleDue THEN NextScreen(screen) ELSE screen
             wake == IF pressed \/ ~hasButton THEN Awakened ELSE oledWakeUntil
             drawn == IF pressed \/ CycleDue THEN 0 ELSE lastOledUpdate
             d == IF pressed /\ screen = "SLEEP" THEN turnOn(display) ELSE display
  <1>1. /\ SleepOrDraw(current, wake, drawn, d) /\ hasButton' = hasButton
        /\ lastAutoCycle' = IF CycleDue THEN now ELSE lastAutoCycle
    BY DEF PanelPass
  <1>2. /\ screen \in Screens /\ display \in Displays /\ now \in Millis /\ 0 \in Millis
        /\ lastOledUpdate \in Millis /\ lastAutoCycle \in Millis /\ hasButton \in BOOLEAN
        /\ Shows(display, screen) /\ (~hasButton => screen # "SLEEP")
    BY PanelConstants DEF PanelInv, PanelTypeOK, Displays
  <1>3. NextScreen(screen) \in Screens /\ NextScreen(screen) # "SLEEP"
    BY <1>2 DEF NextScreen, Screens
  <1>4. CycleDue => ~hasButton /\ screen # "SLEEP"  BY DEF CycleDue
  <1>5. pressed => hasButton  BY DEF PressServed
  <1>6. d \in Displays /\ Shows(d, current)
    <2>1. CASE pressed /\ screen = "SLEEP"
      <3>1. d = turnOn(display) /\ current = NextScreen(screen)  BY <2>1
      <3> HIDE DEF d, current
      <3> QED  BY <1>2, <1>3, <3>1, TurnedOn
    <2>2. CASE ~(pressed /\ screen = "SLEEP")
      <3>1. d = display /\ (current = "SLEEP" <=> screen = "SLEEP")  BY <1>3, <1>4, <2>2
      <3> HIDE DEF d, current
      <3> QED  BY <1>2, <3>1 DEF Shows
    <2> QED  BY <2>1, <2>2
  <1>7. current \in Screens /\ drawn \in Millis  BY <1>2, <1>3
  <1>8. current # "SLEEP" /\ Reached(wake) =>
          hasButton /\ ~pressed /\ Reached(oledWakeUntil)
    <2>1. ~Reached(Awakened)
      <3>1. OLED_WAKE_DURATION \in 1 .. OLED_WAKE_DURATION  BY PanelConstants
      <3> QED  BY <1>2, <3>1, NotReached DEF Awakened
    <2> QED  BY <2>1
  <1>9. pressed => current = NextScreen(screen)  OBVIOUS
  <1>10. ~hasButton => current # "SLEEP"  BY <1>2, <1>3
  <1> HIDE DEF current, wake, drawn, d
  <1>11. CASE current # "SLEEP" /\ Reached(wake)
    <2>1. screen' = "SLEEP" /\ display' = turnOff(d) /\ lastOledUpdate' = drawn
      BY <1>1, <1>11 DEF SleepOrDraw
    <2>2. turnOff(d) \in Displays /\ Shows(turnOff(d), "SLEEP")
      BY <1>6, <1>11, TurnedOff
    <2>3. "SLEEP" \in Screens  BY DEF Screens
    <2> QED  BY <1>1, <1>2, <1>7, <1>8, <1>11, <2>1, <2>2, <2>3
  <1>12. CASE ~(current # "SLEEP" /\ Reached(wake))
    <2>1. /\ screen' = current /\ display' = d
          /\ lastOledUpdate' \in {now, drawn}
      BY <1>1, <1>12 DEF SleepOrDraw
    <2>2. current = "SLEEP" => screen = "SLEEP"  BY <1>3 DEF current
    <2> QED  BY <1>1, <1>2, <1>6, <1>7, <1>9, <1>10, <2>1, <2>2
  <1> QED  BY <1>11, <1>12

LEMMA PanelKeeps ==
    PanelInv /\ [PanelNext]_panelVars => PanelInv'
  <1> SUFFICES ASSUME PanelInv, [PanelNext]_panelVars PROVE PanelInv'
    OBVIOUS
  <1>1. CASE UNCHANGED panelVars
    BY <1>1 DEF panelVars, deadlines, PanelInv, PanelTypeOK, DeadlinesAhead, Shows, Displays
  <1>2. ASSUME NEW btn \in BOOLEAN, NEW time \in {0, 1}, PanelPass(btn, time)
        PROVE  PanelInv'
    <2>1. /\ now' \in Millis /\ rest' \in 0 .. PanelWrap /\ wrapped' \in BOOLEAN
          /\ oledWakeUntil' \in Millis /\ prgIgnoreUntil' \in Millis
          /\ DeadlinesAhead(now', rest', wrapped', oledWakeUntil', prgIgnoreUntil')
      BY <1>2, DeadlinesKept
    <2>2. /\ screen' \in Screens /\ display' \in Displays /\ lastOledUpdate' \in Millis
          /\ lastAutoCycle' \in Millis /\ hasButton' = hasButton /\ Shows(display', screen')
          /\ ~hasButton => screen' # "SLEEP"
      BY <1>2, ScreenKept
    <2>3. hasButton \in BOOLEAN  BY DEF PanelInv, PanelTypeOK
    <2>4. PanelTypeOK'  BY <2>1, <2>2, <2>3 DEF PanelTypeOK, Displays
    <2>5. DeadlinesAhead(now, rest, wrapped, oledWakeUntil, prgIgnoreUntil)'
      BY <2>1, <2>2 DEF DeadlinesAhead
    <2> QED  BY <2>2, <2>4, <2>5 DEF PanelInv, Shows
  <1> QED  BY <1>1, <1>2 DEF PanelNext

\* While rest is short of the wake duration the sleep deadline is ahead.
LEMMA AwakeLongEnough ==
    ASSUME PanelInv, hasButton, Reached(oledWakeUntil)
    PROVE  rest >= OLED_WAKE_DURATION
  <1>1. now \in Millis /\ rest \in Nat /\ OLED_WAKE_DURATION \in Nat
    BY PanelConstants DEF PanelInv, PanelTypeOK
  <1>2. SUFFICES ASSUME rest < OLED_WAKE_DURATION PROVE FALSE  BY <1>1
  <1>3. OLED_WAKE_DURATION - rest \in 1 .. OLED_WAKE_DURATION  BY <1>1, <1>2
  <1>4. oledWakeUntil = After(now, OLED_WAKE_DURATION - rest)
    BY <1>2 DEF PanelInv, DeadlinesAhead
  <1> QED  BY <1>1, <1>3, <1>4, NotReached

\* Until the clock wraps, a press after the debounce time is not ignored.
LEMMA PressTaken ==
    ASSUME PanelInv, hasButton, rest > PRG_DEBOUNCE, ~wrapped
    PROVE  PressServed(TRUE)
  <1>1. /\ now \in 0 .. PanelWrap - 1 /\ rest \in Nat /\ PRG_DEBOUNCE \in Nat
        /\ PanelWrap \in Nat \ {0} /\ PRG_DEBOUNCE \in 0 .. PanelWrap
    BY PanelConstants DEF PanelInv, PanelTypeOK, Millis
  <1>2. rest <= now /\ now # 0
        /\ (prgIgnoreUntil = 0 \/ prgIgnoreUntil = After(now - rest, PRG_DEBOUNCE))
    BY DEF PanelInv, DeadlinesAhead
  <1>3. After(now - rest, PRG_DEBOUNCE) < now
    <2> DEFINE p == now - rest
    <2>1. p \in 0 .. PanelWrap - 1 /\ p + PRG_DEBOUNCE < now  BY <1>1, <1>2
    <2> HIDE DEF p
    <2>2. After(p, PRG_DEBOUNCE) = p + PRG_DEBOUNCE
      <3>1. p \in Millis /\ p + PRG_DEBOUNCE < PanelWrap  BY <1>1, <2>1 DEF Millis
      <3> QED  BY <1>1, <3>1, AfterValue
    <2> QED  BY <2>1, <2>2 DEF p
  <1> QED  BY <1>1, <1>2, <1>3 DEF PressServed

LEMMA PressAnswered ==
    ASSUME PanelInv, [PanelNext]_panelVars
    PROVE  [/\ hasButton /\ rest > PRG_DEBOUNCE /\ ~wrapped
                 /\ (\E time \in {0, 1} : PanelPass(TRUE, time)) => screen' \notin {screen, "SLEEP"}
            /\ screen # "SLEEP" /\ screen' = "SLEEP" =>
                  hasButton /\ rest >= OLED_WAKE_DURATION
            /\ DarkWhenAsleep']_panelVars
  <1>1. screen \in Screens  BY DEF PanelInv, PanelTypeOK
  <1>2. ASSUME NEW time \in {0, 1}, PanelPass(TRUE, time), hasButton, rest > PRG_DEBOUNCE, ~wrapped
        PROVE  screen' \notin {screen, "SLEEP"}
    <2>1. PressServed(TRUE)  BY <1>2, PressTaken
    <2>2. screen' = NextScreen(screen)  BY <1>2, <2>1, ScreenKept
    <2> QED  BY <1>1, <2>2 DEF NextScreen, Screens
  <1>3. ASSUME NEW btn \in BOOLEAN, NEW time \in {0, 1}, PanelPass(btn, time),
               screen # "SLEEP", screen' = "SLEEP"
        PROVE  hasButton /\ rest >= OLED_WAKE_DURATION
    <2>1. hasButton /\ Reached(oledWakeUntil)  BY <1>3, ScreenKept
    <2> QED  BY <2>1, AwakeLongEnough
  <1>4. DarkWhenAsleep'  BY PanelKeeps DEF PanelInv, Shows, DarkWhenAsleep
  <1> QED  BY <1>2, <1>3, <1>4 DEF PanelNext

\* A press outside the debounce time moves the screen and lights the panel, which then
\* stays lit for its wake duration (main.cpp:2086) and is dark when it sleeps.
THEOREM PressesAlwaysAnswered ==
    PanelSpec => PressesAnswered
  <1>1. PanelInit => PanelInv  BY PanelStarts
  <1>2. PanelInv /\ [PanelNext]_panelVars => PanelInv'  BY PanelKeeps
  <1>3. PanelInv /\ [PanelNext]_panelVars =>
          [/\ hasButton /\ rest > PRG_DEBOUNCE /\ ~wrapped
                 /\ (\E time \in {0, 1} : PanelPass(TRUE, time)) => screen' \notin {screen, "SLEEP"}
           /\ screen # "SLEEP" /\ screen' = "SLEEP" =>
                  hasButton /\ rest >= OLED_WAKE_DURATION
           /\ DarkWhenAsleep']_panelVars
    BY PressAnswered
  <1> QED  BY <1>1, <1>2, <1>3, PTL DEF PanelSpec, PressesAnswered

\* What loop() takes for a sleeping panel is dark, and every other one is lit.
THEOREM PanelDarkWhenAsleep ==
    PanelSpec => []DarkWhenAsleep
  <1>1. PanelInit => PanelInv  BY PanelStarts
  <1>2. PanelInv /\ [PanelNext]_panelVars => PanelInv'  BY PanelKeeps
  <1>3. PanelInv => DarkWhenAsleep  BY DEF PanelInv, Shows, DarkWhenAsleep
  <1> QED  BY <1>1, <1>2, <1>3, PTL DEF PanelSpec
==============================================================================
