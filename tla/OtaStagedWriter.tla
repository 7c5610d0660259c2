--------------------------- MODULE OtaStagedWriter ---------------------------
(***************************************************************************)
(* The streaming writer of the RAK4631's OTA packages                      *)
(* (ota_staged_writer.cpp).  A caller offers the package in pieces with    *)
(* push(), re-offers what was not taken, ends with finish() and drives the *)
(* flash with service(), one unit of work per call.  A package is a header *)
(* and a body; the header declares the length and the SHA-256 of the body. *)
(*                                                                         *)
(* A hash is the bytes hashed so far, so two hashes agree exactly when     *)
(* their inputs do.  The staging area outlives a reset.                    *)
(***************************************************************************)
EXTENDS Naturals, FiniteSets

CONSTANTS
    PageSize,       \* PAGE_SIZE = WRITE_CHUNK
    Capacity,       \* PAYLOAD_MAX, size of the staging area
    FixedLength,    \* OTA_PACKAGE_FIXED_HEADER_LENGTH
    HeaderLength,   \* the whole header, with target and version
    Packages,       \* packages that callers submit
    Erased,         \* 0xff
    Garbage,        \* a cell whose programming was cut short or that decayed
    MaxDisturbances \* early ends and failing or decaying accesses per upload

Cells == 0 .. Capacity - 1
Length(bytes) == Cardinality(DOMAIN bytes)

\* header: what its checks find; image: the bytes whose hash it holds; body: the
\* bytes that follow it.
IsPackage(p) ==
    /\ p.header \in {"good", "bad fixed part", "bad variable part"}
    /\ p.declared \in Nat
    /\ \A bytes \in {p.body, p.image} :
          Length(bytes) \in Nat /\ bytes = [i \in 0 .. Length(bytes) - 1 |-> bytes[i]]

Bytes == UNION {{p.body[i] : i \in DOMAIN p.body} : p \in Packages}

ASSUME LayoutAssumption ==
    /\ PageSize \in Nat \ {0} /\ Capacity \in Nat /\ Capacity % PageSize = 0
    /\ FixedLength \in Nat \ {0} /\ HeaderLength \in Nat /\ FixedLength < HeaderLength
ASSUME PackageAssumption ==
    /\ \A p \in Packages : IsPackage(p)
    /\ Erased \notin Bytes /\ Garbage \notin Bytes /\ Erased # Garbage
ASSUME DisturbanceAssumption == MaxDisturbances \in Nat

VARIABLES
    package,        \* what the caller is uploading
    offered,        \* bytes of it that were taken
    writeErases,    \* writeErasesPage() of the flash
    writer,         \* the Writer object
    flash,
    disturbances,   \* early ends, failed and decayed accesses of this upload
    touched         \* cells this writer erased or wrote

vars == <<package, offered, writeErases, writer, flash, disturbances, touched>>

Failures == {"EMPTY_INPUT", "TRUNCATED", "TRAILING_DATA", "BAD_HEADER", "EMPTY_PAYLOAD",
             "PAYLOAD_TOO_LARGE", "WRONG_TARGET", "HASH_MISMATCH", "ERASE_FAILED",
             "WRITE_FAILED", "READ_FAILED", "READBACK_MISMATCH", "CANCELED"}
IsTerminal == writer.status \in {"VERIFIED"} \cup Failures
Receiving == writer.status = "RECEIVING_PAYLOAD"

Lesser(a, b) == IF a < b THEN a ELSE b
Page(address) == address .. address + PageSize - 1
NoBytes == [i \in {} |-> Erased]

\* bytes followed by n values of data.
Extended(bytes, n, data(_)) ==
    [i \in 0 .. Length(bytes) + n - 1 |->
        IF i < Length(bytes) THEN bytes[i] ELSE data(i - Length(bytes))]
-----------------------------------------------------------------------------
\* The constructor.  payloadLength_ is package.declared, read after it was checked.
NewWriter ==
    [status |-> "RECEIVING_HEADER", headerUsed |-> 0, eraseAddress |-> 0,
     payloadReceived |-> 0, payloadWritten |-> 0, writeBuffer |-> NoBytes,
     inputFinished |-> FALSE, streamHash |-> NoBytes, readbackHash |-> NoBytes]

Init ==
    /\ package \in Packages /\ offered = 0
    /\ writeErases \in BOOLEAN
    /\ writer = NewWriter
    /\ flash \in {[c \in Cells |-> b] : b \in {Erased, Garbage}}
    /\ disturbances = 0 /\ touched = {}

\* The next upload, also after a reset; a page that a reset cut short is what a
\* failing erase or write leaves.
Restart ==
    /\ package' \in Packages /\ offered' = 0
    /\ writer' = NewWriter
    /\ disturbances' = 0 /\ touched' = {}
    /\ UNCHANGED <<writeErases, flash>>

\* fail(): the buffer is dropped and nothing more is taken.
Failed(w, s) == [w EXCEPT !.status = s, !.inputFinished = TRUE, !.writeBuffer = NoBytes]
To(w, s) == IF s \in Failures THEN Failed(w, s) ELSE [w EXCEPT !.status = s]

Disturb == disturbances < MaxDisturbances /\ disturbances' = disturbances + 1
-----------------------------------------------------------------------------
\* Mutant: a partial page is not erased.
WholePages(length) == PageSize * (length \div PageSize)

\* eraseEnd_: the pages that hold the payload.
PagesFor(length) == PageSize * ((length + PageSize - 1) \div PageSize)

\* parseFixedHeader() and validateVariableHeader(), once their part is complete.
HeaderVerdict(used) ==
    CASE used = FixedLength ->
           IF package.header = "bad fixed part" THEN "BAD_HEADER"
           ELSE IF package.declared = 0 THEN "EMPTY_PAYLOAD"
           ELSE IF package.declared > Capacity THEN "PAYLOAD_TOO_LARGE"
           ELSE "RECEIVING_HEADER"
      [] used = HeaderLength ->
           IF package.header = "bad variable part" THEN "WRONG_TARGET"
           ELSE IF PagesFor(package.declared) > Capacity THEN "PAYLOAD_TOO_LARGE"
           ELSE IF writeErases THEN "RECEIVING_PAYLOAD" ELSE "ERASING"
      [] OTHER -> "RECEIVING_HEADER"

\* push() while the header is incomplete: not past the end of the part it parses.
PushHeader(length) ==
    LET part == IF writer.headerUsed < FixedLength THEN FixedLength ELSE HeaderLength
        used == Lesser(writer.headerUsed + length, part)
    IN  /\ writer.status = "RECEIVING_HEADER"
        /\ writer' = To([writer EXCEPT !.headerUsed = used], HeaderVerdict(used))
        /\ offered' = offered + used - writer.headerUsed

\* Mutant: the room left in the buffer is not looked at.
TakeAll(length) == Lesser(length, package.declared - writer.payloadReceived)

\* Bytes that push() can take of the payload.
Take(length) ==
    Lesser(length, Lesser(PageSize - Length(writer.writeBuffer),
                          package.declared - writer.payloadReceived))

\* push() of payload: into the page buffer and into the hash.
PushPayload(length) ==
    LET take == Take(length)
        data(i) == package.body[offered - HeaderLength + i]
        taken == [writer EXCEPT
                    !.payloadReceived = @ + take,
                    !.writeBuffer = Extended(@, take, data),
                    !.streamHash = Extended(@, take, data)]
        trailing == take < length /\ taken.payloadReceived = package.declared
    IN  /\ Receiving /\ ~writer.inputFinished
        /\ writer' = IF trailing THEN Failed(taken, "TRAILING_DATA") ELSE taken
        /\ offered' = offered + take

Unoffered == HeaderLength + Length(package.body) - offered

Push ==
    /\ \E n \in 1 .. Unoffered : PushHeader(n) \/ PushPayload(n)
    /\ UNCHANGED <<package, writeErases, flash, disturbances, touched>>

\* finish(), by a caller that has nothing left to offer or has lost its source.
Finish ==
    /\ ~IsTerminal
    /\ IF Unoffered > 0 THEN Disturb ELSE UNCHANGED disturbances
    /\ writer' =
         IF writer.headerUsed = 0 THEN Failed(writer, "EMPTY_INPUT")
         ELSE IF writer.status = "RECEIVING_HEADER" \/ writer.payloadReceived # package.declared
         THEN Failed(writer, "TRUNCATED")
         ELSE [writer EXCEPT !.inputFinished = TRUE]
    /\ UNCHANGED <<package, offered, writeErases, flash, touched>>

\* Mutant: a writer that is done can still be cancelled.
MayCancelAlways == TRUE

MayCancel == ~IsTerminal

Cancel ==
    /\ MayCancel /\ Disturb
    /\ writer' = Failed(writer, "CANCELED")
    /\ UNCHANGED <<package, offered, writeErases, flash, touched>>
-----------------------------------------------------------------------------
\* One access of the flash to cells: it has its effect and the writer goes on, or it
\* fails, the cells are as before or spoiled, and the upload ends.
FlashUnit(cells, effect(_), done, failure) ==
    /\ touched' = touched \cup cells
    /\ \/ /\ flash' = [c \in Cells |-> IF c \in cells THEN effect(c) ELSE flash[c]]
          /\ writer' = done
          /\ UNCHANGED disturbances
       \/ /\ Disturb
          /\ flash' \in {flash, [c \in Cells |-> IF c \in cells THEN Garbage ELSE flash[c]]}
          /\ writer' = Failed(writer, failure)

NoFlashUnit == UNCHANGED <<flash, disturbances, touched>>

\* service() in ERASING: one page, or the end of the phase.
ServiceErase ==
    LET page == Page(writer.eraseAddress)
    IN  /\ writer.status = "ERASING"
        /\ IF writer.eraseAddress < PagesFor(package.declared)
           THEN FlashUnit(page, LAMBDA c : Erased,
                          [writer EXCEPT !.eraseAddress = @ + PageSize], "ERASE_FAILED")
           ELSE writer' = To(writer, "RECEIVING_PAYLOAD") /\ NoFlashUnit

\* Mutant: the last, partial page is never written.
PageReadyWhenFull == Length(writer.writeBuffer) = PageSize

PageReady ==
    \/ Length(writer.writeBuffer) = PageSize
    \/ writer.inputFinished /\ writer.writeBuffer # NoBytes

\* A cell programmed with byte: erased before, unless the write erases the page.
Programmed(cell, byte) ==
    IF writeErases \/ cell = Erased THEN byte
    ELSE IF byte \in {Erased, cell} THEN cell ELSE Garbage

\* Mutant: the padding of the last page counts as payload.
WholePageWritten == PageSize

\* Payload bytes in the page that is written: rawLength.
BytesWritten == Length(writer.writeBuffer)

\* service() with a page to write: writeBuffered().  Its range checks cannot fail:
\* touched stays within Cells (TypeOK).
ServiceWrite ==
    LET address == writer.payloadWritten
        padded(i) == IF i < Length(writer.writeBuffer) THEN writer.writeBuffer[i] ELSE Erased
    IN  /\ Receiving /\ PageReady
        /\ FlashUnit(Page(address), LAMBDA c : Programmed(flash[c], padded(c - address)),
                     [writer EXCEPT !.payloadWritten = @ + BytesWritten, !.writeBuffer = NoBytes],
                     "WRITE_FAILED")

\* service() after the last page: compare the hash of what was received.
ServiceHash ==
    /\ Receiving /\ ~PageReady
    /\ writer.inputFinished /\ writer.payloadWritten = package.declared
    /\ writer' = To(writer, IF writer.streamHash = package.image THEN "READING_BACK"
                            ELSE "HASH_MISMATCH")
    /\ NoFlashUnit

\* Mutant: the hash of the stream is compared once more.
StreamMatches == writer.streamHash = package.image

\* What was read back has the hash of the header.
ReadbackMatches == writer.readbackHash = package.image

\* service() in READING_BACK: one page at most, then the second comparison.
ServiceRead ==
    LET offset == Length(writer.readbackHash)
        length == Lesser(PageSize, package.declared - offset)
    IN  /\ writer.status = "READING_BACK"
        /\ IF offset < package.declared
           THEN FlashUnit({}, LAMBDA c : Erased,
                          [writer EXCEPT !.readbackHash =
                              Extended(@, length, LAMBDA i : flash[offset + i])],
                          "READ_FAILED")
           ELSE /\ writer' = To(writer, IF ReadbackMatches THEN "VERIFIED" ELSE "READBACK_MISMATCH")
                /\ NoFlashUnit

Service ==
    /\ ServiceErase \/ ServiceWrite \/ ServiceHash \/ ServiceRead
    /\ UNCHANGED <<package, offered, writeErases>>

\* A cell of the payload that was written but not read back yet loses its value.
Decay ==
    /\ ~IsTerminal /\ Disturb
    /\ \E c \in Length(writer.readbackHash) .. writer.payloadWritten - 1 :
          flash' = [flash EXCEPT ![c] = Garbage]
    /\ UNCHANGED <<package, offered, writeErases, writer, touched>>

Next == Push \/ Finish \/ Cancel \/ Service \/ Decay \/ Restart

\* The caller goes on offering, ends what it has offered, and calls service().
Fairness ==
    /\ WF_vars(Push)
    /\ WF_vars(Finish /\ Unoffered = 0)
    /\ WF_vars(Service)

Spec == Init /\ [][Next]_vars /\ Fairness
-----------------------------------------------------------------------------
Streams(n, values) == [0 .. n - 1 -> values]

\* Every variable has its type.
TypeOK ==
    /\ package \in Packages
    /\ offered \in 0 .. HeaderLength + Length(package.body)
    /\ writeErases \in BOOLEAN
    /\ flash \in [Cells -> Bytes \cup {Erased, Garbage}]
    /\ disturbances \in 0 .. MaxDisturbances
    /\ touched \subseteq Cells
    /\ writer.status \in {"RECEIVING_HEADER", "ERASING", "RECEIVING_PAYLOAD", "READING_BACK",
                          "VERIFIED"} \cup Failures
    /\ writer.headerUsed \in 0 .. HeaderLength
    /\ writer.eraseAddress \in 0 .. Capacity
    /\ writer.payloadReceived \in 0 .. Capacity
    /\ writer.payloadWritten \in 0 .. Capacity
    /\ \E n \in 0 .. PageSize : writer.writeBuffer \in Streams(n, Bytes)
    /\ writer.inputFinished \in BOOLEAN
    /\ writer.streamHash \in Streams(writer.payloadReceived, Bytes)
    /\ \E n \in 0 .. Capacity : writer.readbackHash \in Streams(n, Bytes \cup {Erased, Garbage})

\* The package is one that an upload should get through.
Sound(p) ==
    /\ p.header = "good"
    /\ p.declared \in 1 .. Capacity
    /\ p.body = p.image /\ Length(p.body) = p.declared

\* VERIFIED means that the staging area holds the payload that the header declares
\* and whose hash it carries, whatever was in the staging area before and whatever
\* went wrong since.
VerifiedIsComplete ==
    writer.status = "VERIFIED" =>
        /\ package.header = "good"
        /\ Length(package.image) = package.declared
        /\ \A i \in DOMAIN package.image : flash[i] = package.image[i]

\* A sound package that nothing disturbs is never refused, however it is cut up.
SoundPackageAccepted ==
    Sound(package) /\ disturbances = 0 => writer.status \notin Failures

\* A package with a bad header never touches the flash, and a good one only the
\* pages it declares ("all malformed fields fail before erase",
\* ota_staged_writer_test.cpp:129).
OnlyDeclaredPagesTouched ==
    touched # {} => /\ package.header = "good"
                    /\ \A c \in touched : PageSize * (c \div PageSize) < package.declared

\* Every byte taken is in the page buffer or handed to the flash, in order and
\* once, what was hashed is what was taken, and the flash is touched nowhere else.
StreamAccounted ==
    /\ OnlyDeclaredPagesTouched
    /\ writer.status \in {"RECEIVING_PAYLOAD", "READING_BACK"} =>
        /\ offered = HeaderLength + writer.payloadReceived
        /\ writer.payloadReceived = writer.payloadWritten + Length(writer.writeBuffer)
        /\ \A i \in DOMAIN writer.writeBuffer :
              writer.writeBuffer[i] = package.body[writer.payloadWritten + i]
        /\ \A i \in DOMAIN writer.streamHash : writer.streamHash[i] = package.body[i]

\* The writer makes good on StagedUpload: one verdict per upload, VERIFIED only with the
\* whole image staged, no refusal without a reason, and no cell rewritten outside the
\* declared pages or after the verdict (push(), finish(), cancel() and service() after
\* isTerminal(); ota_staged_writer.cpp:184-281).
DeclaredCells(p) ==
    IF p.header = "good" THEN {c \in Cells : PageSize * (c \div PageSize) < p.declared} ELSE {}
Contract(p) ==
    [image |-> p.image, area |-> DeclaredCells(p), sound |-> Sound(p),
     complete |-> p.header = "good" /\ Length(p.image) = p.declared]
Verdict ==
    IF writer.status = "VERIFIED" THEN "verified"
    ELSE IF writer.status \in Failures THEN "failed" ELSE "open"

Upload == INSTANCE StagedUpload
    WITH Values <- Bytes \cup {Erased, Garbage}, Uploads <- {Contract(p) : p \in Packages},
         upload <- Contract(package), staging <- flash, disturbed <- disturbances > 0,
         verdict <- Verdict

ImplementsUpload == Upload!Spec

\* A caller that re-offers what was not taken and calls service() gets a verdict.
UploadEnds == <>[][~Restart]_vars => <>[]IsTerminal
=============================================================================
