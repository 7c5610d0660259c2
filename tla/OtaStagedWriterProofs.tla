------------------------ MODULE OtaStagedWriterProofs ------------------------
(***************************************************************************)
(* VERIFIED means that the whole image is in the staging area, and a sound *)
(* package that nothing disturbs gets there: for every page size, capacity *)
(* and header, any packages cut up in any way, and any number of failing   *)
(* or decaying accesses.  Together that is what StagedUpload promises.     *)
(***************************************************************************)
EXTENDS OtaStagedWriter, FiniteSetTheorems, TLAPS

\* The Writer object has its fields, and the flash its cells.
Shape ==
    /\ writer = [status |-> writer.status, headerUsed |-> writer.headerUsed,
                 eraseAddress |-> writer.eraseAddress,
                 payloadReceived |-> writer.payloadReceived,
                 payloadWritten |-> writer.payloadWritten,
                 writeBuffer |-> writer.writeBuffer,
                 inputFinished |-> writer.inputFinished,
                 streamHash |-> writer.streamHash,
                 readbackHash |-> writer.readbackHash]
    /\ DOMAIN flash = Cells
    /\ package \in Packages

\* What parseFixedHeader() lets through, and what the whole header check does.
FixedPartGood == package.header # "bad fixed part" /\ package.declared <= Capacity
HeaderGood == package.header = "good" /\ package.declared <= Capacity

\* The part of the header that was parsed is good.
HeaderParsed ==
    /\ writer.headerUsed \in Nat
    /\ writer.status = "RECEIVING_HEADER" =>
          /\ writer.headerUsed < HeaderLength
          /\ writer.headerUsed >= FixedLength => FixedPartGood
    /\ writer.status \notin {"RECEIVING_HEADER"} \cup Failures => HeaderGood

\* hash is that of the first cells, as many as the package declares at most.
HashOfCells(hash, cells, p) ==
    \E n \in 0 .. p.declared : hash = [i \in 0 .. n - 1 |-> cells[i]]

\* Nothing is read back before READING_BACK, and then the first n cells, in order.
ReadInOrder ==
    /\ writer.status \in {"RECEIVING_HEADER", "ERASING", "RECEIVING_PAYLOAD"} =>
          writer.readbackHash = NoBytes
    /\ writer.status \in {"READING_BACK", "VERIFIED"} =>
          HashOfCells(writer.readbackHash, flash, package)
    /\ writer.status = "VERIFIED" =>
          /\ writer.readbackHash = package.image
          /\ Length(package.image) = package.declared

WriterInv == Shape /\ HeaderParsed /\ ReadInOrder

USE DEF vars, Shape
-----------------------------------------------------------------------------
\* The length of a stream of n bytes.
LEMMA StreamLength ==
    ASSUME NEW n \in Nat, NEW f, DOMAIN f = 0 .. n - 1
    PROVE  Length(f) = n
  BY FS_Interval DEF Length

\* Reading on: the next k cells follow the first n.
LEMMA ReadOn ==
    ASSUME NEW n \in Nat, NEW k \in Nat
    PROVE  Extended([i \in 0 .. n - 1 |-> flash[i]], k, LAMBDA i : flash[n + i])
              = [i \in 0 .. n + k - 1 |-> flash[i]]
  <1> DEFINE f == [i \in 0 .. n - 1 |-> flash[i]]
  <1>1. Length(f) = n  BY StreamLength
  <1> HIDE DEF f
  <1>2. \A i \in 0 .. n - 1 : f[i] = flash[i]  BY DEF f
  <1>3. Extended(f, k, LAMBDA i : flash[n + i])
          = [i \in 0 .. n + k - 1 |-> IF i < n THEN f[i] ELSE flash[n + (i - n)]]
    BY <1>1 DEF Extended
  <1>4. \A i \in 0 .. n + k - 1 : (IF i < n THEN f[i] ELSE flash[n + (i - n)]) = flash[i]
    <2> TAKE i \in 0 .. n + k - 1
    <2>1. CASE i < n  BY <2>1, <1>2
    <2>2. CASE ~(i < n)
      <3>1. n + (i - n) = i  OBVIOUS
      <3> QED  BY <2>2, <3>1
    <2> QED  BY <2>1, <2>2
  <1>5. Extended(f, k, LAMBDA i : flash[n + i]) = [i \in 0 .. n + k - 1 |-> flash[i]]
    BY <1>3, <1>4
  <1> QED  BY <1>5 DEF f
-----------------------------------------------------------------------------
\* The two parts of the header.
LEMMA HeaderLengths ==
    /\ FixedLength \in Nat /\ HeaderLength \in Nat
    /\ 0 < FixedLength /\ FixedLength < HeaderLength
    /\ 0 < HeaderLength /\ ~(0 >= FixedLength)
  <1>1. FixedLength \in Nat /\ FixedLength # 0 /\ HeaderLength \in Nat
        /\ FixedLength < HeaderLength
    BY LayoutAssumption
  <1> QED  BY <1>1

\* The staging area has a size.
LEMMA CapacityNat == Capacity \in Nat
  BY LayoutAssumption

\* What is not too large fits.
LEMMA Fits == \A d \in Nat : ~(d > Capacity) => d <= Capacity
  BY CapacityNat

\* How far one push() gets in the header.
LEMMA PartBounds ==
    ASSUME NEW u \in Nat, u < HeaderLength, NEW n \in Nat \ {0},
           NEW used, used = Lesser(u + n, IF u < FixedLength THEN FixedLength ELSE HeaderLength)
    PROVE  /\ used \in Nat /\ used <= HeaderLength
           /\ used > FixedLength => u >= FixedLength
  BY HeaderLengths DEF Lesser

\* A new writer has parsed and read nothing.
LEMMA FreshKeeps ==
    ASSUME package \in Packages, writer = NewWriter, DOMAIN flash = Cells
    PROVE  WriterInv
  <1>1. Shape  BY DEF NewWriter
  <1>2. writer.headerUsed = 0 /\ writer.status = "RECEIVING_HEADER"
        /\ writer.readbackHash = NoBytes
    BY DEF NewWriter
  <1>3. 0 < HeaderLength /\ ~(0 >= FixedLength)  BY HeaderLengths
  <1>4. HeaderParsed  BY <1>2, <1>3 DEF HeaderParsed
  <1>5. ReadInOrder  BY <1>2 DEF ReadInOrder
  <1> QED  BY <1>1, <1>4, <1>5 DEF WriterInv

\* So has the writer of the next upload.
LEMMA RestartKeeps == ASSUME WriterInv, Restart PROVE WriterInv'
  <1>1. package' \in Packages /\ writer' = NewWriter /\ DOMAIN flash' = Cells
    BY DEF Restart, WriterInv
  <1>2. Shape'  BY <1>1 DEF NewWriter
  <1>3. writer'.headerUsed = 0 /\ writer'.status = "RECEIVING_HEADER"
        /\ writer'.readbackHash = NoBytes
    BY <1>1 DEF NewWriter
  <1>4. 0 < HeaderLength /\ ~(0 >= FixedLength)  BY HeaderLengths
  <1>5. HeaderParsed'  BY <1>3, <1>4 DEF HeaderParsed
  <1>6. ReadInOrder'  BY <1>3 DEF ReadInOrder
  <1> QED  BY <1>2, <1>5, <1>6 DEF WriterInv

\* A writer that failed promises nothing.
LEMMA FailedKeeps ==
    ASSUME WriterInv, NEW s \in Failures, NEW w, w = Failed(writer, s), writer' = w,
           UNCHANGED package, DOMAIN flash' = Cells
    PROVE  WriterInv'
  <1>1. Shape'  BY DEF WriterInv, Failed
  <1>2. writer'.status = s /\ writer'.headerUsed = writer.headerUsed
    BY DEF WriterInv, Failed
  <1>3. s \notin {"RECEIVING_HEADER", "ERASING", "RECEIVING_PAYLOAD", "READING_BACK", "VERIFIED"}
    BY DEF Failures
  <1>4. HeaderParsed'  BY <1>2, <1>3 DEF WriterInv, HeaderParsed
  <1>5. ReadInOrder'  BY <1>2, <1>3 DEF ReadInOrder
  <1> QED  BY <1>1, <1>4, <1>5 DEF WriterInv

\* What neither parses, reads back nor changes the status keeps the invariant.
LEMMA QuietKeeps ==
    ASSUME WriterInv, Shape', package' = package,
           writer'.status = writer.status, writer'.headerUsed = writer.headerUsed,
           writer'.readbackHash = writer.readbackHash,
           flash' = flash \/ writer.status \notin {"READING_BACK", "VERIFIED"}
    PROVE  WriterInv'
  <1>1. HeaderParsed'
    BY DEF WriterInv, HeaderParsed, FixedPartGood, HeaderGood
  <1>2. ReadInOrder'
    <2>1. CASE flash' = flash
      <3>1. writer'.status \in {"READING_BACK", "VERIFIED"} =>
               HashOfCells(writer'.readbackHash, flash', package')
        BY <2>1 DEF WriterInv, ReadInOrder
      <3>2. writer'.status = "VERIFIED" =>
               /\ writer'.readbackHash = package'.image
               /\ Length(package'.image) = package'.declared
        BY <2>1 DEF WriterInv, ReadInOrder
      <3>3. writer'.status \in {"RECEIVING_HEADER", "ERASING", "RECEIVING_PAYLOAD"} =>
               writer'.readbackHash = NoBytes
        BY DEF WriterInv, ReadInOrder
      <3> QED  BY <3>1, <3>2, <3>3 DEF ReadInOrder, HashOfCells, NoBytes, Length
    <2>2. CASE writer.status \notin {"READING_BACK", "VERIFIED"}
      BY <2>2 DEF WriterInv, ReadInOrder, Length
    <2> QED  BY <2>1, <2>2
  <1> QED  BY <1>1, <1>2 DEF WriterInv

\* From a good header into or through the payload.
LEMMA PayloadKeeps ==
    ASSUME WriterInv, Shape', package' = package, HeaderGood,
           writer'.status \in {"ERASING", "RECEIVING_PAYLOAD"},
           writer'.headerUsed \in Nat, writer'.readbackHash = NoBytes
    PROVE  WriterInv'
  <1>1. HeaderParsed'  BY DEF HeaderParsed, HeaderGood
  <1>2. ReadInOrder'  BY DEF ReadInOrder
  <1> QED  BY <1>1, <1>2 DEF WriterInv

\* A status before the verdict is none of the failures.
LEMMA NotFailed ==
    \A s \in {"RECEIVING_HEADER", "ERASING", "RECEIVING_PAYLOAD", "READING_BACK", "VERIFIED"} :
       s \notin Failures
  BY DEF Failures

\* Parsing: the writer goes on only past a header that its checks found good.
LEMMA PushHeaderKeeps ==
    ASSUME WriterInv, NEW n \in Nat \ {0}, PushHeader(n), UNCHANGED <<package, flash>>
    PROVE  WriterInv'
  <1> DEFINE part == IF writer.headerUsed < FixedLength THEN FixedLength ELSE HeaderLength
             used == Lesser(writer.headerUsed + n, part)
             w == [writer EXCEPT !.headerUsed = used]
             verdict == HeaderVerdict(used)
  <1>1. /\ writer.status = "RECEIVING_HEADER"
        /\ writer' = To(w, verdict)
    BY DEF PushHeader
  <1>2. /\ writer.headerUsed \in Nat /\ writer.headerUsed < HeaderLength
        /\ writer.headerUsed >= FixedLength => FixedPartGood
    BY <1>1 DEF WriterInv, HeaderParsed
  <1>3. /\ used \in Nat /\ used <= HeaderLength
        /\ used > FixedLength => writer.headerUsed >= FixedLength
    BY <1>2, PartBounds
  <1>4. FixedLength < HeaderLength /\ FixedLength \in Nat /\ HeaderLength \in Nat
    BY HeaderLengths
  <1>5. /\ package.header \in {"good", "bad fixed part", "bad variable part"}
        /\ package.declared \in Nat
    BY PackageAssumption DEF WriterInv, IsPackage
  <1>6. /\ w.status = writer.status /\ w.headerUsed = used
        /\ w.readbackHash = writer.readbackHash
        /\ w = [status |-> w.status, headerUsed |-> w.headerUsed,
                eraseAddress |-> w.eraseAddress, payloadReceived |-> w.payloadReceived,
                payloadWritten |-> w.payloadWritten, writeBuffer |-> w.writeBuffer,
                inputFinished |-> w.inputFinished, streamHash |-> w.streamHash,
                readbackHash |-> w.readbackHash]
    BY DEF WriterInv
  <1>7. writer.readbackHash = NoBytes  BY <1>1 DEF WriterInv, ReadInOrder
  <1> HIDE DEF w, used
  <1>8. CASE verdict \in Failures
    <2>1. writer' = Failed(w, verdict)  BY <1>1, <1>8 DEF To
    <2>2. Shape'  BY <1>6, <2>1 DEF WriterInv, Failed
    <2>3. writer'.status = verdict /\ writer'.headerUsed = used
      BY <1>6, <2>1 DEF Failed
    <2>4. verdict \notin {"RECEIVING_HEADER", "ERASING", "RECEIVING_PAYLOAD",
                          "READING_BACK", "VERIFIED"}
      BY <1>8, NotFailed
    <2>5. HeaderParsed'  BY <1>3, <1>8, <2>3, <2>4 DEF HeaderParsed
    <2>6. ReadInOrder'  BY <2>3, <2>4 DEF ReadInOrder
    <2> QED  BY <2>2, <2>5, <2>6 DEF WriterInv
  <1>9. CASE verdict \notin Failures
    <2>1. writer' = [w EXCEPT !.status = verdict]  BY <1>1, <1>9 DEF To
    <2>2. Shape'  BY <1>6, <2>1 DEF WriterInv
    <2>3. /\ writer'.status = verdict /\ writer'.headerUsed = used
          /\ writer'.readbackHash = NoBytes
      BY <1>6, <1>7, <2>1
    <2>4. CASE used = HeaderLength
      <3>1. used # FixedLength /\ used > FixedLength  BY <1>4, <2>4
      <3>2. FixedPartGood  BY <1>2, <1>3, <3>1
      <3>3. package.header # "bad variable part"
            /\ verdict \in {"ERASING", "RECEIVING_PAYLOAD"}
        BY <1>9, <2>4, <3>1 DEF HeaderVerdict, Failures
      <3>4. HeaderGood  BY <1>5, <3>2, <3>3 DEF FixedPartGood, HeaderGood
      <3> QED  BY <1>3, <2>2, <2>3, <3>3, <3>4, PayloadKeeps
    <2>5. CASE used # HeaderLength
      <3>1. used < HeaderLength  BY <1>3, <1>4, <2>5
      <3>2. verdict = "RECEIVING_HEADER"
            /\ (used = FixedLength => package.header # "bad fixed part"
                                      /\ ~(package.declared > Capacity))
        BY <1>9, <2>5 DEF HeaderVerdict, Failures
      <3>3. ~(package.declared > Capacity) => package.declared <= Capacity
        BY <1>5, Fits
      <3>4. used = FixedLength => FixedPartGood  BY <3>2, <3>3 DEF FixedPartGood
      <3>5. used >= FixedLength => used = FixedLength \/ used > FixedLength
        BY <1>3, <1>4
      <3>6. used >= FixedLength => FixedPartGood  BY <1>2, <1>3, <3>5, <3>4
      <3>7. HeaderParsed'
        BY <1>3, <2>3, <3>1, <3>2, <3>6 DEF HeaderParsed, FixedPartGood, Failures
      <3>8. ReadInOrder'  BY <2>3, <3>2 DEF ReadInOrder
      <3> QED  BY <2>2, <3>7, <3>8 DEF WriterInv
    <2> QED  BY <2>4, <2>5
  <1> QED  BY <1>8, <1>9

\* Taking payload, or failing on what follows it.
LEMMA PushPayloadKeeps ==
    ASSUME WriterInv, NEW n, PushPayload(n), UNCHANGED <<package, flash>>
    PROVE  WriterInv'
  <1>1. PICK taken :
          /\ taken.status = writer.status /\ taken.headerUsed = writer.headerUsed
          /\ taken.readbackHash = writer.readbackHash
          /\ taken = [writer EXCEPT !.payloadReceived = taken.payloadReceived,
                                    !.writeBuffer = taken.writeBuffer,
                                    !.streamHash = taken.streamHash]
          /\ writer' = taken \/ writer' = Failed(taken, "TRAILING_DATA")
    <2> DEFINE data(i) == package.body[offered - HeaderLength + i]
               taken == [writer EXCEPT
                           !.payloadReceived = @ + Take(n),
                           !.writeBuffer = Extended(@, Take(n), data),
                           !.streamHash = Extended(@, Take(n), data)]
    <2>1. writer' = taken \/ writer' = Failed(taken, "TRAILING_DATA")
      BY DEF PushPayload
    <2>2. /\ taken.status = writer.status /\ taken.headerUsed = writer.headerUsed
          /\ taken.readbackHash = writer.readbackHash
          /\ taken = [writer EXCEPT !.payloadReceived = taken.payloadReceived,
                                    !.writeBuffer = taken.writeBuffer,
                                    !.streamHash = taken.streamHash]
      BY DEF WriterInv
    <2> HIDE DEF taken
    <2> QED  BY <2>1, <2>2
  <1>2. CASE writer' = taken
    <2>1. Shape'  BY <1>1, <1>2 DEF WriterInv
    <2> QED  BY <1>1, <1>2, <2>1, QuietKeeps
  <1>3. CASE writer' = Failed(taken, "TRAILING_DATA")
    <2>1. Shape'  BY <1>1, <1>3 DEF WriterInv, Failed
    <2>2. writer'.status = "TRAILING_DATA" /\ writer'.headerUsed = writer.headerUsed
      BY <1>1, <1>3 DEF WriterInv, Failed
    <2> QED  BY <2>1, <2>2 DEF WriterInv, HeaderParsed, ReadInOrder, Failures
  <1> QED  BY <1>1, <1>2, <1>3

\* finish() fails the upload or only notes the end of the input.
LEMMA FinishKeeps == ASSUME WriterInv, Finish PROVE WriterInv'
  <1>1. UNCHANGED <<package, flash>>  BY DEF Finish
  <1>2. CASE \E s \in {"EMPTY_INPUT", "TRUNCATED"} : writer' = Failed(writer, s)
    <2>1. PICK s \in Failures : writer' = Failed(writer, s)  BY <1>2 DEF Failures
    <2>2. DOMAIN flash' = Cells  BY <1>1 DEF WriterInv
    <2> QED  BY <1>1, <2>1, <2>2, FailedKeeps
  <1>3. CASE writer' = [writer EXCEPT !.inputFinished = TRUE]
    <2>1. Shape'  BY <1>1, <1>3 DEF WriterInv
    <2>2. /\ writer'.status = writer.status /\ writer'.headerUsed = writer.headerUsed
          /\ writer'.readbackHash = writer.readbackHash
      BY <1>3 DEF WriterInv
    <2> QED  BY <1>1, <2>1, <2>2, QuietKeeps
  <1> QED  BY <1>2, <1>3 DEF Finish

\* cancel() fails the upload.
LEMMA CancelKeeps == ASSUME WriterInv, Cancel PROVE WriterInv'
  <1>1. writer' = Failed(writer, "CANCELED") /\ UNCHANGED package /\ DOMAIN flash' = Cells
    BY DEF WriterInv, Cancel
  <1> QED  BY <1>1, FailedKeeps DEF Failures

\* A decaying cell was not read back yet.
LEMMA DecayKeeps == ASSUME WriterInv, Decay PROVE WriterInv'
  <1>1. PICK c \in Length(writer.readbackHash) .. writer.payloadWritten - 1 :
           flash' = [flash EXCEPT ![c] = Garbage]
    BY DEF Decay
  <1>2. UNCHANGED <<package, writer>> /\ writer.status \notin {"VERIFIED"} \cup Failures
    BY DEF Decay, IsTerminal
  <1>3. Shape'  BY <1>1, <1>2 DEF WriterInv
  <1>4. CASE writer.status = "READING_BACK"
    <2>1. PICK n \in 0 .. package.declared :
             writer.readbackHash = [i \in 0 .. n - 1 |-> flash[i]]
      BY <1>4 DEF WriterInv, ReadInOrder, HashOfCells
    <2>2. package.declared \in Nat /\ package.declared <= Capacity /\ Capacity \in Nat
      BY <1>4, NotFailed, PackageAssumption, LayoutAssumption
      DEF WriterInv, HeaderParsed, HeaderGood, IsPackage
    <2>3. n \in Nat /\ Length(writer.readbackHash) = n
      <3>1. n \in Nat  BY <2>2
      <3>2. DOMAIN writer.readbackHash = 0 .. n - 1  BY <2>1
      <3> QED  BY <3>1, <3>2, StreamLength
    <2>4. \A i \in 0 .. n - 1 : i # c /\ i \in Cells  BY <2>2, <2>3 DEF Cells
    <2>5. \A i \in 0 .. n - 1 : flash'[i] = flash[i]  BY <1>1, <2>4 DEF WriterInv
    <2>6. HashOfCells(writer'.readbackHash, flash', package')
      BY <1>2, <2>1, <2>5 DEF HashOfCells
    <2>7. HeaderParsed'
      BY <1>2 DEF WriterInv, HeaderParsed, FixedPartGood, HeaderGood
    <2>8. ReadInOrder'  BY <1>2, <1>4, <2>6 DEF ReadInOrder
    <2> QED  BY <1>3, <2>7, <2>8 DEF WriterInv
  <1>5. CASE writer.status # "READING_BACK"  BY <1>2, <1>3, <1>5, QuietKeeps
  <1> QED  BY <1>4, <1>5

\* Erasing a page, or the end of the phase.
LEMMA ServiceEraseKeeps ==
    ASSUME WriterInv, ServiceErase, UNCHANGED package PROVE WriterInv'
  <1>1. writer.status = "ERASING"  BY DEF ServiceErase
  <1>2. HeaderGood /\ writer.readbackHash = NoBytes /\ writer.headerUsed \in Nat
    BY <1>1, NotFailed DEF WriterInv, HeaderParsed, ReadInOrder
  <1>3. DOMAIN flash' = Cells
    BY DEF WriterInv, ServiceErase, FlashUnit, NoFlashUnit
  <1>4. CASE writer' = Failed(writer, "ERASE_FAILED")
    BY <1>3, <1>4, FailedKeeps DEF Failures
  <1>5. CASE writer' = [writer EXCEPT !.eraseAddress = @ + PageSize]
    <2>1. Shape'  BY <1>3, <1>5 DEF WriterInv
    <2>2. writer'.status = "ERASING" /\ writer'.readbackHash = NoBytes
          /\ writer'.headerUsed \in Nat
      BY <1>1, <1>2, <1>5 DEF WriterInv
    <2> QED  BY <1>2, <2>1, <2>2, PayloadKeeps
  <1>6. CASE writer' = To(writer, "RECEIVING_PAYLOAD")
    <2>1. writer' = [writer EXCEPT !.status = "RECEIVING_PAYLOAD"]
      BY <1>6, NotFailed DEF To
    <2>2. Shape'  BY <1>3, <2>1 DEF WriterInv
    <2>3. writer'.status = "RECEIVING_PAYLOAD" /\ writer'.readbackHash = NoBytes
          /\ writer'.headerUsed \in Nat
      BY <1>2, <2>1 DEF WriterInv
    <2> QED  BY <1>2, <2>2, <2>3, PayloadKeeps
  <1> QED  BY <1>4, <1>5, <1>6 DEF ServiceErase, FlashUnit

\* Writing a page.
LEMMA ServiceWriteKeeps ==
    ASSUME WriterInv, ServiceWrite, UNCHANGED package PROVE WriterInv'
  <1>1. writer.status = "RECEIVING_PAYLOAD"  BY DEF ServiceWrite, Receiving
  <1>2. HeaderGood /\ writer.readbackHash = NoBytes /\ writer.headerUsed \in Nat
    BY <1>1, NotFailed DEF WriterInv, HeaderParsed, ReadInOrder
  <1>3. DOMAIN flash' = Cells  BY DEF WriterInv, ServiceWrite, FlashUnit
  <1>4. CASE writer' = Failed(writer, "WRITE_FAILED")
    BY <1>3, <1>4, FailedKeeps DEF Failures
  <1>5. CASE writer' = [writer EXCEPT !.payloadWritten = @ + BytesWritten,
                                      !.writeBuffer = NoBytes]
    <2>1. Shape'  BY <1>3, <1>5 DEF WriterInv
    <2>2. writer'.status = "RECEIVING_PAYLOAD" /\ writer'.readbackHash = NoBytes
          /\ writer'.headerUsed \in Nat
      BY <1>1, <1>2, <1>5 DEF WriterInv
    <2> QED  BY <1>2, <2>1, <2>2, PayloadKeeps
  <1> QED  BY <1>4, <1>5 DEF ServiceWrite, FlashUnit

\* From the payload to the readback, of which nothing is done yet.
LEMMA ServiceHashKeeps ==
    ASSUME WriterInv, ServiceHash, UNCHANGED package PROVE WriterInv'
  <1>1. writer.status = "RECEIVING_PAYLOAD" /\ flash' = flash
    BY DEF ServiceHash, Receiving, NoFlashUnit
  <1>2. HeaderGood /\ writer.readbackHash = NoBytes /\ writer.headerUsed \in Nat
    BY <1>1, NotFailed DEF WriterInv, HeaderParsed, ReadInOrder
  <1>3. DOMAIN flash' = Cells  BY <1>1 DEF WriterInv
  <1>4. CASE writer' = To(writer, "HASH_MISMATCH")
    <2>1. writer' = Failed(writer, "HASH_MISMATCH")  BY <1>4 DEF To, Failures
    <2> QED  BY <1>3, <2>1, FailedKeeps DEF Failures
  <1>5. CASE writer' = To(writer, "READING_BACK")
    <2>1. writer' = [writer EXCEPT !.status = "READING_BACK"]  BY <1>5, NotFailed DEF To
    <2>2. Shape'  BY <1>3, <2>1 DEF WriterInv
    <2>3. writer'.status = "READING_BACK" /\ writer'.readbackHash = NoBytes
          /\ writer'.headerUsed = writer.headerUsed
      BY <1>2, <2>1 DEF WriterInv
    <2>4. package.declared \in Nat  BY PackageAssumption DEF WriterInv, IsPackage
    <2>5. NoBytes = [i \in 0 .. 0 - 1 |-> flash[i]]
      <3>1. 0 .. 0 - 1 = {}  OBVIOUS
      <3> QED  BY <3>1 DEF NoBytes
    <2>6. HashOfCells(writer'.readbackHash, flash', package')
      BY <1>1, <2>3, <2>4, <2>5 DEF HashOfCells
    <2>7. HeaderParsed'  BY <1>2, <2>3 DEF HeaderParsed, HeaderGood
    <2>8. ReadInOrder'  BY <2>3, <2>6 DEF ReadInOrder
    <2> QED  BY <2>2, <2>7, <2>8 DEF WriterInv
  <1> QED  BY <1>4, <1>5 DEF ServiceHash

\* Reading a page on, or the comparison that makes the verdict.
LEMMA ServiceReadKeeps ==
    ASSUME WriterInv, ServiceRead, UNCHANGED package PROVE WriterInv'
  <1> DEFINE offset == Length(writer.readbackHash)
             length == Lesser(PageSize, package.declared - offset)
  <1>1. writer.status = "READING_BACK"  BY DEF ServiceRead
  <1>2. HeaderGood /\ writer.headerUsed \in Nat
    BY <1>1, NotFailed DEF WriterInv, HeaderParsed
  <1>3. package.declared \in Nat  BY PackageAssumption DEF WriterInv, IsPackage
  <1>4. PICK n \in 0 .. package.declared :
           writer.readbackHash = [i \in 0 .. n - 1 |-> flash[i]]
    BY <1>1 DEF WriterInv, ReadInOrder, HashOfCells
  <1>5. offset = n /\ n \in Nat
    <2>1. n \in Nat  BY <1>3
    <2>2. DOMAIN writer.readbackHash = 0 .. n - 1  BY <1>4
    <2> QED  BY <2>1, <2>2, StreamLength
  <1>6. CASE writer' = Failed(writer, "READ_FAILED") /\ DOMAIN flash' = Cells
    BY <1>6, FailedKeeps DEF Failures
  <1>7. CASE /\ offset < package.declared
             /\ flash' = [c \in Cells |-> IF c \in {} THEN Erased ELSE flash[c]]
             /\ writer' = [writer EXCEPT !.readbackHash =
                             Extended(@, length, LAMBDA i : flash[offset + i])]
    <2>1. PageSize \in Nat  BY LayoutAssumption
    <2>2. length \in Nat /\ n + length \in 0 .. package.declared
      BY <1>3, <1>5, <1>7, <2>1 DEF Lesser
    <2> HIDE DEF length
    <2>3. writer'.readbackHash
            = Extended([i \in 0 .. n - 1 |-> flash[i]], length, LAMBDA i : flash[n + i])
      BY <1>4, <1>5, <1>7 DEF WriterInv
    <2>4. writer'.readbackHash = [i \in 0 .. n + length - 1 |-> flash[i]]
      BY <1>5, <2>2, <2>3, ReadOn
    <2>5. \A c \in Cells : flash'[c] = flash[c]  BY <1>7
    <2>6. \A i \in 0 .. n + length - 1 : i \in Cells
      <3>1. package.declared <= Capacity  BY <1>2 DEF HeaderGood
      <3> QED  BY <1>3, <1>5, <2>2, <3>1, CapacityNat DEF Cells
    <2>7. HashOfCells(writer'.readbackHash, flash', package')
      BY <2>2, <2>4, <2>5, <2>6 DEF HashOfCells
    <2>8. Shape'  BY <1>7 DEF WriterInv
    <2>9. writer'.status = "READING_BACK" /\ writer'.headerUsed = writer.headerUsed
      BY <1>1, <1>7 DEF WriterInv
    <2>10. HeaderParsed'  BY <1>2, <2>9 DEF HeaderParsed, HeaderGood
    <2>11. ReadInOrder'  BY <2>7, <2>9 DEF ReadInOrder
    <2> QED  BY <2>8, <2>10, <2>11 DEF WriterInv
  <1>8. CASE /\ ~(offset < package.declared) /\ flash' = flash
             /\ writer' = To(writer, IF ReadbackMatches THEN "VERIFIED" ELSE "READBACK_MISMATCH")
    <2>1. DOMAIN flash' = Cells  BY <1>8 DEF WriterInv
    <2>2. CASE ~ReadbackMatches
      <3>1. writer' = Failed(writer, "READBACK_MISMATCH")  BY <1>8, <2>2 DEF To, Failures
      <3> QED  BY <2>1, <3>1, FailedKeeps DEF Failures
    <2>3. CASE ReadbackMatches
      <3>1. writer' = [writer EXCEPT !.status = "VERIFIED"]  BY <1>8, <2>3, NotFailed DEF To
      <3>2. Shape'  BY <2>1, <3>1 DEF WriterInv
      <3>3. writer'.status = "VERIFIED" /\ writer'.headerUsed = writer.headerUsed
            /\ writer'.readbackHash = writer.readbackHash
        BY <3>1 DEF WriterInv
      <3>4. n = package.declared  BY <1>3, <1>5, <1>8
      <3>5. writer.readbackHash = package.image  BY <2>3 DEF ReadbackMatches
      <3>6. Length(package.image) = package.declared  BY <1>5, <3>4, <3>5
      <3>7. HashOfCells(writer'.readbackHash, flash', package')
        BY <1>4, <1>8, <3>3 DEF HashOfCells
      <3>8. HeaderParsed'  BY <1>2, <3>3 DEF HeaderParsed, HeaderGood
      <3>9. Length(package'.image) = package'.declared /\ writer'.readbackHash = package'.image
        BY <3>3, <3>5, <3>6
      <3>10. ReadInOrder'  BY <3>3, <3>7, <3>9 DEF ReadInOrder, Length
      <3> QED  BY <3>2, <3>8, <3>10 DEF WriterInv
    <2> QED  BY <2>2, <2>3
  <1> QED  BY <1>6, <1>7, <1>8 DEF ServiceRead, FlashUnit, NoFlashUnit, WriterInv

\* Every step keeps the invariant.
LEMMA WriterStep == WriterInv /\ [Next]_vars => WriterInv'
  <1> SUFFICES ASSUME WriterInv, [Next]_vars PROVE WriterInv'  OBVIOUS
  <1>1. CASE Push
    <2>1. PICK n \in 1 .. Unoffered : PushHeader(n) \/ PushPayload(n)  BY <1>1 DEF Push
    <2>2. UNCHANGED <<package, flash>> /\ n \in Nat \ {0}  BY <1>1 DEF Push
    <2>3. CASE PushHeader(n)  BY <2>2, <2>3, PushHeaderKeeps
    <2>4. CASE PushPayload(n)  BY <2>2, <2>4, PushPayloadKeeps
    <2> QED  BY <2>1, <2>3, <2>4
  <1>2. CASE Finish  BY <1>2, FinishKeeps
  <1>3. CASE Cancel  BY <1>3, CancelKeeps
  <1>4. CASE Service
    <2>1. UNCHANGED package  BY <1>4 DEF Service
    <2> QED
      BY <1>4, <2>1, ServiceEraseKeeps, ServiceWriteKeeps, ServiceHashKeeps, ServiceReadKeeps
      DEF Service
  <1>5. CASE Decay  BY <1>5, DecayKeeps
  <1>6. CASE Restart  BY <1>6, RestartKeeps
  <1>7. CASE UNCHANGED vars
    <2>1. Shape'  BY <1>7 DEF WriterInv
    <2> QED  BY <1>7, <2>1, QuietKeeps
  <1> QED  BY <1>1, <1>2, <1>3, <1>4, <1>5, <1>6, <1>7 DEF Next

\* The writer reads back in order what it compares, of a package whose header it
\* found good.
THEOREM WriterInvariant == Spec => []WriterInv
  <1>1. Init => WriterInv
    <2> SUFFICES ASSUME Init PROVE WriterInv  OBVIOUS
    <2>1. DOMAIN flash = Cells /\ package \in Packages /\ writer = NewWriter  BY DEF Init
    <2> QED  BY <2>1, FreshKeeps
  <1>2. WriterInv /\ [Next]_vars => WriterInv'  BY WriterStep
  <1> QED  BY <1>1, <1>2, PTL DEF Spec

\* A verified image is whole and in place (ota_staged_writer.cpp:256-274).
THEOREM VerifiedImageComplete == Spec => []VerifiedIsComplete
  <1>1. WriterInv => VerifiedIsComplete
    <2> SUFFICES ASSUME WriterInv, writer.status = "VERIFIED"
                 PROVE  /\ package.header = "good"
                        /\ Length(package.image) = package.declared
                        /\ \A i \in DOMAIN package.image : flash[i] = package.image[i]
      BY DEF VerifiedIsComplete
    <2>1. HeaderGood  BY NotFailed DEF WriterInv, HeaderParsed
    <2>2. writer.readbackHash = package.image /\ Length(package.image) = package.declared
      BY DEF WriterInv, ReadInOrder
    <2>3. PICK n \in 0 .. package.declared :
             writer.readbackHash = [i \in 0 .. n - 1 |-> flash[i]]
      BY DEF WriterInv, ReadInOrder, HashOfCells
    <2>4. \A i \in DOMAIN package.image : flash[i] = package.image[i]  BY <2>2, <2>3
    <2> QED  BY <2>1, <2>2, <2>4 DEF HeaderGood
  <1> QED  BY <1>1, WriterInvariant, PTL
-----------------------------------------------------------------------------
(* The stream: where every byte of an upload is, phase by phase.           *)

Active == {"ERASING", "RECEIVING_PAYLOAD", "READING_BACK", "VERIFIED"}

\* What the whole header check lets through.
HeaderSound ==
    /\ package.header = "good" /\ package.declared \in 1 .. Capacity
    /\ PagesFor(package.declared) <= Capacity

\* What was taken is the header and then the payload.
Account ==
    /\ writer.status \in {"RECEIVING_HEADER"} \cup Active \cup Failures
    /\ writer.headerUsed \in 0 .. HeaderLength
    /\ writer.eraseAddress \in 0 .. Capacity
    /\ writer.payloadReceived \in 0 .. Capacity
    /\ writer.payloadWritten \in 0 .. writer.payloadReceived
    /\ writer.inputFinished \in BOOLEAN
    /\ offered = writer.headerUsed + writer.payloadReceived
    /\ offered <= HeaderLength + Length(package.body)
    /\ writer.payloadReceived # 0 => writer.headerUsed = HeaderLength

\* What was hashed is what was taken, and what is read back is what a cell can hold.
Hashes ==
    /\ writer.streamHash = [i \in 0 .. writer.payloadReceived - 1 |-> package.body[i]]
    /\ \E n \in 0 .. Capacity :
          writer.readbackHash \in Streams(n, Bytes \cup {Erased, Garbage})

\* The staging area and the rest of the world.
Staging ==
    /\ package \in Packages /\ writeErases \in BOOLEAN
    /\ disturbances \in 0 .. MaxDisturbances
    /\ flash \in [Cells -> Bytes \cup {Erased, Garbage}]
    /\ touched \subseteq Cells /\ OnlyDeclaredPagesTouched

\* The page buffer holds what was taken and not written, until the upload fails.
Buffered ==
    /\ writer.status \in Failures => writer.writeBuffer = NoBytes
    /\ writer.status \notin Failures =>
        /\ writer.payloadReceived - writer.payloadWritten <= PageSize
        /\ writer.writeBuffer =
             [i \in 0 .. writer.payloadReceived - writer.payloadWritten - 1 |->
                package.body[writer.payloadWritten + i]]

\* The phases: each is entered with the work of the one before it complete.
Phases ==
    /\ writer.status = "RECEIVING_HEADER" =>
        /\ writer.headerUsed < HeaderLength
        /\ writer.payloadReceived = 0 /\ writer.eraseAddress = 0 /\ ~writer.inputFinished
        /\ writer.headerUsed >= FixedLength =>
             package.header # "bad fixed part" /\ package.declared \in 1 .. Capacity
    /\ writer.status \in Active =>
        /\ writer.headerUsed = HeaderLength /\ HeaderSound
        /\ writer.payloadReceived <= package.declared
        /\ writer.inputFinished => writer.payloadReceived = package.declared
    /\ writer.status = "ERASING" =>
        /\ writer.payloadReceived = 0 /\ writer.eraseAddress <= PagesFor(package.declared)
        /\ \E k \in Nat : writer.eraseAddress = PageSize * k
    /\ writer.status = "RECEIVING_PAYLOAD" =>
        \/ writer.payloadWritten = package.declared
        \/ \E k \in Nat : writer.payloadWritten = PageSize * k
    /\ writer.status \in {"READING_BACK", "VERIFIED"} =>
        writer.payloadWritten = package.declared

\* What the cells hold of an upload that nothing disturbed.
Contents ==
    disturbances = 0 =>
        /\ writer.status = "ERASING" =>
             \A c \in 0 .. writer.eraseAddress - 1 : flash[c] = Erased
        /\ writer.status \in {"RECEIVING_PAYLOAD", "READING_BACK"} =>
             \A c \in 0 .. writer.payloadWritten - 1 : flash[c] = package.body[c]
        /\ writer.status = "RECEIVING_PAYLOAD" /\ ~writeErases =>
             \A c \in writer.payloadWritten .. PagesFor(package.declared) - 1 : flash[c] = Erased

StreamInv ==
    Account /\ Hashes /\ Staging /\ Buffered /\ Phases /\ Contents /\ SoundPackageAccepted
-----------------------------------------------------------------------------
\* Multiples of a page.
LEMMA Multiples ==
    ASSUME NEW p \in Nat \ {0}, NEW a \in Nat, NEW b \in Nat, p * a < p * b
    PROVE  a < b /\ p * a + p <= p * b
  <1>1. ASSUME b <= a PROVE p * b <= p * a  BY <1>1
  <1>2. a < b /\ a + 1 <= b  BY <1>1
  <1>3. p * (a + 1) <= p * b
    <2>1. PICK e \in Nat : b = (a + 1) + e
      <3>1. b = (a + 1) + (b - (a + 1)) /\ b - (a + 1) \in Nat  BY <1>2
      <3> QED  BY <3>1
    <2>2. p * b = p * (a + 1) + p * e  BY <2>1
    <2>3. p * e >= 0 /\ p * (a + 1) \in Nat /\ p * e \in Nat  OBVIOUS
    <2> QED  BY <2>2, <2>3
  <1>4. p * (a + 1) = p * a + p  OBVIOUS
  <1> QED  BY <1>2, <1>3, <1>4

LEMMA Quotient ==
    ASSUME NEW p \in Nat \ {0}, NEW n \in Nat
    PROVE  n \div p \in Nat /\ p * (n \div p) <= n /\ n < p * (n \div p) + p
  OBVIOUS

LEMMA QuotientUnique ==
    ASSUME NEW p \in Nat \ {0}, NEW k \in Nat, NEW c \in p * k .. p * k + p - 1
    PROVE  c \div p = k
  <1> DEFINE q == c \div p
  <1>1. c \in Nat /\ p * k \in Nat  OBVIOUS
  <1>2. q \in Nat /\ p * q \in Nat /\ p * q <= c /\ c < p * q + p  BY <1>1, Quotient
  <1> HIDE DEF q
  <1>3. ASSUME k < q PROVE FALSE
    <2>1. p * k < p * q  BY <1>2, <1>3
    <2>2. p * k + p <= p * q  BY <1>2, <2>1, Multiples
    <2> QED  BY <1>1, <1>2, <2>2
  <1>4. ASSUME q < k PROVE FALSE
    <2>1. p * q < p * k  BY <1>2, <1>4
    <2>2. p * q + p <= p * k  BY <1>2, <2>1, Multiples
    <2> QED  BY <1>1, <1>2, <2>2
  <1> QED  BY <1>2, <1>3, <1>4 DEF q

\* The pages that hold a payload: whole ones, the last of them begun.
LEMMA PagesLemma ==
    ASSUME NEW d \in Nat
    PROVE  /\ PagesFor(d) \in Nat /\ d <= PagesFor(d)
           /\ \E q \in Nat : PagesFor(d) = PageSize * q /\ PageSize * q < d + PageSize
  <1>1. PageSize \in Nat \ {0}  BY LayoutAssumption
  <1> DEFINE n == d + PageSize - 1
             q == n \div PageSize
  <1>2. n \in Nat  BY <1>1
  <1>3. q \in Nat /\ PageSize * q <= n /\ n < PageSize * q + PageSize  BY <1>1, <1>2, Quotient
  <1>4. PagesFor(d) = PageSize * q  BY DEF PagesFor
  <1>5. PageSize * q \in Nat  BY <1>1, <1>3
  <1>6. n = d + PageSize - 1  OBVIOUS
  <1> HIDE DEF n, q
  <1>7. d <= PageSize * q /\ PageSize * q < d + PageSize  BY <1>1, <1>3, <1>5, <1>6
  <1> QED  BY <1>3, <1>4, <1>5, <1>7

\* A payload that fits the staging area has its pages there.
LEMMA PagesFit ==
    ASSUME NEW d \in Nat, d <= Capacity
    PROVE  PagesFor(d) <= Capacity
  <1>1. PageSize \in Nat \ {0} /\ Capacity \in Nat /\ Capacity % PageSize = 0
    BY LayoutAssumption
  <1>2. PICK m \in Nat : Capacity = PageSize * m
    <2>1. Capacity = PageSize * (Capacity \div PageSize) /\ Capacity \div PageSize \in Nat
      BY <1>1
    <2> QED  BY <2>1
  <1>3. PICK q \in Nat : PagesFor(d) = PageSize * q /\ PageSize * q < d + PageSize
    BY PagesLemma
  <1>4. ASSUME PageSize * m < PageSize * q PROVE FALSE
    <2>1. PageSize * m + PageSize <= PageSize * q  BY <1>1, <1>4, Multiples
    <2>2. PageSize * q \in Nat /\ PageSize * m \in Nat  BY <1>1
    <2> QED  BY <1>1, <1>2, <1>3, <2>1, <2>2
  <1>5. PageSize * q \in Nat /\ PageSize * m \in Nat  BY <1>1
  <1> QED  BY <1>2, <1>3, <1>4, <1>5

\* A page begun below the end of the payload's pages is begun in the payload and
\* ends in the staging area.
LEMMA PageInPayload ==
    ASSUME HeaderSound, NEW k \in Nat, PageSize * k < PagesFor(package.declared)
    PROVE  /\ PageSize * k < package.declared
           /\ PageSize * k + PageSize <= PagesFor(package.declared)
           /\ PageSize * k \in Nat
           /\ Page(PageSize * k) \subseteq Cells
           /\ \A c \in Page(PageSize * k) : PageSize * (c \div PageSize) < package.declared
  <1>1. PageSize \in Nat \ {0} /\ Capacity \in Nat  BY LayoutAssumption
  <1> DEFINE d == package.declared
  <1>2. d \in Nat /\ PagesFor(d) <= Capacity  BY <1>1 DEF HeaderSound
  <1>3. PICK q \in Nat : PagesFor(d) = PageSize * q /\ PageSize * q < d + PageSize
    BY <1>2, PagesLemma
  <1>4. PageSize * k \in Nat /\ PageSize * q \in Nat  BY <1>1
  <1>5. PageSize * k + PageSize <= PageSize * q  BY <1>1, <1>3, Multiples
  <1>6. PageSize * k < d  BY <1>1, <1>2, <1>3, <1>4, <1>5
  <1>7. Page(PageSize * k) \subseteq Cells
    BY <1>1, <1>2, <1>3, <1>4, <1>5 DEF Page, Cells
  <1>8. \A c \in Page(PageSize * k) : c \div PageSize = k
    BY <1>1, QuotientUnique DEF Page
  <1> QED  BY <1>3, <1>4, <1>5, <1>6, <1>7, <1>8
-----------------------------------------------------------------------------
\* The next bytes of b, taken behind the n from base on: what Extended() makes.
LEMMA TakeOn ==
    ASSUME NEW b, NEW base \in Nat, NEW n \in Nat, NEW m \in Nat,
           NEW f, \A i \in 0 .. n - 1 : f[i] = b[base + i]
    PROVE  \A i \in 0 .. m - 1 : (IF i < n THEN f[i] ELSE b[base + n + (i - n)]) = b[base + i]
  <1> TAKE i \in 0 .. m - 1
  <1>1. CASE i < n  BY <1>1
  <1>2. CASE ~(i < n)
    <2>1. base + n + (i - n) = base + i  OBVIOUS
    <2> QED  BY <1>2, <2>1
  <1> QED  BY <1>1, <1>2

\* What a package offers are bytes.
LEMMA BodyBytes ==
    ASSUME package \in Packages
    PROVE  /\ package.declared \in Nat /\ Length(package.body) \in Nat
           /\ package.body = [i \in 0 .. Length(package.body) - 1 |-> package.body[i]]
           /\ DOMAIN package.body = 0 .. Length(package.body) - 1
           /\ \A i \in 0 .. Length(package.body) - 1 : package.body[i] \in Bytes
           /\ package.header \in {"good", "bad fixed part", "bad variable part"}
  <1>1. IsPackage(package)  BY PackageAssumption
  <1>2. /\ package.declared \in Nat /\ Length(package.body) \in Nat
        /\ package.header \in {"good", "bad fixed part", "bad variable part"}
    BY <1>1 DEF IsPackage
  <1>3. package.body = [i \in 0 .. Length(package.body) - 1 |-> package.body[i]]
    BY <1>1 DEF IsPackage
  <1>4. DOMAIN package.body = 0 .. Length(package.body) - 1  BY <1>3
  <1>5. \A i \in DOMAIN package.body : package.body[i] \in Bytes  BY DEF Bytes
  <1> QED  BY <1>2, <1>3, <1>4, <1>5

\* The sizes.
LEMMA Sizes ==
    /\ PageSize \in Nat /\ 0 < PageSize /\ Capacity \in Nat
    /\ HeaderLength \in Nat /\ FixedLength \in Nat /\ MaxDisturbances \in Nat
    /\ 0 < FixedLength /\ FixedLength < HeaderLength
  BY LayoutAssumption, DisturbanceAssumption, HeaderLengths

\* A writer that failed has dropped its buffer, and no sound upload fails.
LEMMA FailureEnds ==
    ASSUME Account', Hashes', Staging', writer'.status \in Failures,
           writer'.writeBuffer = NoBytes, ~(Sound(package') /\ disturbances' = 0)
    PROVE  StreamInv'
  <1>1. writer'.status \notin {"RECEIVING_HEADER"} \cup Active
    BY NotFailed DEF Active
  <1>2. Buffered' /\ SoundPackageAccepted'
    BY DEF Buffered, SoundPackageAccepted, Sound, Length
  <1>3. Phases' /\ Contents'  BY <1>1 DEF Phases, Contents, Active
  <1> QED  BY <1>2, <1>3 DEF StreamInv

\* The fields of a writer that fails.
LEMMA FailedFields ==
    ASSUME WriterInv, NEW s \in Failures, writer' = Failed(writer, s)
    PROVE  /\ writer'.status = s /\ writer'.writeBuffer = NoBytes /\ writer'.inputFinished = TRUE
           /\ writer'.headerUsed = writer.headerUsed
           /\ writer'.eraseAddress = writer.eraseAddress
           /\ writer'.payloadReceived = writer.payloadReceived
           /\ writer'.payloadWritten = writer.payloadWritten
           /\ writer'.streamHash = writer.streamHash
           /\ writer'.readbackHash = writer.readbackHash
  BY DEF WriterInv, Failed

\* An upload that fails where it stands.
LEMMA FailsInPlace ==
    ASSUME WriterInv, StreamInv, NEW s \in Failures, writer' = Failed(writer, s),
           UNCHANGED <<package, offered>>, Staging', ~(Sound(package) /\ disturbances' = 0)
    PROVE  StreamInv'
  <1>1. /\ writer'.status = s /\ writer'.writeBuffer = NoBytes /\ writer'.inputFinished = TRUE
        /\ writer'.headerUsed = writer.headerUsed
        /\ writer'.eraseAddress = writer.eraseAddress
        /\ writer'.payloadReceived = writer.payloadReceived
        /\ writer'.payloadWritten = writer.payloadWritten
        /\ writer'.streamHash = writer.streamHash
        /\ writer'.readbackHash = writer.readbackHash
    BY FailedFields
  <1>2. Account'  BY <1>1 DEF StreamInv, Account, Length
  <1>3. Hashes'  BY <1>1 DEF StreamInv, Hashes
  <1> QED  BY <1>1, <1>2, <1>3, FailureEnds DEF Sound, Length
-----------------------------------------------------------------------------
\* What a step leaves alone stays as it was.
LEMMA StagingStays ==
    ASSUME StreamInv, UNCHANGED <<package, writeErases, flash, disturbances, touched>>
    PROVE  Staging'
  BY DEF StreamInv, Staging, OnlyDeclaredPagesTouched

\* A sound package, header and payload.
LEMMA SoundFields ==
    ASSUME Staging, Sound(package)
    PROVE  /\ package.header = "good" /\ package.declared \in 1 .. Capacity
           /\ package.body = package.image /\ Length(package.body) = package.declared
           /\ PagesFor(package.declared) <= Capacity
  BY Sizes, PagesFit DEF Sound

\* No check of the header refuses a sound package.
LEMMA SoundHeader ==
    ASSUME Staging, Sound(package), NEW used
    PROVE  HeaderVerdict(used) \in {"RECEIVING_HEADER", "RECEIVING_PAYLOAD", "ERASING"}
  <1>1. package.header = "good" /\ package.declared # 0 /\ ~(package.declared > Capacity)
        /\ ~(PagesFor(package.declared) > Capacity)
    <2>1. package.declared \in Nat /\ PagesFor(package.declared) \in Nat /\ Capacity \in Nat
      BY Sizes, BodyBytes, PagesLemma DEF Staging
    <2> QED  BY <2>1, SoundFields
  <1>2. package.header # "bad fixed part" /\ package.header # "bad variable part"  BY <1>1
  <1> QED  BY <1>1, <1>2 DEF HeaderVerdict

\* While the header comes in there is no payload.
LEMMA NoPayloadYet ==
    ASSUME StreamInv, writer.status = "RECEIVING_HEADER"
    PROVE  /\ writer.headerUsed \in Nat /\ writer.headerUsed < HeaderLength
           /\ writer.payloadReceived = 0 /\ writer.payloadWritten = 0
           /\ writer.eraseAddress = 0 /\ writer.inputFinished = FALSE
           /\ offered = writer.headerUsed
           /\ writer.writeBuffer = NoBytes /\ writer.streamHash = NoBytes
  <1>1. /\ writer.headerUsed \in Nat /\ writer.headerUsed < HeaderLength
        /\ writer.payloadReceived = 0 /\ writer.eraseAddress = 0
        /\ writer.inputFinished = FALSE
    <2>1. /\ writer.headerUsed < HeaderLength
          /\ writer.payloadReceived = 0 /\ writer.eraseAddress = 0 /\ ~writer.inputFinished
      BY DEF StreamInv, Phases
    <2>2. writer.headerUsed \in 0 .. HeaderLength /\ writer.inputFinished \in BOOLEAN
      BY DEF StreamInv, Account
    <2> QED  BY <2>1, <2>2, Sizes
  <1>2. writer.payloadWritten = 0  BY <1>1 DEF StreamInv, Account
  <1>3. offered = writer.headerUsed  BY <1>1 DEF StreamInv, Account
  <1>4. writer.streamHash = NoBytes
    <2>1. 0 .. 0 - 1 = {}  OBVIOUS
    <2> QED  BY <1>1, <2>1 DEF StreamInv, Hashes, NoBytes
  <1>5. writer.writeBuffer = NoBytes
    <2>1. 0 .. 0 - 0 - 1 = {}  OBVIOUS
    <2> QED  BY <1>1, <1>2, <2>1, NotFailed DEF StreamInv, Buffered, NoBytes
  <1> QED  BY <1>1, <1>2, <1>3, <1>4, <1>5

\* An empty stream, however it is written.
LEMMA NothingTaken ==
    /\ NoBytes = [i \in 0 .. 0 - 1 |-> package.body[i]]
    /\ NoBytes = [i \in 0 .. 0 - 0 - 1 |-> package.body[0 + i]]
  <1>1. 0 .. 0 - 1 = {} /\ 0 .. 0 - 0 - 1 = {}  OBVIOUS
  <1> QED  BY <1>1 DEF NoBytes

\* A writer without payload: what is left to show is its phase.
LEMMA WithoutPayload ==
    ASSUME StreamInv, UNCHANGED package, Staging',
           writer'.status \in {"RECEIVING_HEADER", "ERASING", "RECEIVING_PAYLOAD"},
           writer'.headerUsed \in 0 .. HeaderLength, writer'.eraseAddress \in 0 .. Capacity,
           writer'.payloadReceived = 0, writer'.payloadWritten = 0,
           writer'.writeBuffer = NoBytes, writer'.streamHash = NoBytes,
           writer'.readbackHash = writer.readbackHash, writer'.inputFinished = FALSE,
           offered' = writer'.headerUsed, offered' <= HeaderLength + Length(package.body)
    PROVE  Account' /\ Hashes' /\ Buffered' /\ SoundPackageAccepted'
  <1>1. Account'
    <2>1. /\ 0 \in 0 .. Capacity /\ 0 \in 0 .. 0
          /\ writer'.headerUsed = writer'.headerUsed + 0
      BY Sizes
    <2>2. writer'.status \in {"RECEIVING_HEADER"} \cup Active \cup Failures  BY DEF Active
    <2> QED  BY <2>1, <2>2 DEF Account
  <1>2. Hashes'
    <2>1. writer'.streamHash = [i \in 0 .. writer'.payloadReceived - 1 |-> package'.body[i]]
      BY NothingTaken
    <2>2. \E k \in 0 .. Capacity :
             writer'.readbackHash \in Streams(k, Bytes \cup {Erased, Garbage})
      BY DEF StreamInv, Hashes
    <2> QED  BY <2>1, <2>2 DEF Hashes
  <1>3. writer'.status \notin Failures  BY NotFailed
  <1>4. Buffered'
    <2>1. writer'.payloadReceived - writer'.payloadWritten <= PageSize  BY Sizes
    <2>2. writer'.writeBuffer
            = [i \in 0 .. writer'.payloadReceived - writer'.payloadWritten - 1 |->
                 package'.body[writer'.payloadWritten + i]]
      BY NothingTaken
    <2> QED  BY <1>3, <2>1, <2>2 DEF Buffered
  <1>5. SoundPackageAccepted'  BY <1>3 DEF SoundPackageAccepted
  <1> QED  BY <1>1, <1>2, <1>4, <1>5

\* What the header check says of a header that it does not refuse.
LEMMA VerdictGoesOn ==
    ASSUME NEW used, HeaderVerdict(used) \notin Failures
    PROVE  HeaderVerdict(used) \in {"RECEIVING_HEADER", "ERASING", "RECEIVING_PAYLOAD"}
  <1>1. CASE used # HeaderLength
    <2>1. HeaderVerdict(used) = "RECEIVING_HEADER"  BY <1>1 DEF HeaderVerdict, Failures
    <2> QED  BY <2>1
  <1>2. CASE used = HeaderLength
    <2>1. used # FixedLength  BY <1>2, Sizes
    <2> QED  BY <1>2, <2>1 DEF HeaderVerdict, Failures
  <1> QED  BY <1>1, <1>2

\* What was left to offer is not overrun.
LEMMA HeaderRoom ==
    ASSUME NEW h \in Nat, NEW l \in Nat, NEW u \in Nat, NEW n \in Nat, NEW v \in Nat,
           n <= h + l - u, v <= u + n
    PROVE  v <= h + l
  OBVIOUS

\* Header bytes: the writer goes on, or refuses what no sound package holds.
LEMMA PushHeaderAccounts ==
    ASSUME WriterInv, StreamInv, NEW n \in Nat \ {0},
           n <= HeaderLength + Length(package.body) - offered, PushHeader(n),
           UNCHANGED <<package, writeErases, flash, disturbances, touched>>
    PROVE  StreamInv'
  <1> DEFINE part == IF writer.headerUsed < FixedLength THEN FixedLength ELSE HeaderLength
             used == Lesser(writer.headerUsed + n, part)
             w == [writer EXCEPT !.headerUsed = used]
             verdict == HeaderVerdict(used)
  <1>1. /\ writer.status = "RECEIVING_HEADER"
        /\ writer' = To(w, verdict) /\ offered' = offered + used - writer.headerUsed
    BY DEF PushHeader
  <1>2. /\ writer.headerUsed \in Nat /\ writer.headerUsed < HeaderLength
        /\ writer.payloadReceived = 0 /\ writer.payloadWritten = 0
        /\ writer.eraseAddress = 0 /\ writer.inputFinished = FALSE
        /\ offered = writer.headerUsed
        /\ writer.writeBuffer = NoBytes /\ writer.streamHash = NoBytes
    BY <1>1, NoPayloadYet
  <1>3. Staging' /\ package \in Packages  BY StagingStays DEF StreamInv, Staging
  <1>4. /\ package.declared \in Nat /\ Length(package.body) \in Nat
        /\ package.header \in {"good", "bad fixed part", "bad variable part"}
    BY <1>3, BodyBytes
  <1>5. n \in Nat \ {0} /\ n <= HeaderLength + Length(package.body) - writer.headerUsed
    BY <1>2
  <1>6. /\ used \in Nat /\ used <= HeaderLength /\ used <= writer.headerUsed + n
        /\ used > FixedLength => writer.headerUsed >= FixedLength
    <2>1. used <= writer.headerUsed + n  BY <1>2, <1>5, Sizes DEF Lesser
    <2> QED  BY <1>2, <1>5, <2>1, PartBounds
  <1>7. /\ w.status = writer.status /\ w.headerUsed = used
        /\ w.eraseAddress = 0 /\ w.payloadReceived = 0 /\ w.payloadWritten = 0
        /\ w.writeBuffer = NoBytes /\ w.inputFinished = FALSE /\ w.streamHash = NoBytes
        /\ w.readbackHash = writer.readbackHash
        /\ w = [status |-> w.status, headerUsed |-> w.headerUsed,
                eraseAddress |-> w.eraseAddress, payloadReceived |-> w.payloadReceived,
                payloadWritten |-> w.payloadWritten, writeBuffer |-> w.writeBuffer,
                inputFinished |-> w.inputFinished, streamHash |-> w.streamHash,
                readbackHash |-> w.readbackHash]
    BY <1>2 DEF WriterInv
  <1> HIDE DEF w, used
  <1>8. offered' = used /\ used <= HeaderLength + Length(package.body)
        /\ used \in 0 .. HeaderLength /\ 0 \in 0 .. Capacity
    <2>1. used \in 0 .. HeaderLength  BY <1>6, Sizes
    <2>2. writer.headerUsed + used - writer.headerUsed = used  BY <1>2, <1>6
    <2>3. used <= HeaderLength + Length(package.body)
      <3>1. HeaderLength \in Nat  BY Sizes
      <3>2. Length(package.body) \in Nat  BY <1>4
      <3>3. writer.headerUsed \in Nat  BY <1>2
      <3>4. n \in Nat  BY <1>5
      <3>5. used \in Nat  BY <1>6
      <3>6. n <= HeaderLength + Length(package.body) - writer.headerUsed  BY <1>5
      <3>7. used <= writer.headerUsed + n  BY <1>6
      <3> QED  BY <3>1, <3>2, <3>3, <3>4, <3>5, <3>6, <3>7, HeaderRoom
    <2>4. 0 \in 0 .. Capacity  BY Sizes
    <2> QED  BY <1>1, <1>2, <2>1, <2>2, <2>3, <2>4
  <1>9. CASE verdict \in Failures
    <2>1. writer' = Failed(w, verdict)  BY <1>1, <1>9 DEF To
    <2>2. /\ writer'.status = verdict /\ writer'.headerUsed = used
          /\ writer'.eraseAddress = 0 /\ writer'.payloadReceived = 0
          /\ writer'.payloadWritten = 0 /\ writer'.writeBuffer = NoBytes
          /\ writer'.inputFinished = TRUE /\ writer'.streamHash = NoBytes
          /\ writer'.readbackHash = writer.readbackHash
      BY <1>7, <2>1 DEF Failed
    <2>3. Account'
      <3>1. 0 \in 0 .. 0 /\ used = used + 0  BY <1>6
      <3> QED  BY <1>8, <1>9, <2>2, <3>1 DEF Account
    <2>4. Hashes'
      <3>1. writer'.streamHash = [i \in 0 .. writer'.payloadReceived - 1 |-> package'.body[i]]
        BY <2>2, NothingTaken
      <3> QED  BY <2>2, <3>1 DEF StreamInv, Hashes
    <2>5. ~Sound(package)
      <3>1. Sound(package) =>
              verdict \in {"RECEIVING_HEADER", "RECEIVING_PAYLOAD", "ERASING"}
        BY SoundHeader DEF StreamInv
      <3> QED  BY <1>9, <3>1, NotFailed
    <2> QED  BY <1>3, <1>9, <2>2, <2>3, <2>4, <2>5, FailureEnds DEF Sound
  <1>10. CASE verdict \notin Failures
    <2>1. writer' = [w EXCEPT !.status = verdict]  BY <1>1, <1>10 DEF To
    <2>2. /\ writer'.status = verdict /\ writer'.headerUsed = used
          /\ writer'.eraseAddress = 0 /\ writer'.payloadReceived = 0
          /\ writer'.payloadWritten = 0 /\ writer'.writeBuffer = NoBytes
          /\ writer'.inputFinished = FALSE /\ writer'.streamHash = NoBytes
          /\ writer'.readbackHash = writer.readbackHash
      BY <1>7, <2>1
    <2>3. verdict \in {"RECEIVING_HEADER", "ERASING", "RECEIVING_PAYLOAD"}
      BY <1>10, VerdictGoesOn
    <2>4. Account' /\ Hashes' /\ Buffered' /\ SoundPackageAccepted'
      BY <1>3, <1>8, <2>2, <2>3, WithoutPayload
    <2>5. CASE used = HeaderLength
      <3>1. used # FixedLength /\ used > FixedLength  BY Sizes, <2>5
      <3>2. /\ package.header # "bad variable part"
            /\ ~(PagesFor(package.declared) > Capacity)
            /\ verdict = IF writeErases THEN "RECEIVING_PAYLOAD" ELSE "ERASING"
        BY <1>10, <2>5, <3>1 DEF HeaderVerdict, Failures
      <3>3. package.header # "bad fixed part" /\ package.declared \in 1 .. Capacity
        BY <1>1, <1>6, <3>1 DEF StreamInv, Phases
      <3>4. HeaderSound
        <4>1. PagesFor(package.declared) \in Nat  BY <1>4, PagesLemma
        <4>2. PagesFor(package.declared) <= Capacity  BY <3>2, <4>1, Fits
        <4> QED  BY <1>4, <3>2, <3>3, <4>2 DEF HeaderSound
      <3>5. HeaderSound'  BY <3>4 DEF HeaderSound, PagesFor
      <3>6. /\ 0 <= package.declared /\ 0 <= PagesFor(package.declared)
            /\ 0 \in Nat /\ 0 = PageSize * 0
        <4>1. PagesFor(package.declared) \in Nat  BY <1>4, PagesLemma
        <4>2. \A m \in Nat : 0 <= m /\ 0 = m * 0  OBVIOUS
        <4> QED  BY <1>4, <4>1, <4>2, Sizes
      <3>7. PagesFor(package'.declared) = PagesFor(package.declared)  BY DEF PagesFor
      <3>8. \E k \in Nat : 0 = PageSize * k  BY <3>6
      <3>9. verdict \in {"ERASING", "RECEIVING_PAYLOAD"}  BY <3>2
      <3>10. Phases'
        BY <2>2, <2>5, <3>5, <3>6, <3>7, <3>8, <3>9 DEF Phases, Active
      <3>11. \A c \in 0 .. 0 - 1 : FALSE  OBVIOUS
      <3>12. verdict = "RECEIVING_PAYLOAD" => writeErases = TRUE
        BY <3>2 DEF StreamInv, Staging
      <3>13. Contents'  BY <2>2, <3>9, <3>11, <3>12 DEF Contents
      <3> QED  BY <1>3, <2>4, <3>10, <3>13 DEF StreamInv
    <2>6. CASE used # HeaderLength
      <3>1. used < HeaderLength  BY <1>6, <2>6, Sizes
      <3>2. /\ verdict = "RECEIVING_HEADER"
            /\ used = FixedLength =>
                 /\ package.header # "bad fixed part"
                 /\ package.declared # 0 /\ ~(package.declared > Capacity)
        BY <1>10, <2>6 DEF HeaderVerdict, Failures
      <3>3. used >= FixedLength => used = FixedLength \/ used > FixedLength
        BY <1>6, Sizes
      <3>4. used > FixedLength =>
               package.header # "bad fixed part" /\ package.declared \in 1 .. Capacity
        BY <1>1, <1>6 DEF StreamInv, Phases
      <3>5. used = FixedLength =>
               package.header # "bad fixed part" /\ package.declared \in 1 .. Capacity
        <4>1. \A d \in Nat : d # 0 /\ d <= Capacity => d \in 1 .. Capacity
          BY CapacityNat
        <4> QED  BY <1>4, <3>2, <4>1, Fits
      <3>6. Phases'
        BY <2>2, <3>1, <3>2, <3>3, <3>4, <3>5 DEF Phases, Active
      <3>7. Contents'  BY <2>2, <3>2 DEF Contents
      <3> QED  BY <1>3, <2>4, <3>6, <3>7 DEF StreamInv
    <2> QED  BY <2>5, <2>6
  <1> QED  BY <1>9, <1>10

\* The bounds of a payload that is coming in.
LEMMA PayloadBounds ==
    ASSUME StreamInv, writer.status \in Active
    PROVE  /\ package \in Packages /\ package.header = "good" /\ HeaderSound
           /\ package.declared \in Nat /\ package.declared <= Capacity /\ 0 < package.declared
           /\ Length(package.body) \in Nat
           /\ writer.payloadReceived \in Nat /\ writer.payloadWritten \in Nat
           /\ writer.payloadWritten <= writer.payloadReceived
           /\ writer.payloadReceived <= package.declared
           /\ writer.payloadReceived - writer.payloadWritten <= PageSize
           /\ writer.headerUsed = HeaderLength
           /\ offered = HeaderLength + writer.payloadReceived
  <1>1. package \in Packages  BY DEF StreamInv, Staging
  <1>2. writer.headerUsed = HeaderLength /\ HeaderSound
        /\ writer.payloadReceived <= package.declared
    BY DEF StreamInv, Phases
  <1>3. package.declared \in Nat /\ package.declared <= Capacity /\ 0 < package.declared
        /\ package.header = "good"
    BY <1>2, Sizes DEF HeaderSound
  <1>4. writer.payloadReceived \in 0 .. Capacity
        /\ writer.payloadWritten \in 0 .. writer.payloadReceived
        /\ offered = writer.headerUsed + writer.payloadReceived
    BY DEF StreamInv, Account
  <1>5. writer.payloadReceived \in Nat /\ writer.payloadWritten \in Nat
        /\ writer.payloadWritten <= writer.payloadReceived
    BY <1>4, Sizes
  <1>6. writer.payloadReceived - writer.payloadWritten <= PageSize
    BY NotFailed DEF StreamInv, Buffered, Active
  <1> QED  BY <1>1, <1>2, <1>3, <1>4, <1>5, <1>6, BodyBytes

\* The length of what is buffered.
LEMMA BufferLength ==
    ASSUME StreamInv, writer.status \in Active
    PROVE  /\ writer.writeBuffer = [i \in 0 .. writer.payloadReceived - writer.payloadWritten - 1 |->
                                      package.body[writer.payloadWritten + i]]
           /\ Length(writer.writeBuffer) = writer.payloadReceived - writer.payloadWritten
  <1> DEFINE m == writer.payloadReceived - writer.payloadWritten
  <1>1. m \in Nat  BY PayloadBounds
  <1>2. writer.writeBuffer = [i \in 0 .. m - 1 |-> package.body[writer.payloadWritten + i]]
    BY NotFailed DEF StreamInv, Buffered, Active
  <1> HIDE DEF m
  <1>3. DOMAIN writer.writeBuffer = 0 .. m - 1  BY <1>2
  <1>4. Length(writer.writeBuffer) = m  BY <1>1, <1>3, StreamLength
  <1> QED  BY <1>2, <1>4 DEF m

\* bytes, and behind them the next k of the payload: Extended() as push() uses it.
Onto(bytes, k) ==
    [i \in 0 .. Length(bytes) + k - 1 |->
        IF i < Length(bytes) THEN bytes[i]
        ELSE package.body[offered - HeaderLength + (i - Length(bytes))]]

\* What one push() adds to the payload.
LEMMA Taking ==
    ASSUME StreamInv, writer.status = "RECEIVING_PAYLOAD", NEW n \in Nat
    PROVE  /\ Take(n) \in Nat /\ Take(n) <= n /\ writer.payloadReceived + Take(n) \in Nat
           /\ writer.payloadReceived + Take(n) <= package.declared
           /\ writer.payloadWritten <= writer.payloadReceived + Take(n)
           /\ (writer.payloadReceived + Take(n)) - writer.payloadWritten <= PageSize
           /\ Onto(writer.writeBuffer, Take(n))
                = [i \in 0 .. (writer.payloadReceived + Take(n)) - writer.payloadWritten - 1 |->
                     package.body[writer.payloadWritten + i]]
           /\ Onto(writer.streamHash, Take(n))
                = [i \in 0 .. (writer.payloadReceived + Take(n)) - 1 |-> package.body[i]]
  <1> DEFINE r == writer.payloadReceived
             w == writer.payloadWritten
             d == package.declared
             b == package.body
             k == Take(n)
             buffer == Onto(writer.writeBuffer, k)
             hash == Onto(writer.streamHash, k)
  <1>1. writer.status \in Active  BY DEF Active
  <1>2. /\ d \in Nat /\ r \in Nat /\ w \in Nat /\ w <= r /\ r <= d /\ r - w <= PageSize
        /\ offered = HeaderLength + r
    BY <1>1, PayloadBounds
  <1>3. writer.writeBuffer = [i \in 0 .. (r - w) - 1 |-> b[w + i]]
        /\ Length(writer.writeBuffer) = r - w
    BY <1>1, BufferLength
  <1>4. writer.streamHash = [i \in 0 .. r - 1 |-> b[i]]  BY DEF StreamInv, Hashes
  <1> HIDE DEF r, w, d, b, k, buffer, hash
  <1>5. k = Lesser(n, Lesser(PageSize - (r - w), d - r))  BY <1>3 DEF Take, r, d, k
  <1>6. /\ k \in Nat /\ k <= n /\ r + k <= d /\ (r + k) - w <= PageSize
        /\ r + k \in Nat /\ w <= r + k /\ (r + k) - w = (r - w) + k
    <2>1. PageSize \in Nat  BY Sizes
    <2> QED  BY <1>2, <1>5, <2>1 DEF Lesser
  <1>7. offered - HeaderLength = r /\ r = w + (r - w) /\ r - w \in Nat  BY <1>2, Sizes
  <1>8. buffer = [i \in 0 .. ((r + k) - w) - 1 |-> b[w + i]]
    <2> DEFINE f == writer.writeBuffer
               n1 == r - w
               m1 == (r + k) - w
    <2>1. \A i \in 0 .. n1 - 1 : f[i] = b[w + i]  BY <1>3
    <2>2. buffer = [i \in 0 .. n1 + k - 1 |-> IF i < n1 THEN f[i] ELSE b[r + (i - n1)]]
      BY <1>3, <1>7 DEF b, Onto, buffer
    <2>3. m1 = n1 + k /\ k \in Nat /\ n1 \in Nat /\ m1 \in Nat /\ r = w + n1  BY <1>6, <1>7
    <2> HIDE DEF f, n1, m1
    <2>4. \A i \in 0 .. m1 - 1 : (IF i < n1 THEN f[i] ELSE b[w + n1 + (i - n1)]) = b[w + i]
      <3>1. w \in Nat /\ n1 \in Nat /\ m1 \in Nat  BY <1>2, <2>3
      <3> QED  BY <2>1, <3>1, TakeOn
    <2>5. 0 .. n1 + k - 1 = 0 .. m1 - 1  BY <2>3
    <2>6. \A i \in 0 .. m1 - 1 : buffer[i] = b[w + i]
      <3> TAKE i \in 0 .. m1 - 1
      <3>1. i \in 0 .. n1 + k - 1  BY <2>5
      <3>2. buffer[i] = IF i < n1 THEN f[i] ELSE b[r + (i - n1)]  BY <2>2, <3>1
      <3> QED  BY <2>3, <2>4, <3>2
    <2>7. DOMAIN buffer = 0 .. m1 - 1 /\ buffer = [i \in DOMAIN buffer |-> buffer[i]]
      BY <2>2, <2>5
    <2>8. buffer = [i \in 0 .. m1 - 1 |-> b[w + i]]  BY <2>6, <2>7
    <2> QED  BY <2>8 DEF m1
  <1>9. hash = [i \in 0 .. (r + k) - 1 |-> b[i]]
    <2> DEFINE f == writer.streamHash
               m1 == r + k
    <2>1. Length(f) = r
      <3>1. DOMAIN f = 0 .. r - 1  BY <1>4
      <3> QED  BY <1>2, <3>1, StreamLength
    <2>2. \A i \in 0 .. r - 1 : f[i] = b[0 + i]
      <3>1. \A i \in 0 .. r - 1 : f[i] = b[i] /\ 0 + i = i  BY <1>4
      <3> QED  BY <3>1
    <2>3. hash = [i \in 0 .. r + k - 1 |-> IF i < r THEN f[i] ELSE b[r + (i - r)]]
      BY <1>7, <2>1 DEF b, Onto, hash
    <2>4. m1 = r + k /\ r \in Nat /\ k \in Nat /\ m1 \in Nat /\ 0 + r = r /\ 0 \in Nat  BY <1>2, <1>6
    <2> HIDE DEF f, m1
    <2>5. \A i \in 0 .. m1 - 1 : (IF i < r THEN f[i] ELSE b[0 + r + (i - r)]) = b[0 + i]
      BY <1>2, <2>2, <2>4, TakeOn
    <2>6. \A i \in 0 .. m1 - 1 : hash[i] = b[i]
      <3> TAKE i \in 0 .. m1 - 1
      <3>1. i \in 0 .. r + k - 1 /\ 0 + i = i  BY <2>4
      <3>2. hash[i] = IF i < r THEN f[i] ELSE b[r + (i - r)]  BY <2>3, <3>1
      <3> QED  BY <2>4, <2>5, <3>1, <3>2
    <2>7. DOMAIN hash = 0 .. m1 - 1 /\ hash = [i \in DOMAIN hash |-> hash[i]]
      BY <2>3, <2>4
    <2>8. hash = [i \in 0 .. m1 - 1 |-> b[i]]  BY <2>6, <2>7
    <2> QED  BY <2>8 DEF m1
  <1> QED  BY <1>6, <1>8, <1>9 DEF r, w, d, b, k, buffer, hash

\* Payload bytes: into the page buffer and the hash, and none behind the end.
LEMMA PushPayloadAccounts ==
    ASSUME WriterInv, StreamInv, NEW n \in Nat \ {0},
           n <= HeaderLength + Length(package.body) - offered, PushPayload(n),
           UNCHANGED <<package, writeErases, flash, disturbances, touched>>
    PROVE  StreamInv'
  <1> DEFINE k == Take(n)
             data(i) == package.body[offered - HeaderLength + i]
             taken == [writer EXCEPT
                         !.payloadReceived = @ + k,
                         !.writeBuffer = Extended(@, k, data),
                         !.streamHash = Extended(@, k, data)]
             trailing == k < n /\ taken.payloadReceived = package.declared
  <1>1. /\ writer.status = "RECEIVING_PAYLOAD" /\ ~writer.inputFinished
        /\ writer' = IF trailing THEN Failed(taken, "TRAILING_DATA") ELSE taken
        /\ offered' = offered + k
    BY DEF PushPayload, Receiving
  <1>2. /\ taken.status = writer.status /\ taken.headerUsed = writer.headerUsed
        /\ taken.eraseAddress = writer.eraseAddress
        /\ taken.payloadReceived = writer.payloadReceived + k
        /\ taken.payloadWritten = writer.payloadWritten
        /\ taken.inputFinished = writer.inputFinished
        /\ taken.readbackHash = writer.readbackHash
    BY DEF WriterInv
  <1>3. taken.writeBuffer = Onto(writer.writeBuffer, k)
        /\ taken.streamHash = Onto(writer.streamHash, k)
    BY DEF WriterInv, Extended, Onto
  <1>4. taken = [writer EXCEPT !.payloadReceived = taken.payloadReceived,
                               !.writeBuffer = taken.writeBuffer,
                               !.streamHash = taken.streamHash]
    BY DEF WriterInv
  <1> HIDE DEF taken
  <1>5. n \in Nat  OBVIOUS
  <1>7. /\ k \in Nat /\ k <= n /\ writer.payloadReceived + k \in Nat
        /\ writer.payloadReceived + k <= package.declared
        /\ writer.payloadWritten <= writer.payloadReceived + k
        /\ (writer.payloadReceived + k) - writer.payloadWritten <= PageSize
        /\ taken.writeBuffer
             = [i \in 0 .. (writer.payloadReceived + k) - writer.payloadWritten - 1 |->
                  package.body[writer.payloadWritten + i]]
        /\ taken.streamHash
             = [i \in 0 .. (writer.payloadReceived + k) - 1 |-> package.body[i]]
    BY <1>1, <1>3, <1>5, Taking
  <1>8. /\ package \in Packages /\ HeaderSound
        /\ package.declared \in Nat /\ package.declared <= Capacity
        /\ Length(package.body) \in Nat
        /\ writer.payloadReceived \in Nat /\ writer.payloadWritten \in Nat
        /\ writer.headerUsed = HeaderLength
        /\ offered = HeaderLength + writer.payloadReceived
    BY <1>1, PayloadBounds DEF Active
  <1>9. Staging'  BY StagingStays
  <1> DEFINE r == writer.payloadReceived + k
  <1>10. /\ r \in 0 .. Capacity /\ writer.payloadWritten \in 0 .. r
         /\ offered' = HeaderLength + r /\ offered' <= HeaderLength + Length(package.body)
         /\ k < n => r < Length(package.body)
    <2>1. HeaderLength \in Nat /\ Capacity \in Nat  BY Sizes
    <2>2. r \in Nat /\ r <= package.declared /\ writer.payloadWritten <= r  BY <1>7
    <2>3. offered' = HeaderLength + r  BY <1>1, <1>7, <1>8, <2>1
    <2>4. k <= n /\ k \in Nat /\ n <= Length(package.body) - writer.payloadReceived
      BY <1>7, <1>8, <2>1
    <2>5. r <= Length(package.body) /\ (k < n => r < Length(package.body))
      BY <1>8, <2>4
    <2> QED  BY <1>8, <2>1, <2>2, <2>3, <2>5
  <1> HIDE DEF r
  <1>11. ASSUME /\ writer'.headerUsed = taken.headerUsed
                /\ writer'.eraseAddress = taken.eraseAddress
                /\ writer'.payloadReceived = taken.payloadReceived
                /\ writer'.payloadWritten = taken.payloadWritten
                /\ writer'.streamHash = taken.streamHash
                /\ writer'.readbackHash = taken.readbackHash
                /\ writer'.inputFinished \in BOOLEAN
                /\ writer'.status \in {"RECEIVING_PAYLOAD", "TRAILING_DATA"}
         PROVE  Account' /\ Hashes'
    <2>1. Account'
      <3>1. writer'.status \in {"RECEIVING_HEADER"} \cup Active \cup Failures
        BY <1>11 DEF Active, Failures
      <3>2. /\ writer'.headerUsed = HeaderLength /\ writer'.payloadReceived = r
            /\ writer'.payloadWritten = writer.payloadWritten
            /\ writer'.eraseAddress \in 0 .. Capacity
        BY <1>2, <1>8, <1>11 DEF StreamInv, Account, r
      <3>3. HeaderLength \in 0 .. HeaderLength  BY Sizes
      <3> QED  BY <1>10, <1>11, <3>1, <3>2, <3>3 DEF Account
    <2>2. Hashes'
      <3>1. writer'.streamHash = [i \in 0 .. writer'.payloadReceived - 1 |-> package'.body[i]]
        BY <1>2, <1>7, <1>11
      <3>2. writer'.readbackHash = writer.readbackHash  BY <1>2, <1>11
      <3> QED  BY <3>1, <3>2 DEF StreamInv, Hashes
    <2> QED  BY <2>1, <2>2
  <1>12. CASE trailing
    <2>1. writer' = Failed(taken, "TRAILING_DATA")  BY <1>1, <1>12
    <2>2. /\ writer'.status = "TRAILING_DATA" /\ writer'.writeBuffer = NoBytes
          /\ writer'.inputFinished = TRUE /\ writer'.headerUsed = taken.headerUsed
          /\ writer'.eraseAddress = taken.eraseAddress
          /\ writer'.payloadReceived = taken.payloadReceived
          /\ writer'.payloadWritten = taken.payloadWritten
          /\ writer'.streamHash = taken.streamHash
          /\ writer'.readbackHash = taken.readbackHash
      BY <1>2, <1>4, <2>1 DEF Failed, WriterInv
    <2>3. Account' /\ Hashes'  BY <1>11, <2>2
    <2>4. Length(package.body) # package.declared
      <3>1. k < n /\ r = package.declared  BY <1>2, <1>12 DEF r
      <3> QED  BY <1>8, <1>10, <3>1
    <2>5. ~Sound(package)  BY <2>4 DEF Sound
    <2> QED  BY <1>9, <2>2, <2>3, <2>5, FailureEnds DEF Sound, Failures
  <1>13. CASE ~trailing
    <2>1. writer' = taken  BY <1>1, <1>13
    <2>2. /\ writer'.status = "RECEIVING_PAYLOAD" /\ writer'.payloadReceived = r
          /\ writer'.headerUsed = HeaderLength
          /\ writer'.payloadWritten = writer.payloadWritten
          /\ writer'.inputFinished = writer.inputFinished
      BY <1>1, <1>2, <1>8, <2>1 DEF r
    <2>3. Account' /\ Hashes'
      <3>1. writer'.inputFinished \in BOOLEAN  BY <2>2 DEF StreamInv, Account
      <3> QED  BY <1>11, <2>1, <2>2, <3>1
    <2>4. "RECEIVING_PAYLOAD" \notin Failures  BY NotFailed
    <2>5. Buffered'
      <3>1. writer'.payloadReceived - writer'.payloadWritten <= PageSize
        BY <1>7, <2>2 DEF r
      <3>2. writer'.writeBuffer
              = [i \in 0 .. writer'.payloadReceived - writer'.payloadWritten - 1 |->
                   package'.body[writer'.payloadWritten + i]]
        BY <1>7, <2>1, <2>2 DEF r
      <3> QED  BY <2>2, <2>4, <3>1, <3>2 DEF Buffered
    <2>6. SoundPackageAccepted'  BY <2>2, <2>4 DEF SoundPackageAccepted
    <2>7. Phases'
      <3>1. HeaderSound'  BY <1>8 DEF HeaderSound, PagesFor
      <3>2. writer'.payloadReceived <= package'.declared  BY <1>7, <2>2 DEF r
      <3>3. ~writer'.inputFinished  BY <1>1, <2>2
      <3>4. \/ writer'.payloadWritten = package'.declared
            \/ \E i \in Nat : writer'.payloadWritten = PageSize * i
        BY <1>1, <2>2 DEF StreamInv, Phases
      <3> QED  BY <2>2, <3>1, <3>2, <3>3, <3>4 DEF Phases
    <2>8. Contents'
      <3>1. writer'.status = "RECEIVING_PAYLOAD" /\ writer.status = "RECEIVING_PAYLOAD"
        BY <1>1, <2>2
      <3> QED  BY <2>2, <3>1 DEF StreamInv, Contents, PagesFor
    <2> QED  BY <1>9, <2>3, <2>5, <2>6, <2>7, <2>8 DEF StreamInv
  <1> QED  BY <1>12, <1>13

\* A disturbance is counted.
LEMMA Disturbs ==
    ASSUME StreamInv, Disturb
    PROVE  disturbances' \in 0 .. MaxDisturbances /\ disturbances' # 0
  <1>1. disturbances \in 0 .. MaxDisturbances  BY DEF StreamInv, Staging
  <1> QED  BY <1>1, Sizes DEF Disturb

\* A step that leaves the stream alone.
LEMMA QuietAccounts ==
    ASSUME StreamInv, UNCHANGED <<package, offered, writeErases>>, Staging', Contents',
           writer'.status = writer.status, writer'.headerUsed = writer.headerUsed,
           writer'.eraseAddress = writer.eraseAddress,
           writer'.payloadReceived = writer.payloadReceived,
           writer'.payloadWritten = writer.payloadWritten,
           writer'.writeBuffer = writer.writeBuffer, writer'.streamHash = writer.streamHash,
           writer'.readbackHash = writer.readbackHash,
           \/ writer'.inputFinished = writer.inputFinished
           \/ /\ writer.status \in Active /\ writer'.inputFinished = TRUE
              /\ writer.payloadReceived = package.declared,
           disturbances' = 0 => disturbances = 0
    PROVE  StreamInv'
  <1>1. Account'
    <2>1. writer'.inputFinished \in BOOLEAN  BY DEF StreamInv, Account
    <2> QED  BY <2>1 DEF StreamInv, Account, Length
  <1>2. Hashes'  BY DEF StreamInv, Hashes
  <1>3. Buffered'  BY DEF StreamInv, Buffered
  <1>4. Phases'
    <2>1. HeaderSound' <=> HeaderSound  BY DEF HeaderSound, PagesFor
    <2>2. writer.status = "RECEIVING_HEADER" =>
             /\ writer'.inputFinished = writer.inputFinished
      BY NotFailed DEF Active
    <2>3. writer'.status = "RECEIVING_HEADER" =>
            /\ writer'.headerUsed < HeaderLength
            /\ writer'.payloadReceived = 0 /\ writer'.eraseAddress = 0 /\ ~writer'.inputFinished
            /\ writer'.headerUsed >= FixedLength =>
                 package'.header # "bad fixed part" /\ package'.declared \in 1 .. Capacity
      BY <2>2 DEF StreamInv, Phases
    <2>4. writer'.status \in Active =>
            /\ writer'.headerUsed = HeaderLength /\ HeaderSound'
            /\ writer'.payloadReceived <= package'.declared
            /\ writer'.inputFinished => writer'.payloadReceived = package'.declared
      BY <2>1 DEF StreamInv, Phases
    <2>5. PagesFor(package.declared)' = PagesFor(package.declared)  BY DEF PagesFor
    <2>6. /\ writer'.status = "ERASING" =>
               /\ writer'.payloadReceived = 0 /\ writer'.eraseAddress <= PagesFor(package'.declared)
               /\ \E k \in Nat : writer'.eraseAddress = PageSize * k
          /\ writer'.status = "RECEIVING_PAYLOAD" =>
               \/ writer'.payloadWritten = package'.declared
               \/ \E k \in Nat : writer'.payloadWritten = PageSize * k
          /\ writer'.status \in {"READING_BACK", "VERIFIED"} =>
               writer'.payloadWritten = package'.declared
      BY <2>5 DEF StreamInv, Phases
    <2> QED  BY <2>3, <2>4, <2>6 DEF Phases
  <1>5. SoundPackageAccepted'
    BY DEF StreamInv, SoundPackageAccepted, Sound, Length
  <1> QED  BY <1>1, <1>2, <1>3, <1>4, <1>5 DEF StreamInv

\* The staging area as it is, after a disturbance or not.
LEMMA StagingCounts ==
    ASSUME StreamInv, UNCHANGED <<package, writeErases, flash, touched>>,
           disturbances' \in 0 .. MaxDisturbances
    PROVE  Staging'
  BY DEF StreamInv, Staging, OnlyDeclaredPagesTouched

\* finish() refuses only what is not complete, and then the caller had more to offer.
LEMMA FinishAccounts == ASSUME WriterInv, StreamInv, Finish PROVE StreamInv'
  <1>1. /\ UNCHANGED <<package, offered, writeErases, flash, touched>>
        /\ IF Unoffered > 0 THEN Disturb ELSE UNCHANGED disturbances
        /\ writer.status \notin Failures /\ writer.status # "VERIFIED"
    BY DEF Finish, IsTerminal
  <1>2. disturbances' \in 0 .. MaxDisturbances /\ (disturbances' = 0 => disturbances = 0)
    <2>1. CASE Unoffered > 0  BY <1>1, <2>1, Disturbs
    <2>2. CASE ~(Unoffered > 0)
      <3>1. disturbances' = disturbances  BY <1>1, <2>2
      <3> QED  BY <3>1 DEF StreamInv, Staging
    <2> QED  BY <2>1, <2>2
  <1>3. Staging' /\ package \in Packages  BY <1>1, <1>2, StagingCounts DEF StreamInv, Staging
  <1>4. /\ package.declared \in Nat /\ Length(package.body) \in Nat  BY <1>3, BodyBytes
  <1>5. Unoffered > 0 => disturbances' # 0  BY <1>1, Disturbs
  <1>6. offered < HeaderLength => Unoffered > 0
    <2>1. offered = writer.headerUsed + writer.payloadReceived
          /\ writer.headerUsed \in 0 .. HeaderLength /\ writer.payloadReceived \in 0 .. Capacity
      BY DEF StreamInv, Account
    <2>2. offered \in Nat /\ HeaderLength \in Nat  BY <2>1, Sizes
    <2> QED  BY <1>4, <2>2 DEF Unoffered
  <1>7. CASE writer.headerUsed = 0
    <2>1. writer' = Failed(writer, "EMPTY_INPUT")  BY <1>7 DEF Finish
    <2>2. writer.payloadReceived = 0 /\ offered = 0
      <3>1. /\ writer.payloadReceived # 0 => writer.headerUsed = HeaderLength
            /\ offered = writer.headerUsed + writer.payloadReceived
        BY DEF StreamInv, Account
      <3> QED  BY <1>7, <3>1, Sizes
    <2>3. disturbances' # 0  BY <1>5, <1>6, <2>2, Sizes
    <2> QED  BY <1>1, <1>3, <2>1, <2>3, FailsInPlace DEF Failures
  <1>8. CASE writer.headerUsed # 0 /\ writer.status = "RECEIVING_HEADER"
    <2>1. writer' = Failed(writer, "TRUNCATED")  BY <1>8 DEF Finish
    <2>2. offered < HeaderLength  BY <1>8, NoPayloadYet
    <2>3. disturbances' # 0  BY <1>5, <1>6, <2>2
    <2> QED  BY <1>1, <1>3, <2>1, <2>3, FailsInPlace DEF Failures
  <1>9. CASE writer.headerUsed # 0 /\ writer.status # "RECEIVING_HEADER"
    <2>1. writer.status \in Active  BY <1>1, <1>9 DEF StreamInv, Account
    <2>2. /\ writer.payloadReceived \in Nat /\ writer.payloadReceived <= package.declared
          /\ offered = HeaderLength + writer.payloadReceived
      BY <2>1, PayloadBounds
    <2>3. CASE writer.payloadReceived # package.declared
      <3>1. writer' = Failed(writer, "TRUNCATED")  BY <1>9, <2>3 DEF Finish
      <3>2. Sound(package) => Unoffered > 0
        <4>1. HeaderLength \in Nat  BY Sizes
        <4>2. writer.payloadReceived < package.declared  BY <1>4, <2>2, <2>3
        <4>3. Length(package.body) = package.declared => Unoffered > 0
          BY <1>4, <2>2, <4>1, <4>2 DEF Unoffered
        <4> QED  BY <4>3 DEF Sound
      <3> QED  BY <1>1, <1>3, <1>5, <3>1, <3>2, FailsInPlace DEF Failures
    <2>4. CASE writer.payloadReceived = package.declared
      <3>1. writer' = [writer EXCEPT !.inputFinished = TRUE]  BY <1>9, <2>4 DEF Finish
      <3>2. /\ writer'.status = writer.status /\ writer'.headerUsed = writer.headerUsed
            /\ writer'.eraseAddress = writer.eraseAddress
            /\ writer'.payloadReceived = writer.payloadReceived
            /\ writer'.payloadWritten = writer.payloadWritten
            /\ writer'.writeBuffer = writer.writeBuffer
            /\ writer'.streamHash = writer.streamHash
            /\ writer'.readbackHash = writer.readbackHash /\ writer'.inputFinished = TRUE
        BY <3>1 DEF WriterInv
      <3>3. Contents'
        BY <1>1, <1>2, <3>2 DEF StreamInv, Contents, PagesFor
      <3> QED  BY <1>1, <1>2, <1>3, <2>1, <2>4, <3>2, <3>3, QuietAccounts
    <2> QED  BY <2>3, <2>4
  <1> QED  BY <1>7, <1>8, <1>9

\* cancel() is a disturbance.
LEMMA CancelAccounts == ASSUME WriterInv, StreamInv, Cancel PROVE StreamInv'
  <1>1. UNCHANGED <<package, offered, writeErases, flash, touched>> /\ Disturb
        /\ writer' = Failed(writer, "CANCELED")
    BY DEF Cancel
  <1>2. disturbances' \in 0 .. MaxDisturbances /\ disturbances' # 0  BY <1>1, Disturbs
  <1>3. Staging'  BY <1>1, <1>2, StagingCounts
  <1> QED  BY <1>1, <1>2, <1>3, FailsInPlace DEF Failures

\* So is a cell that decays.
LEMMA DecayAccounts == ASSUME WriterInv, StreamInv, Decay PROVE StreamInv'
  <1>1. UNCHANGED <<package, offered, writeErases, writer, touched>> /\ Disturb
        /\ \E c \in Length(writer.readbackHash) .. writer.payloadWritten - 1 :
              flash' = [flash EXCEPT ![c] = Garbage]
    BY DEF Decay
  <1>2. disturbances' \in 0 .. MaxDisturbances /\ disturbances' # 0  BY <1>1, Disturbs
  <1>3. flash' \in [Cells -> Bytes \cup {Erased, Garbage}]
    BY <1>1 DEF StreamInv, Staging
  <1>4. Staging'  BY <1>1, <1>2, <1>3 DEF StreamInv, Staging, OnlyDeclaredPagesTouched
  <1>5. Contents'  BY <1>2 DEF Contents
  <1> QED  BY <1>1, <1>2, <1>4, <1>5, QuietAccounts
-----------------------------------------------------------------------------
\* The flash holds what a cell can hold.
LEMMA FlashType ==
    ASSUME StreamInv
    PROVE  /\ flash \in [Cells -> Bytes \cup {Erased, Garbage}] /\ DOMAIN flash = Cells
           /\ touched \subseteq Cells /\ disturbances \in 0 .. MaxDisturbances
           /\ writeErases \in BOOLEAN /\ package \in Packages
  BY DEF StreamInv, Staging

\* A page of the payload may be touched.
LEMMA TouchesPage ==
    ASSUME StreamInv, HeaderSound, NEW k \in Nat, PageSize * k < PagesFor(package.declared),
           UNCHANGED <<package, writeErases>>, touched' = touched \cup Page(PageSize * k),
           flash' \in [Cells -> Bytes \cup {Erased, Garbage}],
           disturbances' \in 0 .. MaxDisturbances
    PROVE  Staging'
  <1>1. Page(PageSize * k) \subseteq Cells
        /\ \A c \in Page(PageSize * k) : PageSize * (c \div PageSize) < package.declared
    BY PageInPayload
  <1>2. touched' \subseteq Cells  BY <1>1, FlashType
  <1>3. package'.header = "good"  BY DEF HeaderSound
  <1>4. \A c \in touched' : PageSize * (c \div PageSize) < package'.declared
    BY <1>1 DEF StreamInv, Staging, OnlyDeclaredPagesTouched
  <1>5. OnlyDeclaredPagesTouched'  BY <1>3, <1>4 DEF OnlyDeclaredPagesTouched
  <1> QED  BY <1>2, <1>5, FlashType DEF Staging

\* A failing access is a disturbance and leaves what a cell can hold.
LEMMA FailedAccess ==
    ASSUME StreamInv, NEW cells, Disturb,
           flash' \in {flash, [c \in Cells |-> IF c \in cells THEN Garbage ELSE flash[c]]}
    PROVE  /\ flash' \in [Cells -> Bytes \cup {Erased, Garbage}]
           /\ disturbances' \in 0 .. MaxDisturbances /\ disturbances' # 0
  <1>1. flash' \in [Cells -> Bytes \cup {Erased, Garbage}]
    <2>1. flash \in [Cells -> Bytes \cup {Erased, Garbage}]  BY FlashType
    <2>2. CASE flash' = flash  BY <2>1, <2>2
    <2>3. CASE flash' = [c \in Cells |-> IF c \in cells THEN Garbage ELSE flash[c]]
      BY <2>1, <2>3
    <2> QED  BY <2>2, <2>3
  <1> QED  BY <1>1, Disturbs

\* Erasing the pages of the payload, and the end of that phase.
LEMMA EraseAccounts ==
    ASSUME WriterInv, StreamInv, ServiceErase, UNCHANGED <<package, offered, writeErases>>
    PROVE  StreamInv'
  <1> DEFINE e == writer.eraseAddress
             pages == PagesFor(package.declared)
  <1>1. writer.status = "ERASING"  BY DEF ServiceErase
  <1>2. /\ HeaderSound /\ package.declared \in Nat /\ writer.headerUsed = HeaderLength
        /\ pages \in Nat /\ pages <= Capacity
    <2>1. HeaderSound /\ package.declared \in Nat /\ writer.headerUsed = HeaderLength
      BY <1>1, PayloadBounds DEF Active
    <2> QED  BY <2>1, PagesLemma DEF HeaderSound
  <1>3. writer.payloadReceived = 0 /\ e <= pages /\ \E k \in Nat : e = PageSize * k
    BY <1>1 DEF StreamInv, Phases
  <1>4. PICK k \in Nat : e = PageSize * k  BY <1>3
  <1>5. writer.payloadWritten = 0  BY <1>3 DEF StreamInv, Account
  <1>6. PagesFor(package'.declared) = pages  BY DEF PagesFor
  <1>7. writer.inputFinished \in BOOLEAN /\ e \in 0 .. Capacity
        /\ (writer.inputFinished => writer.payloadReceived = package.declared)
    BY <1>1 DEF StreamInv, Account, Phases, Active
  <1>8. CASE e < pages
    <2>1. touched' = touched \cup Page(e)  BY <1>8 DEF ServiceErase, FlashUnit
    <2>2. CASE Disturb /\ writer' = Failed(writer, "ERASE_FAILED")
               /\ flash' \in {flash, [c \in Cells |-> IF c \in Page(e) THEN Garbage ELSE flash[c]]}
      <3>1. /\ flash' \in [Cells -> Bytes \cup {Erased, Garbage}]
            /\ disturbances' \in 0 .. MaxDisturbances /\ disturbances' # 0
        BY <2>2, FailedAccess
      <3>2. Staging'  BY <1>2, <1>4, <1>8, <2>1, <3>1, TouchesPage
      <3> QED  BY <2>2, <3>1, <3>2, FailsInPlace DEF Failures
    <2>3. CASE /\ flash' = [c \in Cells |-> IF c \in Page(e) THEN Erased ELSE flash[c]]
               /\ writer' = [writer EXCEPT !.eraseAddress = @ + PageSize]
               /\ UNCHANGED disturbances
      <3>1. flash' \in [Cells -> Bytes \cup {Erased, Garbage}]  BY <2>3, FlashType
      <3>2. Staging'  BY <1>2, <1>4, <1>8, <2>1, <2>3, <3>1, FlashType, TouchesPage
      <3>3. /\ writer'.status = "ERASING" /\ writer'.headerUsed = HeaderLength
            /\ writer'.eraseAddress = e + PageSize
            /\ writer'.payloadReceived = 0 /\ writer'.payloadWritten = 0
            /\ writer'.writeBuffer = writer.writeBuffer
            /\ writer'.streamHash = writer.streamHash
            /\ writer'.readbackHash = writer.readbackHash
            /\ writer'.inputFinished = writer.inputFinished
        BY <1>1, <1>2, <1>3, <1>5, <2>3 DEF WriterInv
      <3>4. e + PageSize <= pages /\ e + PageSize \in 0 .. Capacity
        <4>1. PageSize * k + PageSize <= pages  BY <1>2, <1>4, <1>8, PageInPayload
        <4> QED  BY <1>2, <1>4, <1>7, <4>1, Sizes
      <3>5. \E j \in Nat : e + PageSize = PageSize * j
        <4>1. PageSize * (k + 1) = PageSize * k + PageSize /\ k + 1 \in Nat  BY Sizes
        <4> QED  BY <1>4, <4>1
      <3>6. Account'
        <4>1. writer'.status \in {"RECEIVING_HEADER"} \cup Active \cup Failures
          BY <3>3 DEF Active
        <4>2. writer'.payloadReceived = writer.payloadReceived
              /\ writer'.payloadWritten = writer.payloadWritten
              /\ writer'.headerUsed = writer.headerUsed
          BY <1>2, <1>3, <1>5, <3>3
        <4> QED  BY <1>7, <3>3, <3>4, <4>1, <4>2 DEF StreamInv, Account, Length
      <3>7. Hashes'  BY <1>3, <3>3 DEF StreamInv, Hashes
      <3>8. Buffered'  BY <1>1, <1>3, <1>5, <3>3 DEF StreamInv, Buffered
      <3>9. Phases'
        <4>1. HeaderSound'  BY <1>2, <1>6 DEF HeaderSound
        <4>2. 0 <= package.declared  BY <1>2
        <4> QED  BY <1>3, <1>6, <1>7, <3>3, <3>4, <3>5, <4>1, <4>2 DEF Phases
      <3>10. Contents'
        <4> DEFINE end == e + PageSize
        <4>1. ASSUME disturbances' = 0 PROVE \A c \in 0 .. end - 1 : flash'[c] = Erased
          <5>1. \A i \in 0 .. e - 1 : flash[i] = Erased
            BY <1>1, <2>3, <4>1 DEF StreamInv, Contents
          <5>2. e \in Nat /\ PageSize \in Nat /\ Capacity \in Nat /\ e + PageSize <= Capacity
            BY <1>7, <3>4, Sizes
          <5> TAKE c \in 0 .. end - 1
          <5>3. c \in Cells  BY <5>2 DEF Cells
          <5>4. c \in 0 .. e - 1 \/ c \in Page(e)  BY <5>2 DEF Page
          <5> QED  BY <2>3, <5>1, <5>3, <5>4
        <4>2. writer'.eraseAddress = end  BY <3>3
        <4> HIDE DEF end
        <4> QED  BY <3>3, <4>1, <4>2 DEF Contents
      <3>11. SoundPackageAccepted'  BY <3>3, NotFailed DEF SoundPackageAccepted
      <3> QED  BY <3>2, <3>6, <3>7, <3>8, <3>9, <3>10, <3>11 DEF StreamInv
    <2> QED  BY <1>8, <2>2, <2>3 DEF ServiceErase, FlashUnit
  <1>9. CASE ~(e < pages)
    <2>1. writer' = To(writer, "RECEIVING_PAYLOAD") /\ NoFlashUnit  BY <1>9 DEF ServiceErase
    <2>2. writer' = [writer EXCEPT !.status = "RECEIVING_PAYLOAD"]  BY <2>1, NotFailed DEF To
    <2>3. /\ writer'.status = "RECEIVING_PAYLOAD" /\ writer'.headerUsed = HeaderLength
          /\ writer'.eraseAddress = e
          /\ writer'.payloadReceived = 0 /\ writer'.payloadWritten = 0
          /\ writer'.writeBuffer = writer.writeBuffer
          /\ writer'.streamHash = writer.streamHash
          /\ writer'.readbackHash = writer.readbackHash
          /\ writer'.inputFinished = writer.inputFinished
      BY <1>2, <1>3, <1>5, <2>2 DEF WriterInv
    <2>4. Staging'  BY <2>1, StagingStays DEF NoFlashUnit
    <2>5. Account'
      <3>1. writer'.status \in {"RECEIVING_HEADER"} \cup Active \cup Failures
        BY <2>3 DEF Active
      <3>2. writer'.payloadReceived = writer.payloadReceived
            /\ writer'.payloadWritten = writer.payloadWritten
            /\ writer'.headerUsed = writer.headerUsed
        BY <1>2, <1>3, <1>5, <2>3
      <3> QED  BY <1>7, <2>3, <3>1, <3>2 DEF StreamInv, Account, Length
    <2>6. Hashes'  BY <1>3, <2>3 DEF StreamInv, Hashes
    <2>7. Buffered'
      <3>1. writer.status \notin Failures /\ writer'.status \notin Failures
        BY <1>1, <2>3, NotFailed
      <3> QED  BY <1>3, <1>5, <2>3, <3>1 DEF StreamInv, Buffered
    <2>8. Phases'
      <3>1. HeaderSound'  BY <1>2, <1>6 DEF HeaderSound
      <3>2. 0 <= package.declared /\ 0 \in Nat /\ PageSize * 0 = 0  BY <1>2, Sizes
      <3>3. \E j \in Nat : 0 = PageSize * j  BY <3>2
      <3> QED  BY <1>3, <1>7, <2>3, <3>1, <3>2, <3>3 DEF Phases
    <2>9. Contents'
      <3>1. e = pages  BY <1>2, <1>3, <1>7, <1>9
      <3>2. disturbances = 0 => \A c \in 0 .. pages - 1 : flash[c] = Erased
        BY <1>1, <3>1 DEF StreamInv, Contents
      <3>3. flash' = flash /\ disturbances' = disturbances  BY <2>1 DEF NoFlashUnit
      <3>4. \A c \in 0 .. 0 - 1 : FALSE  OBVIOUS
      <3> QED  BY <1>6, <2>3, <3>2, <3>3, <3>4 DEF Contents
    <2>10. SoundPackageAccepted'  BY <2>3, NotFailed DEF SoundPackageAccepted
    <2> QED  BY <2>4, <2>5, <2>6, <2>7, <2>8, <2>9, <2>10 DEF StreamInv
  <1> QED  BY <1>8, <1>9

\* A page to write is one of the payload, and the buffer is not empty.
LEMMA PageToWrite ==
    ASSUME StreamInv, writer.status = "RECEIVING_PAYLOAD", PageReady
    PROVE  /\ writer.payloadWritten < writer.payloadReceived
           /\ \/ writer.payloadReceived = writer.payloadWritten + PageSize
              \/ writer.payloadReceived = package.declared
           /\ \E k \in Nat : writer.payloadWritten = PageSize * k
  <1> DEFINE r == writer.payloadReceived
             w == writer.payloadWritten
  <1>1. writer.status \in Active  BY DEF Active
  <1>2. /\ r \in Nat /\ w \in Nat /\ w <= r /\ r <= package.declared /\ r - w <= PageSize
        /\ package.declared \in Nat
    BY <1>1, PayloadBounds
  <1>3. writer.writeBuffer = [i \in 0 .. r - w - 1 |-> package.body[w + i]]
        /\ Length(writer.writeBuffer) = r - w
    BY <1>1, BufferLength
  <1>4. writer.inputFinished => r = package.declared  BY <1>1 DEF StreamInv, Phases
  <1>5. w # package.declared => \E k \in Nat : w = PageSize * k
    BY DEF StreamInv, Phases
  <1>6. w = r => writer.writeBuffer = NoBytes
    <2>1. ASSUME w = r PROVE 0 .. r - w - 1 = {}  BY <1>2, <2>1
    <2> QED  BY <1>3, <2>1 DEF NoBytes
  <1> HIDE DEF r, w
  <1>7. CASE Length(writer.writeBuffer) = PageSize
    <2>1. r = w + PageSize /\ w < r  BY <1>2, <1>3, <1>7, Sizes
    <2>2. w # package.declared  BY <1>2, <2>1
    <2> QED  BY <1>5, <2>1, <2>2 DEF r, w
  <1>8. CASE writer.inputFinished /\ writer.writeBuffer # NoBytes
    <2>1. r = package.declared /\ w # r  BY <1>4, <1>6, <1>8
    <2>2. w < r /\ w # package.declared  BY <1>2, <2>1
    <2> QED  BY <1>5, <2>1, <2>2 DEF r, w
  <1> QED  BY <1>7, <1>8 DEF PageReady

\* Programming a byte where the page was erased.
LEMMA ProgramErased ==
    ASSUME NEW cell, NEW byte, writeErases \/ cell = Erased
    PROVE  Programmed(cell, byte) = byte
  BY DEF Programmed

\* Whatever is programmed, a cell holds what a cell can hold.
LEMMA ProgramType ==
    ASSUME NEW cell \in Bytes \cup {Erased, Garbage}, NEW byte \in Bytes \cup {Erased, Garbage}
    PROVE  Programmed(cell, byte) \in Bytes \cup {Erased, Garbage}
  BY DEF Programmed

\* What a page write programs: the buffered bytes at their place, padded.
LEMMA WhatIsWritten ==
    ASSUME StreamInv, writer.status = "RECEIVING_PAYLOAD", NEW c \in Page(writer.payloadWritten)
    PROVE  (IF c - writer.payloadWritten < Length(writer.writeBuffer)
            THEN writer.writeBuffer[c - writer.payloadWritten] ELSE Erased)
              = IF c < writer.payloadReceived THEN package.body[c] ELSE Erased
  <1> DEFINE r == writer.payloadReceived
             w == writer.payloadWritten
             i == c - w
  <1>1. writer.status \in Active  BY DEF Active
  <1>2. r \in Nat /\ w \in Nat /\ w <= r  BY <1>1, PayloadBounds
  <1>3. writer.writeBuffer = [j \in 0 .. r - w - 1 |-> package.body[w + j]]
        /\ Length(writer.writeBuffer) = r - w
    BY <1>1, BufferLength
  <1>4. c \in Nat /\ w <= c
    <2>1. c \in w .. w + PageSize - 1  BY DEF Page
    <2> QED  BY <1>2, <2>1, Sizes
  <1>5. i \in Nat /\ w + i = c /\ (i < r - w <=> c < r)  BY <1>2, <1>4
  <1> HIDE DEF i, r, w
  <1>6. CASE c < r
    <2>1. i \in 0 .. r - w - 1  BY <1>2, <1>5, <1>6
    <2>2. writer.writeBuffer[i] = package.body[c]  BY <1>3, <1>5, <2>1
    <2> QED  BY <1>3, <1>5, <1>6, <2>2 DEF i, r, w
  <1>7. CASE ~(c < r)  BY <1>3, <1>5, <1>7 DEF i, r, w
  <1> QED  BY <1>6, <1>7

\* Writing a page: the bytes come to lie behind those before, on erased cells.
LEMMA WriteAccounts ==
    ASSUME WriterInv, StreamInv, ServiceWrite, UNCHANGED <<package, offered, writeErases>>
    PROVE  StreamInv'
  <1> DEFINE r == writer.payloadReceived
             w == writer.payloadWritten
             pages == PagesFor(package.declared)
             padded(i) == IF i < Length(writer.writeBuffer) THEN writer.writeBuffer[i] ELSE Erased
             byte(c) == IF c < r THEN package.body[c] ELSE Erased
  <1>1. writer.status = "RECEIVING_PAYLOAD" /\ PageReady  BY DEF ServiceWrite, Receiving
  <1>2. writer.status \in Active  BY <1>1 DEF Active
  <1>3. /\ HeaderSound /\ package.declared \in Nat /\ package.declared <= Capacity
        /\ package \in Packages /\ Length(package.body) \in Nat
        /\ r \in Nat /\ w \in Nat /\ w <= r /\ r <= package.declared /\ r - w <= PageSize
        /\ writer.headerUsed = HeaderLength /\ offered = HeaderLength + r
    BY <1>2, PayloadBounds
  <1>4. w < r /\ (r = w + PageSize \/ r = package.declared)  BY <1>1, PageToWrite
  <1>5. PICK k \in Nat : w = PageSize * k  BY <1>1, PageToWrite
  <1>6. /\ pages \in Nat /\ package.declared <= pages /\ w < pages /\ pages <= Capacity
    <2>1. pages \in Nat /\ package.declared <= pages  BY <1>3, PagesLemma
    <2> QED  BY <1>3, <1>4, <2>1 DEF HeaderSound
  <1>7. Page(w) \subseteq Cells  BY <1>3, <1>5, <1>6, PageInPayload
  <1>8. touched' = touched \cup Page(w)  BY DEF ServiceWrite, FlashUnit
  <1>9. CASE Disturb /\ writer' = Failed(writer, "WRITE_FAILED")
             /\ flash' \in {flash, [c \in Cells |-> IF c \in Page(w) THEN Garbage ELSE flash[c]]}
    <2>1. /\ flash' \in [Cells -> Bytes \cup {Erased, Garbage}]
          /\ disturbances' \in 0 .. MaxDisturbances /\ disturbances' # 0
      BY <1>9, FailedAccess
    <2>2. Staging'  BY <1>3, <1>5, <1>6, <1>8, <2>1, TouchesPage
    <2> QED  BY <1>9, <2>1, <2>2, FailsInPlace DEF Failures
  <1>10. CASE /\ flash' = [c \in Cells |-> IF c \in Page(w)
                                           THEN Programmed(flash[c], padded(c - w)) ELSE flash[c]]
              /\ writer' = [writer EXCEPT !.payloadWritten = @ + BytesWritten,
                                          !.writeBuffer = NoBytes]
              /\ UNCHANGED disturbances
    <2>1. BytesWritten = r - w  BY <1>2, BufferLength DEF BytesWritten
    <2>2. /\ writer'.status = "RECEIVING_PAYLOAD" /\ writer'.headerUsed = HeaderLength
          /\ writer'.eraseAddress = writer.eraseAddress
          /\ writer'.payloadReceived = r /\ writer'.payloadWritten = r
          /\ writer'.writeBuffer = NoBytes /\ writer'.streamHash = writer.streamHash
          /\ writer'.readbackHash = writer.readbackHash
          /\ writer'.inputFinished = writer.inputFinished
      <3>1. w + (r - w) = r  BY <1>3
      <3>2. writer'.payloadWritten = w + BytesWritten  BY <1>10 DEF WriterInv
      <3> QED  BY <1>1, <1>3, <1>10, <2>1, <3>1, <3>2 DEF WriterInv
    <2>3. \A c \in Page(w) : c \in Cells /\ flash'[c] = Programmed(flash[c], byte(c))
      <3> TAKE c \in Page(w)
      <3>1. c \in Cells  BY <1>7
      <3>2. padded(c - w) = byte(c)  BY <1>1, WhatIsWritten
      <3> QED  BY <1>10, <3>1, <3>2
    <2>4. \A c \in Cells : c \notin Page(w) => flash'[c] = flash[c]  BY <1>10
    <2>5. \A c \in 0 .. r - 1 : package.body[c] \in Bytes
      <3>1. offered <= HeaderLength + Length(package.body)  BY DEF StreamInv, Account
      <3>2. r <= Length(package.body)  BY <1>3, <3>1, Sizes
      <3>3. \A c \in 0 .. Length(package.body) - 1 : package.body[c] \in Bytes
        BY <1>3, BodyBytes
      <3> QED  BY <1>3, <3>2, <3>3
    <2>6. flash' \in [Cells -> Bytes \cup {Erased, Garbage}]
      <3>1. ASSUME NEW c \in Cells PROVE flash'[c] \in Bytes \cup {Erased, Garbage}
        <4>1. flash[c] \in Bytes \cup {Erased, Garbage}  BY FlashType
        <4>2. CASE c \notin Page(w)  BY <2>4, <4>1, <4>2
        <4>3. CASE c \in Page(w)
          <5>1. c \in Nat  BY Sizes DEF Cells
          <5>2. byte(c) \in Bytes \cup {Erased, Garbage}
            <6>1. CASE c < r
              <7>1. c \in 0 .. r - 1  BY <1>3, <5>1, <6>1
              <7> QED  BY <2>5, <6>1, <7>1
            <6>2. CASE ~(c < r)  BY <6>2
            <6> QED  BY <6>1, <6>2
          <5>3. Programmed(flash[c], byte(c)) \in Bytes \cup {Erased, Garbage}
            BY <4>1, <5>2, ProgramType
          <5> QED  BY <2>3, <4>3, <5>3
        <4> QED  BY <4>2, <4>3
      <3>2. DOMAIN flash' = Cells /\ flash' = [c \in Cells |-> flash'[c]]  BY <1>10
      <3> QED  BY <3>1, <3>2
    <2>7. Staging'  BY <1>3, <1>5, <1>6, <1>8, <1>10, <2>6, FlashType, TouchesPage
    <2>8. Account'
      <3>1. writer'.status \in {"RECEIVING_HEADER"} \cup Active \cup Failures
        BY <2>2 DEF Active
      <3>2. r \in 0 .. r /\ r \in 0 .. Capacity /\ HeaderLength \in 0 .. HeaderLength
        BY <1>3, Sizes
      <3>3. writer.eraseAddress \in 0 .. Capacity /\ writer.inputFinished \in BOOLEAN
            /\ offered <= HeaderLength + Length(package.body)
        BY DEF StreamInv, Account
      <3> QED  BY <1>3, <2>2, <3>1, <3>2, <3>3 DEF Account
    <2>9. Hashes'  BY <2>2 DEF StreamInv, Hashes
    <2>10. writer'.status \notin Failures  BY <2>2, NotFailed
    <2>11. Buffered'
      <3>1. r - r <= PageSize /\ 0 .. r - r - 1 = {}  BY <1>3, Sizes
      <3>2. NoBytes = [i \in 0 .. r - r - 1 |-> package'.body[r + i]]  BY <3>1 DEF NoBytes
      <3> QED  BY <2>2, <2>10, <3>1, <3>2 DEF Buffered
    <2>12. SoundPackageAccepted'  BY <2>10 DEF SoundPackageAccepted
    <2>13. Phases'
      <3>1. HeaderSound'  BY <1>3 DEF HeaderSound, PagesFor
      <3>2. writer.inputFinished => r = package.declared  BY <1>2 DEF StreamInv, Phases
      <3>3. r = package.declared \/ \E j \in Nat : r = PageSize * j
        <4>1. PageSize * (k + 1) = PageSize * k + PageSize /\ k + 1 \in Nat  BY Sizes
        <4> QED  BY <1>4, <1>5, <4>1
      <3> QED  BY <1>3, <2>2, <3>1, <3>2, <3>3 DEF Phases
    <2>14. Contents'
      <3> SUFFICES ASSUME disturbances' = 0
                   PROVE  /\ \A c \in 0 .. r - 1 : flash'[c] = package.body[c]
                          /\ ~writeErases => \A c \in r .. pages - 1 : flash'[c] = Erased
        BY <2>2 DEF Contents, PagesFor
      <3>1. /\ \A c \in 0 .. w - 1 : flash[c] = package.body[c]
            /\ ~writeErases => \A c \in w .. pages - 1 : flash[c] = Erased
        BY <1>1, <1>10 DEF StreamInv, Contents
      <3>2. PageSize \in Nat /\ Capacity \in Nat  BY Sizes
      <3>3. ASSUME NEW c \in Nat, c < pages, c \in Page(w) PROVE flash'[c] = byte(c)
        <4>1. c \in w .. pages - 1  BY <1>3, <1>6, <3>3 DEF Page
        <4>2. writeErases \/ flash[c] = Erased
          <5>1. writeErases \in BOOLEAN  BY FlashType
          <5> QED  BY <3>1, <4>1, <5>1
        <4>3. Programmed(flash[c], byte(c)) = byte(c)  BY <4>2, ProgramErased
        <4> QED  BY <2>3, <3>3, <4>3
      <3>4. ASSUME NEW c \in 0 .. r - 1 PROVE flash'[c] = package.body[c]
        <4>1. c \in Nat /\ c < r /\ c < pages /\ c \in Cells
          BY <1>3, <1>6, <3>2 DEF Cells
        <4>2. CASE c \in Page(w)  BY <3>3, <4>1, <4>2
        <4>3. CASE c \notin Page(w)
          <5>1. c \in 0 .. w - 1
            <6>1. c < w + PageSize  BY <1>3, <3>2, <4>1
            <6> QED  BY <1>3, <3>2, <4>1, <4>3, <6>1 DEF Page
          <5> QED  BY <2>4, <3>1, <4>1, <4>3, <5>1
        <4> QED  BY <4>2, <4>3
      <3>5. ASSUME ~writeErases, NEW c \in r .. pages - 1 PROVE flash'[c] = Erased
        <4>1. c \in Nat /\ ~(c < r) /\ c < pages /\ c \in Cells /\ c \in w .. pages - 1
          BY <1>3, <1>6, <3>2 DEF Cells
        <4>2. CASE c \in Page(w)  BY <3>3, <4>1, <4>2
        <4>3. CASE c \notin Page(w)  BY <2>4, <3>1, <3>5, <4>1, <4>3
        <4> QED  BY <4>2, <4>3
      <3> QED  BY <3>4, <3>5
    <2> QED  BY <2>7, <2>8, <2>9, <2>11, <2>12, <2>13, <2>14 DEF StreamInv
  <1> QED  BY <1>9, <1>10 DEF ServiceWrite, FlashUnit

\* A step between the phases in which the payload is complete.
LEMMA CompleteAccounts ==
    ASSUME StreamInv, UNCHANGED <<package, offered, writeErases, flash, disturbances>>, Staging',
           writer.status \in {"RECEIVING_PAYLOAD", "READING_BACK"},
           writer'.status \in {"READING_BACK", "VERIFIED"},
           writer.payloadWritten = package.declared,
           writer'.headerUsed = writer.headerUsed, writer'.eraseAddress = writer.eraseAddress,
           writer'.payloadReceived = writer.payloadReceived,
           writer'.payloadWritten = writer.payloadWritten,
           writer'.writeBuffer = writer.writeBuffer, writer'.streamHash = writer.streamHash,
           Hashes', writer'.inputFinished = writer.inputFinished
    PROVE  StreamInv'
  <1>1. writer.status \in Active /\ writer'.status \in Active  BY DEF Active
  <1>2. writer.status \notin Failures /\ writer'.status \notin Failures  BY NotFailed
  <1>3. Account'  BY <1>1 DEF StreamInv, Account, Length
  <1>4. Buffered'  BY <1>2 DEF StreamInv, Buffered
  <1>5. Phases'
    <2>1. HeaderSound'  BY <1>1 DEF StreamInv, Phases, HeaderSound, PagesFor
    <2>2. /\ writer.headerUsed = HeaderLength /\ writer.payloadReceived <= package.declared
          /\ writer.inputFinished => writer.payloadReceived = package.declared
      BY <1>1 DEF StreamInv, Phases
    <2> QED  BY <1>1, <2>1, <2>2 DEF Phases
  <1>6. Contents'
    <2>1. disturbances = 0 => \A c \in 0 .. writer.payloadWritten - 1 : flash[c] = package.body[c]
      BY DEF StreamInv, Contents
    <2> QED  BY <2>1 DEF Contents
  <1>7. SoundPackageAccepted'  BY <1>2 DEF SoundPackageAccepted
  <1> QED  BY <1>3, <1>4, <1>5, <1>6, <1>7 DEF StreamInv

\* The stream of a sound package has the hash of its header.
LEMMA HashAccounts ==
    ASSUME WriterInv, StreamInv, ServiceHash, UNCHANGED <<package, offered, writeErases>>
    PROVE  StreamInv'
  <1>1. /\ writer.status = "RECEIVING_PAYLOAD" /\ writer.payloadWritten = package.declared
        /\ UNCHANGED <<flash, disturbances, touched>>
    BY DEF ServiceHash, Receiving, NoFlashUnit
  <1>2. Staging'  BY <1>1, StagingStays
  <1>3. /\ package \in Packages /\ package.declared \in Nat
        /\ writer.payloadReceived \in Nat /\ writer.payloadWritten <= writer.payloadReceived
        /\ writer.payloadReceived <= package.declared
    BY <1>1, PayloadBounds DEF Active
  <1>4. CASE writer.streamHash = package.image
    <2>1. writer' = [writer EXCEPT !.status = "READING_BACK"]
      BY <1>4, NotFailed DEF ServiceHash, To
    <2>2. /\ writer'.status = "READING_BACK" /\ writer'.headerUsed = writer.headerUsed
          /\ writer'.eraseAddress = writer.eraseAddress
          /\ writer'.payloadReceived = writer.payloadReceived
          /\ writer'.payloadWritten = writer.payloadWritten
          /\ writer'.writeBuffer = writer.writeBuffer
          /\ writer'.streamHash = writer.streamHash
          /\ writer'.readbackHash = writer.readbackHash
          /\ writer'.inputFinished = writer.inputFinished
      BY <2>1 DEF WriterInv
    <2>3. Hashes'  BY <2>2 DEF StreamInv, Hashes
    <2> QED  BY <1>1, <1>2, <2>2, <2>3, CompleteAccounts
  <1>5. CASE writer.streamHash # package.image
    <2>1. writer' = Failed(writer, "HASH_MISMATCH")
      BY <1>5 DEF ServiceHash, To, Failures
    <2>2. ASSUME Sound(package) PROVE FALSE
      <3>1. package.body = package.image /\ Length(package.body) = package.declared
        BY <2>2 DEF Sound
      <3>2. writer.payloadReceived = package.declared  BY <1>1, <1>3
      <3>3. writer.streamHash = [i \in 0 .. Length(package.body) - 1 |-> package.body[i]]
        BY <3>1, <3>2 DEF StreamInv, Hashes
      <3>4. package.body = [i \in 0 .. Length(package.body) - 1 |-> package.body[i]]
        BY <1>3, BodyBytes
      <3> QED  BY <1>5, <3>1, <3>3, <3>4
    <2> QED  BY <1>1, <1>2, <2>1, <2>2, FailsInPlace DEF Failures
  <1> QED  BY <1>4, <1>5

\* Reading back: what the cells hold, and of a sound upload its own bytes.
LEMMA ReadAccounts ==
    ASSUME WriterInv, WriterInv', StreamInv, ServiceRead,
           UNCHANGED <<package, offered, writeErases>>
    PROVE  StreamInv'
  <1> DEFINE d == package.declared
             offset == Length(writer.readbackHash)
             length == Lesser(PageSize, d - offset)
  <1>1. writer.status = "READING_BACK"  BY DEF ServiceRead
  <1>2. writer.status \in Active /\ writer.payloadWritten = d
    BY <1>1 DEF StreamInv, Phases, Active
  <1>3. /\ package \in Packages /\ d \in Nat /\ d <= Capacity
        /\ writer.payloadReceived \in Nat /\ writer.payloadWritten <= writer.payloadReceived
        /\ writer.payloadReceived <= d
    BY <1>2, PayloadBounds
  <1>4. PICK n \in 0 .. d : writer.readbackHash = [i \in 0 .. n - 1 |-> flash[i]]
    BY <1>1 DEF WriterInv, ReadInOrder, HashOfCells
  <1>5. offset = n /\ n \in Nat
    <2>1. n \in Nat  BY <1>3
    <2>2. DOMAIN writer.readbackHash = 0 .. n - 1  BY <1>4
    <2> QED  BY <2>1, <2>2, StreamLength
  <1>6. CASE /\ offset < d /\ Disturb /\ writer' = Failed(writer, "READ_FAILED")
             /\ flash' \in {flash, [c \in Cells |-> IF c \in {} THEN Garbage ELSE flash[c]]}
             /\ touched' = touched \cup {}
    <2>1. /\ flash' \in [Cells -> Bytes \cup {Erased, Garbage}]
          /\ disturbances' \in 0 .. MaxDisturbances /\ disturbances' # 0
      <3>1. flash' = flash \/ flash' = [c \in Cells |-> flash[c]]  BY <1>6
      <3> QED  BY <1>6, <3>1, FlashType, Disturbs
    <2>2. Staging'
      BY <1>6, <2>1 DEF StreamInv, Staging, OnlyDeclaredPagesTouched
    <2> QED  BY <1>6, <2>1, <2>2, FailsInPlace DEF Failures
  <1>7. CASE /\ offset < d /\ UNCHANGED disturbances
             /\ flash' = [c \in Cells |-> IF c \in {} THEN Erased ELSE flash[c]]
             /\ touched' = touched \cup {}
             /\ writer' = [writer EXCEPT !.readbackHash =
                             Extended(@, length, LAMBDA i : flash[offset + i])]
    <2>1. flash' = flash
      <3>1. flash = [c \in Cells |-> flash[c]]  BY FlashType
      <3> QED  BY <1>7, <3>1
    <2>2. /\ writer'.status = "READING_BACK" /\ writer'.headerUsed = writer.headerUsed
          /\ writer'.eraseAddress = writer.eraseAddress
          /\ writer'.payloadReceived = writer.payloadReceived
          /\ writer'.payloadWritten = writer.payloadWritten
          /\ writer'.writeBuffer = writer.writeBuffer
          /\ writer'.streamHash = writer.streamHash
          /\ writer'.inputFinished = writer.inputFinished
      BY <1>1, <1>7 DEF WriterInv
    <2>3. Staging'
      BY <1>7, <2>1 DEF StreamInv, Staging, OnlyDeclaredPagesTouched
    <2>4. PICK m \in 0 .. d : writer'.readbackHash = [i \in 0 .. m - 1 |-> flash[i]]
      BY <2>1, <2>2 DEF WriterInv, ReadInOrder, HashOfCells
    <2>5. m \in 0 .. Capacity /\ \A i \in 0 .. m - 1 : i \in Cells
      BY <1>3, Sizes DEF Cells
    <2>6. writer'.readbackHash \in Streams(m, Bytes \cup {Erased, Garbage})
      <3>1. \A i \in 0 .. m - 1 : flash[i] \in Bytes \cup {Erased, Garbage}
        BY <2>5, FlashType
      <3> QED  BY <2>4, <3>1 DEF Streams
    <2>7. Hashes'  BY <2>2, <2>5, <2>6 DEF StreamInv, Hashes
    <2> QED  BY <1>1, <1>2, <1>7, <2>1, <2>2, <2>3, <2>7, CompleteAccounts
  <1>8. CASE /\ ~(offset < d) /\ UNCHANGED <<flash, disturbances, touched>>
             /\ writer' = To(writer, IF ReadbackMatches THEN "VERIFIED" ELSE "READBACK_MISMATCH")
    <2>1. Staging'  BY <1>8, StagingStays
    <2>2. CASE ReadbackMatches
      <3>1. writer' = [writer EXCEPT !.status = "VERIFIED"]  BY <1>8, <2>2, NotFailed DEF To
      <3>2. /\ writer'.status = "VERIFIED" /\ writer'.headerUsed = writer.headerUsed
            /\ writer'.eraseAddress = writer.eraseAddress
            /\ writer'.payloadReceived = writer.payloadReceived
            /\ writer'.payloadWritten = writer.payloadWritten
            /\ writer'.writeBuffer = writer.writeBuffer
            /\ writer'.streamHash = writer.streamHash
            /\ writer'.readbackHash = writer.readbackHash
            /\ writer'.inputFinished = writer.inputFinished
        BY <3>1 DEF WriterInv
      <3>3. Hashes'  BY <3>2 DEF StreamInv, Hashes
      <3> QED  BY <1>1, <1>2, <1>8, <2>1, <3>2, <3>3, CompleteAccounts
    <2>3. CASE ~ReadbackMatches
      <3>1. writer' = Failed(writer, "READBACK_MISMATCH")  BY <1>8, <2>3 DEF To, Failures
      <3>2. ASSUME Sound(package), disturbances = 0 PROVE FALSE
        <4>1. package.body = package.image /\ Length(package.body) = d
          BY <3>2 DEF Sound
        <4>2. n = d  BY <1>3, <1>5, <1>8
        <4>3. \A c \in 0 .. d - 1 : flash[c] = package.body[c]
          BY <1>1, <1>2, <3>2 DEF StreamInv, Contents
        <4>4. writer.readbackHash = [i \in 0 .. d - 1 |-> package.body[i]]
          BY <1>4, <4>2, <4>3
        <4>5. package.body = [i \in 0 .. d - 1 |-> package.body[i]]
          BY <1>3, <4>1, BodyBytes
        <4> QED  BY <2>3, <4>1, <4>4, <4>5 DEF ReadbackMatches
      <3> QED  BY <1>8, <2>1, <3>1, <3>2, FailsInPlace DEF Failures
    <2> QED  BY <2>2, <2>3
  <1> QED  BY <1>6, <1>7, <1>8 DEF ServiceRead, FlashUnit, NoFlashUnit

\* A new writer on whatever the staging area holds.
Fresh ==
    /\ package \in Packages /\ offered = 0 /\ writer = NewWriter
    /\ disturbances = 0 /\ touched = {} /\ writeErases \in BOOLEAN
    /\ flash \in [Cells -> Bytes \cup {Erased, Garbage}]

\* It has nothing to account for.
LEMMA FreshAccounts == Fresh => StreamInv
  <1> SUFFICES ASSUME Fresh PROVE StreamInv  OBVIOUS
  <1> USE DEF Fresh
  <1>1. /\ writer.status = "RECEIVING_HEADER" /\ writer.headerUsed = 0
        /\ writer.eraseAddress = 0 /\ writer.payloadReceived = 0
        /\ writer.payloadWritten = 0 /\ writer.writeBuffer = NoBytes
        /\ writer.inputFinished = FALSE /\ writer.streamHash = NoBytes
        /\ writer.readbackHash = NoBytes
    BY DEF NewWriter
  <1>2. Length(package.body) \in Nat  BY PackageAssumption DEF IsPackage
  <1>3. Account
    <2>1. 0 <= HeaderLength + Length(package.body) /\ 0 \in 0 .. HeaderLength
          /\ 0 \in 0 .. Capacity /\ 0 \in 0 .. 0 /\ 0 = 0 + 0
      BY <1>2, Sizes
    <2> QED  BY <1>1, <2>1 DEF Account
  <1>4. Hashes
    <2>1. 0 .. 0 - 1 = {} /\ 0 \in 0 .. Capacity  BY Sizes
    <2>2. NoBytes = [i \in 0 .. 0 - 1 |-> package.body[i]]  BY <2>1 DEF NoBytes
    <2>3. NoBytes \in Streams(0, Bytes \cup {Erased, Garbage})
      BY <2>1 DEF NoBytes, Streams
    <2> QED  BY <1>1, <2>1, <2>2, <2>3 DEF Hashes
  <1>5. Staging
    <2>1. 0 \in 0 .. MaxDisturbances  BY Sizes
    <2> QED  BY <2>1 DEF Staging, OnlyDeclaredPagesTouched
  <1>6. writer.status \notin Failures /\ writer.status \notin Active
    BY <1>1, NotFailed DEF Active
  <1>7. Buffered
    <2>1. 0 .. 0 - 0 - 1 = {} /\ 0 - 0 <= PageSize  BY Sizes
    <2>2. NoBytes = [i \in 0 .. 0 - 0 - 1 |-> package.body[0 + i]]  BY <2>1 DEF NoBytes
    <2> QED  BY <1>1, <1>6, <2>1, <2>2 DEF Buffered
  <1>8. Phases
    <2>1. 0 < HeaderLength /\ ~(0 >= FixedLength)  BY Sizes
    <2> QED  BY <1>1, <1>6, <2>1 DEF Phases
  <1>9. Contents  BY <1>1 DEF Contents
  <1>10. SoundPackageAccepted  BY <1>6 DEF SoundPackageAccepted
  <1> QED  BY <1>3, <1>4, <1>5, <1>7, <1>8, <1>9, <1>10 DEF StreamInv

\* Nor has the next one.
LEMMA FreshNext == Fresh' => StreamInv'
  BY FreshAccounts, PTL

\* Every step keeps the account.
LEMMA StreamStep == WriterInv /\ StreamInv /\ [Next]_vars => StreamInv'
  <1> SUFFICES ASSUME WriterInv, StreamInv, [Next]_vars PROVE StreamInv'  OBVIOUS
  <1>1. CASE Push
    <2>1. PICK n \in 1 .. Unoffered : PushHeader(n) \/ PushPayload(n)  BY <1>1 DEF Push
    <2>2. UNCHANGED <<package, writeErases, flash, disturbances, touched>>  BY <1>1 DEF Push
    <2>3. n \in Nat \ {0} /\ n <= HeaderLength + Length(package.body) - offered
      <3>1. Length(package.body) \in Nat  BY FlashType, BodyBytes
      <3>2. offered \in Int  BY Sizes DEF StreamInv, Account
      <3> QED  BY <3>1, <3>2, Sizes DEF Unoffered
    <2>4. CASE PushHeader(n)  BY <2>2, <2>3, <2>4, PushHeaderAccounts
    <2>5. CASE PushPayload(n)  BY <2>2, <2>3, <2>5, PushPayloadAccounts
    <2> QED  BY <2>1, <2>4, <2>5
  <1>2. CASE Finish  BY <1>2, FinishAccounts
  <1>3. CASE Cancel  BY <1>3, CancelAccounts
  <1>4. CASE Service
    <2>1. UNCHANGED <<package, offered, writeErases>>  BY <1>4 DEF Service
    <2>2. WriterInv'  BY <1>4, WriterStep DEF Next
    <2> QED
      BY <1>4, <2>1, <2>2, EraseAccounts, WriteAccounts, HashAccounts, ReadAccounts DEF Service
  <1>5. CASE Decay  BY <1>5, DecayAccounts
  <1>6. CASE Restart
    <2>1. Fresh'  BY <1>6, FlashType DEF Restart, Fresh
    <2> QED  BY <2>1, FreshNext
  <1>7. CASE UNCHANGED vars
    <2>1. Staging'  BY <1>7, StagingStays
    <2>2. Contents'  BY <1>7 DEF StreamInv, Contents, PagesFor
    <2> QED  BY <1>7, <2>1, <2>2, QuietAccounts
  <1> QED  BY <1>1, <1>2, <1>3, <1>4, <1>5, <1>6, <1>7 DEF Next

\* Every byte is where its phase puts it, whatever the pieces it came in.
THEOREM StreamInvariant == Spec => []StreamInv
  <1>1. Init => StreamInv
    <2> SUFFICES ASSUME Init PROVE StreamInv  OBVIOUS
    <2>1. flash \in [Cells -> Bytes \cup {Erased, Garbage}]  BY DEF Init
    <2>2. Fresh  BY <2>1 DEF Init, Fresh
    <2> QED  BY <2>2, FreshAccounts
  <1>2. WriterInv /\ StreamInv /\ [Next]_vars => StreamInv'  BY StreamStep
  <1> QED  BY <1>1, <1>2, WriterInvariant, PTL DEF Spec
-----------------------------------------------------------------------------
\* A sound package that nothing disturbs is accepted (ota_staged_writer.cpp:125-291).
THEOREM SoundAccepted == Spec => []SoundPackageAccepted
  <1>1. StreamInv => SoundPackageAccepted  BY DEF StreamInv
  <1> QED  BY <1>1, StreamInvariant, PTL

\* Nothing is lost, doubled or swapped between push() and the flash, and the flash
\* is touched only where the header declares a page.
THEOREM BytesAccounted == Spec => []StreamAccounted
  <1>1. StreamInv => StreamAccounted
    <2> SUFFICES ASSUME StreamInv PROVE StreamAccounted  OBVIOUS
    <2>1. OnlyDeclaredPagesTouched  BY DEF StreamInv, Staging
    <2>2. ASSUME writer.status \in {"RECEIVING_PAYLOAD", "READING_BACK"}
          PROVE  /\ offered = HeaderLength + writer.payloadReceived
                 /\ writer.payloadReceived = writer.payloadWritten + Length(writer.writeBuffer)
                 /\ \A i \in DOMAIN writer.writeBuffer :
                       writer.writeBuffer[i] = package.body[writer.payloadWritten + i]
                 /\ \A i \in DOMAIN writer.streamHash :
                       writer.streamHash[i] = package.body[i]
      <3>1. writer.status \in Active  BY <2>2 DEF Active
      <3>2. offered = HeaderLength + writer.payloadReceived
            /\ writer.payloadReceived \in Nat /\ writer.payloadWritten \in Nat
        BY <3>1, PayloadBounds
      <3>3. Length(writer.writeBuffer) = writer.payloadReceived - writer.payloadWritten
        BY <3>1, BufferLength
      <3>4. writer.payloadReceived = writer.payloadWritten + Length(writer.writeBuffer)
        BY <3>2, <3>3
      <3>5. \A i \in DOMAIN writer.writeBuffer :
               writer.writeBuffer[i] = package.body[writer.payloadWritten + i]
        BY <3>1, BufferLength
      <3>6. \A i \in DOMAIN writer.streamHash : writer.streamHash[i] = package.body[i]
        BY DEF StreamInv, Hashes
      <3> QED  BY <3>2, <3>4, <3>5, <3>6
    <2> QED  BY <2>1, <2>2 DEF StreamAccounted
  <1> QED  BY <1>1, StreamInvariant, PTL

\* The bytes of a package that were taken.
LEMMA TakenBytes ==
    ASSUME StreamInv
    PROVE  \A i \in Nat : i < writer.payloadReceived => package.body[i] \in Bytes
  <1>1. /\ writer.headerUsed \in 0 .. HeaderLength /\ writer.payloadReceived \in 0 .. Capacity
        /\ offered = writer.headerUsed + writer.payloadReceived
        /\ offered <= HeaderLength + Length(package.body)
        /\ writer.payloadReceived # 0 => writer.headerUsed = HeaderLength
    BY DEF StreamInv, Account
  <1>2. /\ Length(package.body) \in Nat
        /\ \A i \in 0 .. Length(package.body) - 1 : package.body[i] \in Bytes
    BY FlashType, BodyBytes
  <1>3. writer.payloadReceived \in Nat /\ HeaderLength \in Nat  BY <1>1, Sizes
  <1>4. writer.payloadReceived <= Length(package.body)
    <2>1. CASE writer.payloadReceived = 0  BY <1>2, <2>1
    <2>2. CASE writer.payloadReceived # 0  BY <1>1, <1>2, <1>3, <2>2
    <2> QED  BY <2>1, <2>2
  <1> QED  BY <1>2, <1>3, <1>4

\* The writer and what it works on have their types.
THEOREM WriterTyped == Spec => []TypeOK
  <1>1. StreamInv => TypeOK
    <2> SUFFICES ASSUME StreamInv PROVE TypeOK  OBVIOUS
    <2>1. /\ package \in Packages /\ writeErases \in BOOLEAN
          /\ flash \in [Cells -> Bytes \cup {Erased, Garbage}]
          /\ disturbances \in 0 .. MaxDisturbances /\ touched \subseteq Cells
      BY FlashType
    <2>2. /\ writer.headerUsed \in 0 .. HeaderLength
          /\ writer.eraseAddress \in 0 .. Capacity
          /\ writer.payloadReceived \in 0 .. Capacity
          /\ writer.payloadWritten \in 0 .. writer.payloadReceived
          /\ writer.inputFinished \in BOOLEAN
          /\ offered = writer.headerUsed + writer.payloadReceived
          /\ offered <= HeaderLength + Length(package.body)
          /\ writer.status \in {"RECEIVING_HEADER"} \cup Active \cup Failures
      BY DEF StreamInv, Account
    <2>3. writer.status \in {"RECEIVING_HEADER", "ERASING", "RECEIVING_PAYLOAD",
                             "READING_BACK", "VERIFIED"} \cup Failures
      BY <2>2 DEF Active
    <2>4. /\ writer.payloadReceived \in Nat /\ writer.payloadWritten \in Nat
          /\ writer.payloadWritten <= writer.payloadReceived
      BY <2>2, Sizes
    <2>5. writer.payloadWritten \in 0 .. Capacity  BY <2>2, <2>4, Sizes
    <2>6. offered \in 0 .. HeaderLength + Length(package.body)
      <3>1. Length(package.body) \in Nat  BY <2>1, BodyBytes
      <3>2. offered \in Nat  BY <2>2, <2>4, Sizes
      <3> QED  BY <2>2, <3>1, <3>2, Sizes
    <2>7. \E n \in 0 .. PageSize : writer.writeBuffer \in Streams(n, Bytes)
      <3>1. CASE writer.status \in Failures
        <4>1. writer.writeBuffer = NoBytes  BY <3>1 DEF StreamInv, Buffered
        <4>2. 0 .. 0 - 1 = {} /\ 0 \in 0 .. PageSize  BY Sizes
        <4>3. NoBytes \in Streams(0, Bytes)  BY <4>2 DEF NoBytes, Streams
        <4> QED  BY <4>1, <4>2, <4>3
      <3>2. CASE writer.status \notin Failures
        <4> DEFINE m == writer.payloadReceived - writer.payloadWritten
        <4>1. m <= PageSize
              /\ writer.writeBuffer = [i \in 0 .. m - 1 |-> package.body[writer.payloadWritten + i]]
          BY <3>2 DEF StreamInv, Buffered
        <4>2. m \in 0 .. PageSize  BY <2>4, <4>1, Sizes
        <4>3. \A i \in 0 .. m - 1 : package.body[writer.payloadWritten + i] \in Bytes
          <5> TAKE i \in 0 .. m - 1
          <5>1. writer.payloadWritten + i \in Nat
                /\ writer.payloadWritten + i < writer.payloadReceived
            BY <2>4
          <5> QED  BY <5>1, TakenBytes
        <4> HIDE DEF m
        <4>4. writer.writeBuffer \in Streams(m, Bytes)  BY <4>1, <4>3 DEF Streams
        <4> QED  BY <4>2, <4>4
      <3> QED  BY <3>1, <3>2
    <2>8. writer.streamHash \in Streams(writer.payloadReceived, Bytes)
      <3>1. \A i \in 0 .. writer.payloadReceived - 1 : package.body[i] \in Bytes
        BY <2>4, TakenBytes
      <3> QED  BY <3>1 DEF StreamInv, Hashes, Streams
    <2>9. \E n \in 0 .. Capacity :
             writer.readbackHash \in Streams(n, Bytes \cup {Erased, Garbage})
      BY DEF StreamInv, Hashes
    <2> QED
      BY <2>1, <2>2, <2>3, <2>5, <2>6, <2>7, <2>8, <2>9 DEF TypeOK
  <1> QED  BY <1>1, StreamInvariant, PTL
-----------------------------------------------------------------------------
(* The writer implements StagedUpload.                                     *)

\* A verdict stands until the next writer: push(), finish() and cancel() look at
\* isTerminal() and service() at the phase.
LEMMA VerdictStays == ASSUME IsTerminal, Next PROVE Restart
  <1>1. writer.status \notin {"RECEIVING_HEADER", "ERASING", "RECEIVING_PAYLOAD", "READING_BACK"}
    BY NotFailed DEF IsTerminal
  <1>2. ~Push  BY <1>1 DEF Push, PushHeader, PushPayload, Receiving
  <1>3. ~Service
    BY <1>1 DEF Service, ServiceErase, ServiceWrite, ServiceHash, ServiceRead, Receiving
  <1>4. ~Finish /\ ~Cancel /\ ~Decay  BY DEF Finish, Cancel, MayCancel, Decay
  <1> QED  BY <1>2, <1>3, <1>4 DEF Next

\* What decays belongs to the payload.
LEMMA DecaysInside ==
    ASSUME StreamInv, ~IsTerminal, NEW c \in Length(writer.readbackHash) .. writer.payloadWritten - 1
    PROVE  c \in DeclaredCells(package)
  <1>1. Length(writer.readbackHash) \in Nat
    <2>1. PICK n \in 0 .. Capacity : writer.readbackHash \in Streams(n, Bytes \cup {Erased, Garbage})
      BY DEF StreamInv, Hashes
    <2>2. n \in Nat /\ DOMAIN writer.readbackHash = 0 .. n - 1  BY <2>1, Sizes DEF Streams
    <2> QED  BY <2>2, StreamLength
  <1>2. writer.payloadReceived \in 0 .. Capacity
        /\ writer.payloadWritten \in 0 .. writer.payloadReceived
        /\ writer.status \in {"RECEIVING_HEADER"} \cup Active
    BY DEF StreamInv, Account, IsTerminal
  <1>3. c \in Nat /\ c < writer.payloadReceived /\ writer.payloadReceived \in Nat
    BY <1>1, <1>2, Sizes
  <1>4. writer.status \in Active
    <2>1. writer.payloadReceived # 0  BY <1>3
    <2>2. writer.status # "RECEIVING_HEADER"  BY <2>1 DEF StreamInv, Phases
    <2> QED  BY <1>2, <2>2
  <1>5. HeaderSound /\ writer.payloadReceived <= package.declared
    BY <1>4 DEF StreamInv, Phases
  <1>6. package.header = "good" /\ package.declared \in 1 .. Capacity  BY <1>5 DEF HeaderSound
  <1>7. package.declared \in Nat /\ package.declared <= Capacity /\ PageSize \in Nat \ {0}
    BY <1>6, Sizes
  <1>8. PageSize * (c \div PageSize) <= c /\ PageSize * (c \div PageSize) \in Nat
    BY <1>3, <1>7, Quotient
  <1>9. c < package.declared /\ c \in Cells  BY <1>3, <1>5, <1>7, Sizes DEF Cells
  <1>10. PageSize * (c \div PageSize) < package.declared  BY <1>3, <1>7, <1>8, <1>9
  <1> QED  BY <1>6, <1>9, <1>10 DEF DeclaredCells

\* A unit of work rewrites only cells that it has touched.
LEMMA RewritesTouched ==
    ASSUME WriterInv, Service
    PROVE  /\ \A c \in Cells : flash'[c] # flash[c] => c \in touched'
           /\ disturbances' = disturbances \/ Disturb
  <1>1. CASE ServiceErase  BY <1>1 DEF ServiceErase, FlashUnit, NoFlashUnit
  <1>2. CASE ServiceWrite  BY <1>2 DEF ServiceWrite, FlashUnit, NoFlashUnit
  <1>3. CASE ServiceHash  BY <1>3 DEF ServiceHash, NoFlashUnit
  <1>4. CASE ServiceRead  BY <1>4 DEF ServiceRead, FlashUnit, NoFlashUnit
  <1> QED  BY <1>1, <1>2, <1>3, <1>4 DEF Service

\* Every step of an upload keeps the package and rewrites nothing outside its pages.
LEMMA RewritesInside ==
    ASSUME WriterInv, StreamInv, StreamInv', Next, ~Restart
    PROVE  /\ package' = package
           /\ flash' \in [Cells -> Bytes \cup {Erased, Garbage}]
           /\ \A c \in Cells \ DeclaredCells(package) : flash'[c] = flash[c]
           /\ disturbances' = disturbances \/ Disturb
  <1>1. flash' \in [Cells -> Bytes \cup {Erased, Garbage}]  BY DEF StreamInv, Staging
  <1>2. CASE Push  BY <1>1, <1>2 DEF Push
  <1>3. CASE Finish  BY <1>1, <1>3 DEF Finish
  <1>4. CASE Cancel  BY <1>1, <1>4 DEF Cancel
  <1>5. CASE Service
    <2>1. package' = package  BY <1>5 DEF Service
    <2>2. OnlyDeclaredPagesTouched'  BY DEF StreamInv, Staging
    <2>3. touched' # {} => /\ package.header = "good"
                           /\ \A c \in touched' : PageSize * (c \div PageSize) < package.declared
      BY <2>1, <2>2 DEF OnlyDeclaredPagesTouched
    <2>4. \A c \in Cells : c \in touched' => c \in DeclaredCells(package)
      BY <2>3 DEF DeclaredCells
    <2> QED  BY <1>1, <1>5, <2>1, <2>4, RewritesTouched
  <1>6. CASE Decay
    <2>1. PICK c \in Length(writer.readbackHash) .. writer.payloadWritten - 1 :
             flash' = [flash EXCEPT ![c] = Garbage]
      BY <1>6 DEF Decay
    <2>2. c \in DeclaredCells(package)  BY <1>6, DecaysInside DEF Decay
    <2>3. \A d \in Cells \ DeclaredCells(package) : flash'[d] = flash[d]
      BY <2>1, <2>2, FlashType
    <2> QED  BY <1>1, <1>6, <2>3 DEF Decay
  <1> QED  BY <1>2, <1>3, <1>4, <1>5, <1>6 DEF Next

\* VERIFIED is the outcome of the second comparison, which leaves everything else alone.
LEMMA VerifiedByComparison ==
    ASSUME WriterInv, Next, ~Restart, ~IsTerminal, writer'.status = "VERIFIED"
    PROVE  UNCHANGED <<package, flash, disturbances>>
  <1>1. writer.status # "VERIFIED" /\ "VERIFIED" \notin Failures  BY NotFailed DEF IsTerminal
  <1>2. \A s \in Failures : writer' # Failed(writer, s)  BY <1>1, FailedFields
  <1>3. CASE Push  BY <1>3 DEF Push
  <1>4. CASE Finish
    <2>1. writer' \notin {Failed(writer, s) : s \in {"EMPTY_INPUT", "TRUNCATED"}}
      BY <1>2 DEF Failures
    <2>2. writer' = [writer EXCEPT !.inputFinished = TRUE]  BY <1>4, <2>1 DEF Finish
    <2> QED  BY <1>1, <2>2 DEF WriterInv
  <1>5. CASE Cancel  BY <1>2, <1>5 DEF Cancel, Failures
  <1>6. CASE Service
    <2>1. package' = package  BY <1>6 DEF Service
    <2>2. CASE ServiceErase
      <3>1. writer' # Failed(writer, "ERASE_FAILED")  BY <1>2 DEF Failures
      <3>2. writer' # [writer EXCEPT !.eraseAddress = @ + PageSize]  BY <1>1 DEF WriterInv
      <3> QED  BY <2>1, <2>2, <3>1, <3>2 DEF ServiceErase, FlashUnit, NoFlashUnit
    <2>3. CASE ServiceWrite
      <3>1. writer' # Failed(writer, "WRITE_FAILED")  BY <1>2 DEF Failures
      <3>2. writer' # [writer EXCEPT !.payloadWritten = @ + BytesWritten, !.writeBuffer = NoBytes]
        BY <1>1 DEF WriterInv
      <3> QED  BY <2>3, <3>1, <3>2 DEF ServiceWrite, FlashUnit
    <2>4. CASE ServiceHash  BY <2>1, <2>4 DEF ServiceHash, NoFlashUnit
    <2>5. CASE ServiceRead
      <3> DEFINE offset == Length(writer.readbackHash)
                 length == Lesser(PageSize, package.declared - offset)
      <3>1. writer' # Failed(writer, "READ_FAILED")  BY <1>2 DEF Failures
      <3>2. writer' # [writer EXCEPT !.readbackHash =
                         Extended(@, length, LAMBDA i : flash[offset + i])]
        BY <1>1 DEF WriterInv
      <3> QED  BY <2>1, <2>5, <3>1, <3>2 DEF ServiceRead, FlashUnit, NoFlashUnit
    <2> QED  BY <1>6, <2>2, <2>3, <2>4, <2>5 DEF Service
  <1>7. CASE Decay  BY <1>1, <1>7 DEF Decay
  <1> QED  BY <1>3, <1>4, <1>5, <1>6, <1>7 DEF Next

\* What VERIFIED says of the staging area.
LEMMA VerifiedIsStaged ==
    ASSUME WriterInv, StreamInv, writer.status = "VERIFIED" PROVE Upload!Staged
  <1>1. HeaderSound  BY DEF StreamInv, Phases, Active
  <1>2. Length(package.image) = package.declared /\ writer.readbackHash = package.image
        /\ HashOfCells(writer.readbackHash, flash, package)
    BY DEF WriterInv, ReadInOrder
  <1>3. package.header = "good" /\ package.declared \in Nat /\ package.declared <= Capacity
        /\ PageSize \in Nat \ {0} /\ Capacity \in Nat
    BY <1>1, Sizes DEF HeaderSound
  <1>4. PICK n \in 0 .. package.declared : package.image = [i \in 0 .. n - 1 |-> flash[i]]
    BY <1>2 DEF HashOfCells
  <1>5. DOMAIN package.image = 0 .. n - 1 /\ n \in Nat /\ n <= package.declared
        /\ \A i \in DOMAIN package.image : flash[i] = package.image[i]
    BY <1>3, <1>4
  <1>6. \A i \in DOMAIN package.image : i \in DeclaredCells(package)
    <2> SUFFICES ASSUME NEW i \in 0 .. n - 1 PROVE i \in DeclaredCells(package)  BY <1>5
    <2>1. i \in Nat /\ i < package.declared /\ i \in Cells  BY <1>3, <1>5 DEF Cells
    <2>2. PageSize * (i \div PageSize) <= i /\ PageSize * (i \div PageSize) \in Nat
      BY <1>3, <2>1, Quotient
    <2>3. PageSize * (i \div PageSize) < package.declared  BY <1>3, <2>1, <2>2
    <2> QED  BY <1>3, <2>1, <2>3 DEF DeclaredCells
  <1>7. Contract(package).image = package.image /\ Contract(package).area = DeclaredCells(package)
        /\ Contract(package).complete
    BY <1>2, <1>3 DEF Contract
  <1> QED  BY <1>5, <1>6, <1>7 DEF Upload!Staged

\* And after a step.
LEMMA VerifiedNext ==
    (WriterInv /\ StreamInv /\ writer.status = "VERIFIED")' => Upload!Staged'
  <1>1. WriterInv /\ StreamInv /\ writer.status = "VERIFIED" => Upload!Staged
    BY VerifiedIsStaged
  <1> QED  BY <1>1, PTL

\* The three verdicts.
LEMMA VerdictIs ==
    /\ Verdict = "verified" <=> writer.status = "VERIFIED"
    /\ Verdict = "failed" <=> writer.status \in Failures
    /\ Verdict = "open" <=> ~IsTerminal
  BY NotFailed DEF Verdict, IsTerminal

\* Every step of the writer is a step of StagedUpload, or none.
LEMMA UploadStep ==
    WriterInv /\ StreamInv /\ WriterInv' /\ StreamInv' /\ [Next]_vars
        => [Upload!Next]_(Upload!vars)
  <1> SUFFICES ASSUME WriterInv, StreamInv, WriterInv', StreamInv', [Next]_vars
               PROVE  [Upload!Next]_(Upload!vars)
    OBVIOUS
  <1>1. CASE UNCHANGED vars
    <2>1. Verdict' = Verdict /\ Contract(package)' = Contract(package)
      BY <1>1 DEF Verdict, Contract, DeclaredCells, Sound, Length
    <2> QED  BY <1>1, <2>1 DEF Upload!vars
  <1>2. CASE Restart
    <2>1. Verdict' = "open"  BY <1>2, NotFailed DEF Restart, NewWriter, Verdict
    <2>2. package' \in Packages /\ flash' = flash /\ ~(disturbances' > 0)  BY <1>2 DEF Restart
    <2>3. Contract(package)' = Contract(package')
      BY DEF Contract, DeclaredCells, Sound, Length
    <2> QED  BY <2>1, <2>2, <2>3 DEF Upload!Next, Upload!Begin
  <1>3. CASE Next /\ ~Restart
    <2>1. ~IsTerminal  BY <1>3, VerdictStays
    <2>2. Verdict = "open"  BY <2>1, VerdictIs
    <2>3. /\ package' = package
          /\ flash' \in [Cells -> Bytes \cup {Erased, Garbage}]
          /\ \A c \in Cells \ DeclaredCells(package) : flash'[c] = flash[c]
          /\ disturbances' = disturbances \/ Disturb
      BY <1>3, RewritesInside
    <2>4. Contract(package)' = Contract(package)
      BY <2>3 DEF Contract, DeclaredCells, Sound, Length
    <2>5. Upload!Rewritten
      <3>1. Contract(package).area = DeclaredCells(package)  BY DEF Contract
      <3> QED  BY <2>3, <3>1 DEF Upload!Rewritten
    <2>6. (disturbances' > 0) \in BOOLEAN /\ (disturbances > 0 => disturbances' > 0)
      <3>1. disturbances \in Nat  BY FlashType, Sizes
      <3>2. disturbances > 0 => disturbances' > 0  BY <2>3, <3>1 DEF Disturb
      <3> QED  BY <3>2
    <2>7. CASE writer'.status = "VERIFIED"
      <3>1. UNCHANGED <<package, flash, disturbances>>  BY <1>3, <2>1, <2>7, VerifiedByComparison
      <3>2. Verdict' = "verified"  BY <2>7 DEF Verdict
      <3>3. Upload!Staged'  BY <2>7, VerifiedNext
      <3>4. Upload!Staged  BY <2>4, <3>1, <3>3 DEF Upload!Staged
      <3> QED  BY <2>2, <2>4, <3>1, <3>2, <3>4 DEF Upload!Next, Upload!Verify
    <2>8. CASE writer'.status \in Failures
      <3>1. Verdict' = "failed"  BY <2>8, NotFailed DEF Verdict
      <3>2. ~(Sound(package') /\ disturbances' = 0)
        BY <2>8 DEF StreamInv, SoundPackageAccepted, Sound, Length
      <3>3. Contract(package).sound = Sound(package)  BY DEF Contract
      <3>4. disturbances' \in Nat
        <4>1. disturbances' \in 0 .. MaxDisturbances  BY DEF StreamInv, Staging
        <4> QED  BY <4>1, Sizes
      <3>5. disturbances' > 0 \/ ~Contract(package).sound  BY <2>3, <3>2, <3>3, <3>4
      <3> QED  BY <2>2, <2>4, <2>5, <2>6, <3>1, <3>5 DEF Upload!Next, Upload!Refuse
    <2>9. CASE writer'.status \notin {"VERIFIED"} \cup Failures
      <3>1. Verdict' = "open"  BY <2>9 DEF Verdict
      <3> QED  BY <2>2, <2>4, <2>5, <2>6, <3>1 DEF Upload!Next, Upload!Work
    <2> QED  BY <2>7, <2>8, <2>9
  <1> QED  BY <1>1, <1>2, <1>3

\* The writer keeps its promise to the caller: one verdict per upload, VERIFIED only with
\* the whole image in place, no refusal without a reason, and no cell rewritten outside
\* the declared pages or after the verdict (ota_staged_writer.cpp:125-291).
THEOREM WriterImplementsUpload == Spec => ImplementsUpload
  <1>1. Init => Upload!Init
    <2> SUFFICES ASSUME Init PROVE Upload!Init  OBVIOUS
    <2>1. Verdict = "open"  BY NotFailed DEF Init, NewWriter, Verdict
    <2>2. flash \in [Cells -> Bytes \cup {Erased, Garbage}]  BY DEF Init
    <2>3. package \in Packages /\ ~(disturbances > 0)  BY DEF Init
    <2> QED  BY <2>1, <2>2, <2>3 DEF Upload!Init
  <1>2. WriterInv /\ StreamInv /\ WriterInv' /\ StreamInv' /\ [Next]_vars
          => [Upload!Next]_(Upload!vars)
    BY UploadStep
  <1> QED
    BY <1>1, <1>2, WriterInvariant, StreamInvariant, PTL DEF Spec, ImplementsUpload, Upload!Spec
=============================================================================
