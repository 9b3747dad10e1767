-------------------------- MODULE SpanBufferProofs --------------------------
(* Theorems about the ring buffer, for every number of pages, page size,   *)
(* set of trace IDs and lengths, decision wait and bound.                  *)
EXTENDS SpanBuffer, SequenceTheorems, TLAPS

-----------------------------------------------------------------------------
(* Ring positions and record sizes.                                        *)

\* A position plus a number of pages is a position, for every number.
LEMMA AdvanceType ==
  ASSUME NEW h \in Int, NEW n \in Int
  PROVE  Advance(h, n) \in 0 .. Pages - 1
BY SizeAssumption DEF Advance

\* Within one lap a position wraps at most once.
LEMMA AdvanceLap ==
  ASSUME NEW h \in 0 .. Pages - 1, NEW n \in 0 .. Pages
  PROVE  Advance(h, n) = IF h + n < Pages THEN h + n ELSE h + n - Pages
<1>1. CASE h + n < Pages
  BY <1>1, SizeAssumption DEF Advance
<1>2. CASE ~(h + n < Pages)
  <2>1. h + n - Pages \in 0 .. Pages
    BY <1>2, SizeAssumption
  <2>2. (h + n) % Pages = h + n - Pages
    BY <1>2, SizeAssumption
  <2> QED BY <1>2, <2>2 DEF Advance
<1> QED BY <1>1, <1>2

\* The number of chunks of a record is a natural number.
LEMMA NumChunksType ==
  ASSUME NEW len \in Nat
  PROVE  NumChunks(len) \in Nat
BY SizeAssumption DEF NumChunks
-----------------------------------------------------------------------------
(* Type correctness.  The scan cursor has to be on a record wherever the   *)
(* record under it is used.                                                *)
CursorOK ==
  /\ spc \in {"scan", "age"} => scan.pos >= 1
  /\ spc = "age" => scan.pos <= Len(scan.page.slots)
TypeInv == TypeOK /\ CursorOK

USE SizeAssumption, TimeAssumption, BoundAssumption, StaleAssumption
USE DEF callerVars, tokens, ring, stageVars, writerVars, sweeperVars, ghostVars

\* The empty request, chunk, page and scan of New and processPage have their types.
LEMMA ConstantTypes ==
  /\ NoReq \in Slot /\ NoChunk \in Chunk /\ EmptyPage \in Page /\ NoScan \in Scan
BY DEF NoReq, NoChunk, EmptyPage, NoScan, Slot, Chunk, Page, Scan, AnyID, Data

\* The state New leaves has the types.
LEMMA TypeInit == Init => TypeInv
<1> SUFFICES ASSUME Init PROVE TypeInv
  OBVIOUS
<1>1. file \in [0 .. Pages - 1 -> Page]
  BY ConstantTypes DEF Init
<1>2. history \in [Data -> Seq(Outcomes)]
  BY DEF Init
<1> QED BY <1>1, <1>2, ConstantTypes DEF Init, TypeInv, TypeOK, CursorOK, Times, WriterPcs, SweeperPcs

\* Write keeps the types: what it queues is a record.
LEMMA TypeWrite ==
  ASSUME TypeInv, NEW tid \in TraceIDs, NEW len \in Lens, NEW lag \in 0 .. MaxLag,
         Write(tid, len, now - lag)
  PROVE  TypeInv'
<1> DEFINE r == [tid |-> tid, data |-> Len(written) + 1, len |-> len, at |-> now - lag]
<1>1. r \in Slot
  BY SMTT(30) DEF TypeInv, TypeOK, Write, Slot, AnyID, Data, Times
<1> HIDE DEF r
<1>2. writeCh' = Append(writeCh, r) /\ written' = Append(written, r)
  BY DEF Write, r
<1>3. /\ writeCh' \in Seq(Slot) /\ Len(writeCh') <= Pages
      /\ written' \in Seq(Slot) /\ Len(written') <= MaxRecs
  BY <1>1, <1>2 DEF TypeInv, TypeOK, Write
<1> QED BY <1>3 DEF TypeInv, TypeOK, CursorOK, Write

\* AddInterest keeps the types: pruning and renewing yield an interest list.
LEMMA TypeAddInterest ==
  ASSUME TypeInv, NEW tid \in TraceIDs, AddInterest(tid)
  PROVE  TypeInv'
<1>1. PICK n \in 0 .. Len(interest) : interest' = Renewed(SubSeq(interest, 1, n), tid)
  BY DEF AddInterest
<1> DEFINE list  == SubSeq(interest, 1, n)
           entry == [id |-> tid, addedAt |-> now]
<1>2. list \in Seq(Entry) /\ entry \in Entry
  <2>1. list \in Seq(Entry)
    BY SubSeqProperties DEF TypeInv, TypeOK
  <2>2. entry \in Entry
    BY DEF TypeInv, TypeOK, Entry
  <2> QED BY <2>1, <2>2
<1> HIDE DEF list
<1>3. interest' \in Seq(Entry)
  <2>1. CASE {i \in 1 .. Len(list) : list[i].id = tid} = {}
    BY <1>1, <1>2, <2>1 DEF Renewed, list
  <2>2. CASE {i \in 1 .. Len(list) : list[i].id = tid} # {}
    <3>1. PICK i \in 1 .. Len(list) :
            interest' = <<entry>> \o SubSeq(list, 1, i - 1) \o SubSeq(list, i + 1, Len(list))
      BY <1>1, <2>2 DEF Renewed, list
    <3>2. SubSeq(list, 1, i - 1) \in Seq(Entry) /\ SubSeq(list, i + 1, Len(list)) \in Seq(Entry)
      BY <1>2, SubSeqProperties
    <3> QED BY <1>2, <3>1, <3>2
  <2> QED BY <2>1, <2>2
<1> QED BY <1>3 DEF AddInterest, TypeInv, TypeOK, CursorOK

\* The second half of AddInterest, Close and the clock keep the types.
LEMMA TypeCallers ==
  ASSUME TypeInv, AddInterestWake \/ Close \/ Tick
  PROVE  TypeInv'
<1> USE DEF TypeInv, TypeOK, CursorOK
<1>1. CASE AddInterestWake
  BY <1>1 DEF AddInterestWake
<1>2. CASE Close
  BY <1>2 DEF Close
<1>3. CASE Tick
  BY <1>3 DEF Tick, Times
<1> QED BY <1>1, <1>2, <1>3

\* Every chunk of a large record is a page.
LEMMA ChunkPageType ==
  ASSUME NEW r \in Slot, NEW k \in Nat
  PROVE  ChunkPage(r, k) \in Page
BY ConstantTypes DEF ChunkPage, Page, Slot, Chunk

\* handle puts a record into the stage: what results is a page.
LEMMA TypeStash ==
  ASSUME TypeInv, NEW r \in Slot, NEW n \in Nat, NEW p \in Page, Stash(r, n, p)
  PROVE  wpc' \in WriterPcs /\ stage' \in Page /\ stageN' \in Nat
<1>1. [p EXCEPT !.slots = Append(@, r)] \in Page
  <2>1. Append(p.slots, r) \in Seq(Slot)
    BY AppendProperties DEF Page
  <2> QED BY <2>1 DEF Page
<1>2. n + RecSize(r.len) \in Nat
  BY DEF RecSize, Slot
<1>3. CASE n + HdrSize > PageSize
  BY <1>3 DEF Stash, TypeInv, TypeOK, WriterPcs
<1>4. CASE ~(n + HdrSize > PageSize)
  BY <1>1, <1>2, <1>4 DEF Stash, WriterPcs
<1> QED BY <1>3, <1>4

\* What handle does after a flush keeps the types of the writer.
LEMMA TypeAfterFlush ==
  ASSUME TypeInv, NEW n \in Nat, NEW p \in Page, AfterFlush(n, p)
  PROVE  wpc' \in WriterPcs /\ stage' \in Page /\ stageN' \in Nat /\ wreq' \in Slot
BY TypeStash, ConstantTypes DEF AfterFlush, Over, TypeInv, TypeOK, WriterPcs

\* Recording an outcome for a set of payloads keeps the type of history.
LEMMA MeetType ==
  ASSUME TypeInv, NEW ds, NEW o \in Outcomes
  PROVE  Meet(ds, o) \in [Data -> Seq(Outcomes)]
<1>1. \A d \in Data : Append(history[d], o) \in Seq(Outcomes) /\ history[d] \in Seq(Outcomes)
  BY DEF TypeInv, TypeOK
<1> QED BY <1>1 DEF Meet

\* The parts of the type invariant the writer can disturb.
LEMMA TypeWriterParts ==
  ASSUME TypeInv, WriterStep,
         writeCh' \in Seq(Slot), Len(writeCh') <= Pages,
         wakeup' \in BOOLEAN, pageFreed' \in BOOLEAN, used' \in Int,
         file' \in [0 .. Pages - 1 -> Page], faults' \in 0 .. MaxFaults,
         wpc' \in WriterPcs, wreq' \in Slot, chunksOut' \in Nat, draining' \in BOOLEAN,
         stage' \in Page, stageN' \in Nat, wHead' \in 0 .. Pages - 1,
         history' \in [Data -> Seq(Outcomes)]
  PROVE  TypeInv'
BY DEF WriterStep, TypeInv, TypeOK, CursorOK

\* Every step of runWriter keeps the types.
LEMMA TypeWriter ==
  ASSUME TypeInv, Writer
  PROVE  TypeInv'
<1> USE DEF TypeInv, TypeOK
<1>1. CASE WriterRecv
  <2> DEFINE r == Head(writeCh)
  <2>1. r \in Slot /\ writeCh' \in Seq(Slot) /\ Len(writeCh') <= Pages
    BY <1>1 DEF WriterRecv
  <2> HIDE DEF r
  <2>2. wpc' \in WriterPcs /\ wreq' \in Slot /\ stage' \in Page /\ stageN' \in Nat
    <3>1. CASE Stash(r, stageN, stage) /\ UNCHANGED wreq
      BY <3>1, <2>1, TypeStash
    <3>2. CASE wpc' \in {"flush", "large"} /\ wreq' = r /\ UNCHANGED stageVars
      BY <3>2, <2>1 DEF WriterPcs
    <3> QED BY <1>1, <3>1, <3>2 DEF WriterRecv, r
  <2> QED BY <1>1, <2>1, <2>2, TypeWriterParts DEF WriterRecv
<1>2. CASE WriterTick
  BY <1>2, TypeWriterParts DEF WriterTick, WriterPcs
<1>3. CASE WriterClose
  BY <1>3, TypeWriterParts DEF WriterClose
<1>4. CASE FlushWrite
  <2>0. Advance(wHead, 1) \in 0 .. Pages - 1
    <3>1. wHead \in Int
      OBVIOUS
    <3> QED BY ONLY <3>1, AdvanceType
  <2>1. faults' \in 0 .. MaxFaults /\ wHead' \in 0 .. Pages - 1
    <3>1. faults' = faults \/ (faults < MaxFaults /\ faults' = faults + 1)
      BY <1>4 DEF FlushWrite, CanFail, Failed
    <3>2. wHead' = wHead \/ wHead' = Advance(wHead, 1)
      BY <1>4 DEF FlushWrite
    <3> QED BY <2>0, <3>1, <3>2
  <2>2. file' \in [0 .. Pages - 1 -> Page]
    BY <1>4 DEF FlushWrite
  <2>3. wpc' \in WriterPcs /\ wreq' \in Slot /\ stage' \in Page /\ stageN' \in Nat
    BY <1>4, TypeAfterFlush, ConstantTypes DEF FlushWrite, WriterPcs
  <2>4. history' \in [Data -> Seq(Outcomes)]
    <3>1. history' = history \/ history' = Meet(Staged, "unflushed")
      BY <1>4 DEF FlushWrite
    <3> QED BY <3>1, MeetType DEF Outcomes
  <2> QED BY <1>4, <2>1, <2>2, <2>3, <2>4, TypeWriterParts DEF FlushWrite
<1>5. CASE WriterFull
  BY <1>5, TypeWriterParts DEF WriterFull, WriterPcs
<1>6. CASE WriterFreed
  BY <1>6, TypeWriterParts DEF WriterFreed, WriterPcs
<1>7. CASE WriterGivesUp
  <2>1. history' \in [Data -> Seq(Outcomes)]
    BY <1>7, MeetType DEF WriterGivesUp, Outcomes
  <2> QED BY <1>7, <2>1, ConstantTypes, TypeWriterParts DEF WriterGivesUp, WriterPcs, Over
<1>8. CASE LargeWrite
  <2>0. Advance(wHead, 1) \in 0 .. Pages - 1
    <3>1. wHead \in Int
      OBVIOUS
    <3> QED BY ONLY <3>1, AdvanceType
  <2>1. faults' \in 0 .. MaxFaults /\ wHead' \in 0 .. Pages - 1 /\ chunksOut' \in Nat
    <3>1. faults' = faults \/ (faults < MaxFaults /\ faults' = faults + 1)
      BY <1>8 DEF LargeWrite, CanFail, Failed
    <3>2. wHead' = wHead \/ wHead' = Advance(wHead, 1)
      BY <1>8 DEF LargeWrite
    <3>3. chunksOut' = 0 \/ chunksOut' = chunksOut + 1
      BY <1>8 DEF LargeWrite
    <3> QED BY <2>0, <3>1, <3>2, <3>3
  <2>2. ChunkPage(wreq, chunksOut) \in Page
    BY ChunkPageType
  <2>3. file' \in [0 .. Pages - 1 -> Page] /\ stage' \in Page
    BY <1>8, <2>2, ConstantTypes DEF LargeWrite
  <2>4. history' \in [Data -> Seq(Outcomes)]
    <3> DEFINE h == Meet(Overwritten, "overwritten")
    <3>1. h \in [Data -> Seq(Outcomes)]
      BY MeetType DEF Outcomes
    <3>2. CASE history' = h
      BY <3>1, <3>2
    <3>3. CASE \E o \in Outcomes : history' = [h EXCEPT ![wreq.data] = Append(@, o)]
      <4> HIDE DEF h
      <4>1. PICK o \in Outcomes : history' = [h EXCEPT ![wreq.data] = Append(@, o)]
        BY <3>3
      <4>2. wreq.data \in Data
        BY DEF Slot
      <4>3. Append(h[wreq.data], o) \in Seq(Outcomes)
        BY <3>1, <4>2
      <4> QED BY <3>1, <4>1, <4>2, <4>3
    <3> QED BY <1>8, <3>2, <3>3 DEF LargeWrite, Outcomes
  <2>5. wpc' \in WriterPcs /\ wreq' \in Slot
    BY <1>8, ConstantTypes DEF LargeWrite, WriterPcs
  <2> QED BY <1>8, <2>1, <2>3, <2>4, <2>5, TypeWriterParts DEF LargeWrite
<1>9. CASE Publish
  <2>1. used' \in Int
    <3>1. NumChunks(wreq.len) \in Nat
      BY NumChunksType DEF Slot
    <3> QED BY <1>9, <3>1 DEF Publish
  <2> QED BY <1>9, <2>1, ConstantTypes, TypeWriterParts DEF Publish, WriterPcs
<1>10. CASE WakeSweeper
  <2>1. /\ wpc' \in WriterPcs /\ wreq' \in Slot /\ stage' \in Page /\ stageN' \in Nat
        /\ chunksOut' \in Nat
    BY <1>10, TypeAfterFlush, ConstantTypes DEF WakeSweeper, WriterPcs
  <2> QED BY <1>10, <2>1, TypeWriterParts DEF WakeSweeper
<1> QED
  BY <1>1, <1>2, <1>3, <1>4, <1>5, <1>6, <1>7, <1>8, <1>9, <1>10 DEF Writer

\* The parts of the type invariant the sweeper and its timers can disturb.
LEMMA TypeSweeperParts ==
  ASSUME TypeInv, SweeperStep,
         wakeup' \in BOOLEAN, pageFreed' \in BOOLEAN, used' \in Int,
         file' \in [0 .. Pages - 1 -> Page], faults' \in 0 .. MaxFaults,
         spc' \in SweeperPcs, rHead' \in 0 .. Pages - 1, closing' \in BOOLEAN,
         scan' \in Scan, timers' \subseteq Times, CursorOK',
         history' \in [Data -> Seq(Outcomes)]
  PROVE  TypeInv'
BY DEF SweeperStep, TypeInv, TypeOK

\* The same for the steps inside processPage.
LEMMA TypeScanParts ==
  ASSUME TypeInv, ScanStep, faults' \in 0 .. MaxFaults, spc' \in SweeperPcs,
         scan' \in Scan, CursorOK', history' \in [Data -> Seq(Outcomes)]
  PROVE  TypeInv'
BY TypeSweeperParts DEF ScanStep, TypeInv, TypeOK

\* The record under the cursor is a record.
LEMMA RecType ==
  ASSUME TypeInv, AtRecord \/ spc = "age"
  PROVE  /\ scan.pos \in 1 .. Len(scan.page.slots)
         /\ Rec \in Slot
         /\ NumChunks(Rec.len) \in Nat
<1>1. scan.pos \in 1 .. Len(scan.page.slots)
  BY DEF TypeInv, TypeOK, CursorOK, AtRecord, Scan, Page
<1>2. Rec \in Slot
  BY <1>1, ElementOfSeq DEF Rec, TypeInv, TypeOK, Scan, Page
<1> QED BY <1>1, <1>2, NumChunksType DEF Slot

\* Stamping a record with the tombstone ID keeps the types of processPage.
LEMMA TypeConsume ==
  ASSUME TypeInv, AtRecord \/ spc = "age", NEW o \in Outcomes, Consume(o)
  PROVE  /\ scan' \in Scan
         /\ spc' \in SweeperPcs
         /\ CursorOK'
         /\ history' \in [Data -> Seq(Outcomes)]
<1> DEFINE slots == [scan.page.slots EXCEPT ![scan.pos].tid = TombstoneID]
<1>1. slots \in Seq(Slot)
  <2>1. [Rec EXCEPT !.tid = TombstoneID] \in Slot
    BY RecType DEF Slot, AnyID
  <2>2. scan.page.slots \in Seq(Slot)
    BY DEF TypeInv, TypeOK, Scan, Page
  <2>3. slots = [scan.page.slots EXCEPT ![scan.pos] = [Rec EXCEPT !.tid = TombstoneID]]
    BY RecType, <2>2 DEF Rec
  <2> HIDE DEF slots
  <2> QED BY <2>1, <2>2, <2>3, RecType, ExceptSeq
<1>2. scan' = [page   |-> [slots |-> slots, cont |-> scan.page.cont],
               pos    |-> IF LargeRec THEN scan.pos ELSE scan.pos + 1,
               used   |-> scan.used,
               fully  |-> scan.fully,
               chunks |-> IF LargeRec THEN NumChunks(Rec.len) ELSE scan.chunks,
               dirty  |-> TRUE,
               minRem |-> scan.minRem]
  BY DEF Consume, TypeInv, TypeOK, Scan, Page
<1> HIDE DEF slots
<1>3. scan' \in Scan
  <2>1. /\ scan.pos \in Nat /\ scan.pos + 1 \in Nat /\ NumChunks(Rec.len) \in Nat
        /\ scan.chunks \in Nat /\ scan.used \in Int /\ scan.fully \in BOOLEAN
        /\ scan.minRem \in Int
    BY RecType DEF TypeInv, TypeOK, Scan
  <2>2. [slots |-> slots, cont |-> scan.page.cont] \in Page
    BY <1>1 DEF TypeInv, TypeOK, Scan, Page
  <2> QED BY <1>2, <2>1, <2>2 DEF Scan
<1>4. spc' \in {"writeback", "scan"}
  BY DEF Consume
<1>5. CursorOK'
  BY <1>2, <1>4, RecType DEF CursorOK
<1>6. history' \in [Data -> Seq(Outcomes)]
  <2>1. Rec.data \in Data
    BY RecType DEF Slot
  <2>2. Append(history[Rec.data], o) \in Seq(Outcomes)
    BY <2>1, AppendProperties DEF TypeInv, TypeOK
  <2> QED BY <2>2 DEF Consume, TypeInv, TypeOK
<1> QED BY <1>3, <1>4, <1>5, <1>6 DEF SweeperPcs

\* What the bytes of a continuation chunk may make of the results of processPage.
LEMMA PayloadScan ==
  ASSUME TypeInv, ScanPayload
  PROVE  /\ scan' \in Scan /\ scan'.page = scan.page /\ scan'.used = scan.used
         /\ scan'.chunks \in {scan.chunks, 1} \union 1 .. scan.used
<1>1. scan \in Scan
  BY DEF TypeInv, TypeOK
<1>2. CASE \E n \in {1} \union 1 .. scan.used, dirty \in BOOLEAN :
             scan' = [scan EXCEPT !.chunks = n, !.dirty = dirty]
  <2>1. PICK n \in {1} \union 1 .. scan.used, dirty \in BOOLEAN :
             scan' = [scan EXCEPT !.chunks = n, !.dirty = dirty]
    BY <1>2
  <2>2. n \in Nat
    BY <1>1 DEF Scan
  <2> QED BY <1>1, <2>1, <2>2 DEF Scan
<1>3. CASE \E rem \in Times : scan' = [scan EXCEPT !.fully = FALSE, !.minRem = rem]
  <2>1. PICK rem \in Times : scan' = [scan EXCEPT !.fully = FALSE, !.minRem = rem]
    BY <1>3
  <2>2. rem \in Int
    BY DEF Times
  <2> QED BY <1>1, <2>1, <2>2 DEF Scan
<1> QED BY <1>2, <1>3 DEF ScanPayload

\* Every step of runSweeper and processPage keeps the types.
LEMMA TypeSweeper ==
  ASSUME TypeInv, Sweeper
  PROVE  TypeInv'
<1> USE DEF TypeInv, TypeOK
<1>1. CASE SweepEmpty
  BY <1>1, TypeScanParts DEF SweepEmpty, SweeperPcs, CursorOK
<1>2. CASE SweepRead
  <2>1. scan' = [page |-> file[rHead], pos |-> 1, used |-> used, fully |-> TRUE,
                 chunks |-> 1, dirty |-> FALSE, minRem |-> 0]
    BY <1>2 DEF SweepRead, NoScan
  <2>2. file[rHead] \in Page
    OBVIOUS
  <2>3. scan' \in Scan
    BY <2>1, <2>2 DEF Scan
  <2>4. CursorOK' /\ spc' \in SweeperPcs
    BY <1>2, <2>1 DEF SweepRead, SweeperPcs, CursorOK
  <2> QED BY <1>2, <2>3, <2>4, TypeScanParts DEF SweepRead
<1>3. CASE SweepReadFail
  <2>1. rHead' \in 0 .. Pages - 1
    <3>1. rHead \in Int
      OBVIOUS
    <3>2. Advance(rHead, 1) \in 0 .. Pages - 1
      BY ONLY <3>1, AdvanceType
    <3> QED BY <1>3, <3>2 DEF SweepReadFail
  <2>2. history' \in [Data -> Seq(Outcomes)]
    BY <1>3, MeetType DEF SweepReadFail, Outcomes
  <2>3. faults' \in 0 .. MaxFaults
    BY <1>3 DEF SweepReadFail, CanFail, Failed
  <2>4. CursorOK' /\ spc' \in SweeperPcs
    BY <1>3 DEF SweepReadFail, CursorOK, SweeperPcs
  <2> QED BY SMTT(30), <1>3, <2>1, <2>2, <2>3, <2>4, TypeSweeperParts DEF SweepReadFail
<1>4. CASE SweepWake
  BY <1>4, TypeSweeperParts DEF SweepWake, SweeperPcs, CursorOK
<1>5. CASE SweepWriterDone
  BY <1>5, TypeSweeperParts DEF SweepWriterDone, SweeperPcs, CursorOK
<1>6. CASE ScanEnd
  BY <1>6, TypeScanParts DEF ScanEnd, SweeperPcs, CursorOK
<1>7. CASE ScanTombstone
  <2>1. AtRecord
    BY <1>7 DEF ScanTombstone
  <2>2. scan' \in Scan /\ CursorOK' /\ spc' \in SweeperPcs
    <3>1. scan.pos \in Nat /\ scan.pos >= 1 /\ NumChunks(Rec.len) \in Nat /\ spc = "scan"
      BY <2>1, RecType DEF AtRecord
    <3>2. CASE LargeRec
      <4>1. scan' = [scan EXCEPT !.chunks = NumChunks(Rec.len)] /\ spc' = "writeback"
        BY <1>7, <3>2 DEF ScanTombstone
      <4> QED BY <3>1, <4>1 DEF Scan, CursorOK, SweeperPcs
    <3>3. CASE ~LargeRec
      <4>1. scan' = [scan EXCEPT !.pos = scan.pos + 1] /\ spc' = "scan"
        BY <1>7, <3>1, <3>3 DEF ScanTombstone, Scan
      <4>2. scan' \in Scan /\ scan'.pos >= 1
        <5>1. scan.pos + 1 \in Nat /\ scan.pos + 1 >= 1
          BY <3>1
        <5> QED BY <4>1, <5>1 DEF Scan
      <4> QED BY <4>1, <4>2 DEF CursorOK, SweeperPcs
    <3> QED BY <3>2, <3>3
  <2> QED BY <1>7, <2>2, TypeScanParts DEF ScanTombstone
<1>8. CASE ScanPartial
  <2>1. scan' \in Scan /\ CursorOK' /\ spc' \in SweeperPcs
    BY <1>8 DEF ScanPartial, Scan, CursorOK, SweeperPcs
  <2> QED BY <1>8, <2>1, TypeScanParts DEF ScanPartial
<1>9. CASE ScanMatch
  <2>1. AtRecord /\ \E o \in {"corrupt", "delivered"} : Consume(o)
    BY <1>9 DEF ScanMatch, Decidable
  <2>2. /\ scan' \in Scan /\ spc' \in SweeperPcs /\ CursorOK'
        /\ history' \in [Data -> Seq(Outcomes)]
    BY <2>1, TypeConsume DEF Outcomes
  <2>3. faults' \in 0 .. MaxFaults
    BY <1>9 DEF ScanMatch, CanFail, Failed
  <2> QED BY <1>9, <2>2, <2>3, TypeScanParts DEF ScanMatch
<1>10. CASE ScanUndecided
  <2>1. AtRecord
    BY <1>10 DEF ScanUndecided, Decidable
  <2>2. CursorOK' /\ spc' \in SweeperPcs
    BY <1>10, <2>1, RecType DEF ScanUndecided, CursorOK, SweeperPcs
  <2> QED BY <1>10, <2>2, TypeScanParts DEF ScanUndecided
<1>11. CASE AgeEvict
  <2>1. spc = "age" /\ \E o \in {"evicted", "early"} : Consume(o)
    BY <1>11 DEF AgeEvict
  <2>2. /\ scan' \in Scan /\ spc' \in SweeperPcs /\ CursorOK'
        /\ history' \in [Data -> Seq(Outcomes)]
    BY <2>1, TypeConsume DEF Outcomes
  <2> QED BY <1>11, <2>2, TypeScanParts DEF AgeEvict
<1>12. CASE AgeKeep
  <2>1. Rec \in Slot /\ scan.pos \in Nat
    <3>1. spc = "age"
      BY <1>12 DEF AgeKeep
    <3>2. scan.pos \in 1 .. Len(scan.page.slots) /\ Rec \in Slot
      BY <3>1, RecType
    <3> QED BY <3>2 DEF Scan
  <2>2. MinRem(scan.minRem, DecisionWait - Age) \in Int
    BY SMTT(30), <2>1 DEF MinRem, Age, Slot, Scan, Times
  <2>3. scan' \in Scan /\ CursorOK' /\ spc' \in SweeperPcs
    <3>1. scan' = [scan EXCEPT !.fully = FALSE,
                              !.minRem = MinRem(scan.minRem, DecisionWait - Age),
                              !.pos = scan.pos + 1]
      BY <1>12 DEF AgeKeep, Scan
    <3>2. scan' \in Scan /\ scan'.pos >= 1
      <4>1. scan.pos + 1 \in Nat /\ scan.pos + 1 >= 1
        BY <2>1
      <4> QED BY <2>2, <3>1, <4>1 DEF Scan
    <3>3. spc' \in {"writeback", "scan"}
      BY <1>12 DEF AgeKeep
    <3> QED BY <3>2, <3>3 DEF CursorOK, SweeperPcs
  <2> QED BY <1>12, <2>3, TypeScanParts DEF AgeKeep
<1>13. CASE Writeback
  <2>1. file' \in [0 .. Pages - 1 -> Page]
    BY <1>13 DEF Writeback, Scan
  <2>2. faults' \in 0 .. MaxFaults
    BY <1>13 DEF Writeback, CanFail, Failed
  <2>3. timers' \subseteq Times
    <3>1. CASE scan.minRem > 0
      <4>1. Deadline(scan.minRem) \in Times
        BY <3>1 DEF Deadline, Times, Scan
      <4>2. timers' = timers \/ timers' = timers \union {Deadline(scan.minRem)}
        BY <1>13 DEF Writeback
      <4> QED BY <4>1, <4>2
    <3>2. CASE ~(scan.minRem > 0)
      BY <1>13, <3>2 DEF Writeback
    <3> QED BY <3>1, <3>2
  <2>4. scan' \in Scan /\ CursorOK' /\ spc' \in SweeperPcs
    BY <1>13, ConstantTypes DEF Writeback, CursorOK, SweeperPcs
  <2> QED BY <1>13, <2>1, <2>2, <2>3, <2>4, TypeSweeperParts DEF Writeback
<1>14. CASE Free
  <2>1. rHead' \in 0 .. Pages - 1
    <3>1. rHead \in Int /\ scan.chunks \in Int
      BY DEF Scan
    <3>2. Advance(rHead, scan.chunks) \in 0 .. Pages - 1
      BY ONLY <3>1, AdvanceType
    <3> QED BY <1>14, <3>2 DEF Free
  <2>2. scan' \in Scan /\ CursorOK' /\ spc' \in SweeperPcs /\ used' \in Int
    BY SMTT(30), <1>14, ConstantTypes DEF Free, CursorOK, SweeperPcs, Scan
  <2> QED BY <1>14, <2>1, <2>2, TypeSweeperParts DEF Free
<1>15. CASE Signal
  BY <1>15, TypeSweeperParts DEF Signal, SweeperPcs, CursorOK
<1>16. CASE ScanPayload
  <2>1. scan' \in Scan
    BY <1>16, PayloadScan
  <2>2. scan' \in Scan /\ CursorOK' /\ spc' \in SweeperPcs
    BY <1>16, <2>1 DEF ScanPayload, CursorOK, SweeperPcs
  <2> QED BY <1>16, <2>2, TypeScanParts DEF ScanPayload
<1> QED BY <1>1, <1>2, <1>3, <1>4, <1>5, <1>6, <1>7, <1>8, <1>9, <1>10, <1>11, <1>12,
           <1>13, <1>14, <1>15, <1>16 DEF Sweeper

\* Every step of the buffer keeps the types.
LEMMA TypeNext == TypeInv /\ [Next]_vars => TypeInv'
<1> SUFFICES ASSUME TypeInv, [Next]_vars PROVE TypeInv'
  OBVIOUS
<1>1. ASSUME NEW t \in timers, TimerFire(t) PROVE TypeInv'
  BY <1>1, TypeSweeperParts DEF TimerFire, CursorOK, TypeInv, TypeOK
<1>2. CASE UNCHANGED vars
  BY <1>2 DEF vars, TypeInv, TypeOK, CursorOK
<1>3. CASE Halted
  BY <1>2, <1>3 DEF Halted
<1> QED
  BY <1>1, <1>2, <1>3, TypeWrite, TypeAddInterest, TypeCallers, TypeWriter, TypeSweeper
  DEF Next

(* Every variable of the buffer and of its two goroutines keeps its type,   *)
(* whichever file operations fail: in particular no record outside the page *)
(* the sweeper holds is ever used, and ring positions stay in the file.     *)
THEOREM TypeCorrect == Spec => []TypeOK
<1>1. TypeInv => TypeOK
  BY DEF TypeInv
<1> QED BY <1>1, TypeInit, TypeNext, PTL DEF Spec
-----------------------------------------------------------------------------
(* The ring.  Positions and count agree only because the writer announces  *)
(* what it has written and the sweeper never gives back more than it was   *)
(* announced; the latter needs that no large record it meets is already    *)
(* marked, hence what the inductive invariant says of marks.               *)

\* The all-0xFF-first-byte ID is no trace's, and the zero ID is another one.
ReservedUnused == TombstoneID \notin TraceIDs \union {ZeroID}

Unmarked(p)  == \A j \in 1 .. Len(p.slots) : p.slots[j].tid # TombstoneID
LargeTomb(p) == LargeHead(p) /\ p.slots[1].tid = TombstoneID

WriterInv ==
  /\ \A i \in 1 .. Len(writeCh) : writeCh[i].tid # TombstoneID
  /\ wreq.tid # TombstoneID
  /\ Unmarked(stage)
  /\ chunksOut > 0 => wpc \in {"large", "publish", "wake"}
  /\ wpc = "large" /\ chunksOut > 0 =>
       used + NumChunks(wreq.len) <= Pages /\ chunksOut < NumChunks(wreq.len)
  /\ wpc = "publish" /\ chunksOut > 0 => chunksOut = NumChunks(wreq.len)

SweeperInv ==
  /\ spc \in {"scan", "age", "writeback", "free"} =>
       /\ 1 <= scan.chunks /\ scan.chunks <= scan.used /\ scan.used <= used
       /\ LargeTomb(scan.page) => spc \in {"writeback", "free"} /\ scan.fully
  /\ spc \in {"scan", "age"} /\ scan.pos = 1 => scan.fully
  /\ spc = "age" => scan.page.cont = NoChunk /\ Rec.tid # TombstoneID /\ ~Partial

FileInv ==
  \A i \in 0 .. used + InFlight - 1 :
    /\ i > 0 => Unmarked(RingPage(i))
    /\ LargeTomb(RingPage(i)) => i = 0 /\ spc = "free"

RingInv == used \in 0 .. Pages /\ RingAligned /\ WriterInv /\ SweeperInv /\ FileInv

\* Positions in the ring add up: advancing by m and then by n is advancing by m + n.
LEMMA AdvanceAdd ==
  ASSUME NEW h \in 0 .. Pages - 1, NEW m \in 0 .. Pages, NEW n \in 0 .. Pages,
         m + n <= Pages
  PROVE  Advance(Advance(h, m), n) = Advance(h, m + n)
<1>1. Advance(h, m) \in 0 .. Pages - 1
  BY AdvanceType
<1>2. Advance(h, m) = IF h + m < Pages THEN h + m ELSE h + m - Pages
  BY AdvanceLap
<1>3. Advance(Advance(h, m), n) =
        IF Advance(h, m) + n < Pages THEN Advance(h, m) + n ELSE Advance(h, m) + n - Pages
  BY <1>1, AdvanceLap
<1>4. m + n \in 0 .. Pages
  OBVIOUS
<1>5. Advance(h, m + n) = IF h + (m + n) < Pages THEN h + (m + n) ELSE h + (m + n) - Pages
  BY <1>4, AdvanceLap
<1> QED BY <1>2, <1>3, <1>5

\* Fewer pages than a lap apart are different pages.
LEMMA AdvanceApart ==
  ASSUME NEW h \in 0 .. Pages - 1, NEW m \in 0 .. Pages, NEW n \in 0 .. Pages,
         m < n, n < Pages
  PROVE  Advance(h, m) # Advance(h, n)
<1>1. Advance(h, m) = IF h + m < Pages THEN h + m ELSE h + m - Pages
  BY AdvanceLap
<1>2. Advance(h, n) = IF h + n < Pages THEN h + n ELSE h + n - Pages
  BY AdvanceLap
<1> QED BY <1>1, <1>2

\* The chunk loop writes exactly the number of pages that is published.
LEMMA ChunkCount ==
  ASSUME NEW r \in Slot, NEW k \in Nat
  PROVE  MoreChunks(r, k) <=> k < NumChunks(r.len)
<1> DEFINE N == NumChunks(r.len)
           L == HdrSize + r.len
<1>1. L \in Nat /\ N \in Nat
  BY NumChunksType DEF Slot
<1>2. N * PageSize <= L + PageSize - 1 /\ L + PageSize - 1 < (N + 1) * PageSize
  BY <1>1 DEF NumChunks, Slot
<1>3. ASSUME k < N PROVE k * PageSize < L
  <2>1. (k + 1) * PageSize <= N * PageSize
    BY <1>1, <1>3
  <2> QED BY <1>1, <1>2, <2>1
<1>4. ASSUME ~(k < N) PROVE ~(k * PageSize < L)
  <2>1. N * PageSize <= k * PageSize
    BY <1>1, <1>4
  <2> QED BY <1>1, <1>2, <2>1
<1>5. MoreChunks(r, k) <=> k * PageSize < L
  BY DEF MoreChunks, Slot
<1> QED BY <1>3, <1>4, <1>5

\* A record occupies at least one page.
LEMMA NumChunksPositive ==
  ASSUME NEW len \in Nat
  PROVE  NumChunks(len) >= 1
BY DEF NumChunks

\* A page no record of which was consumed does not start with a consumed large record.
LEMMA UnmarkedNotTomb ==
  ASSUME NEW p \in Page, Unmarked(p)
  PROVE  ~LargeTomb(p)
<1> SUFFICES ASSUME LargeTomb(p) PROVE FALSE
  OBVIOUS
<1>1. 1 \in 1 .. Len(p.slots)
  BY EmptySeq, LenProperties DEF LargeTomb, LargeHead, Page
<1> QED BY <1>1 DEF Unmarked, LargeTomb

\* The number of pages in flight is a natural number.
LEMMA InFlightType == TypeInv => InFlight \in Nat
BY DEF TypeInv, TypeOK, InFlight

\* Every page of the ring is a page of the file.
LEMMA RingPageType ==
  ASSUME TypeInv, NEW i \in Int
  PROVE  RingPage(i) \in Page
<1>1. rHead \in Int /\ file \in [0 .. Pages - 1 -> Page]
  BY DEF TypeInv, TypeOK
<1>2. Advance(rHead, i) \in 0 .. Pages - 1
  BY ONLY <1>1, AdvanceType
<1> QED BY <1>1, <1>2 DEF RingPage

(* The writer appends page q at wHead: none of the counted or in-flight     *)
(* pages is touched, and the appended one is unmarked.                      *)
LEMMA AppendPage ==
  ASSUME TypeInv, RingInv, used + InFlight < Pages, NEW q \in Page, Unmarked(q),
         file' = [file EXCEPT ![wHead] = q], UNCHANGED <<rHead, spc>>
  PROVE  /\ Advance(wHead, 1) = Advance(rHead, used + InFlight + 1)
         /\ \A i \in 0 .. used + InFlight :
              /\ i > 0 => Unmarked(RingPage(i)')
              /\ LargeTomb(RingPage(i)') => i = 0 /\ spc' = "free"
<1> DEFINE n == used + InFlight
<1>1. n \in 0 .. Pages - 1 /\ rHead \in 0 .. Pages - 1 /\ wHead = Advance(rHead, n)
  BY InFlightType DEF TypeInv, TypeOK, RingInv, RingAligned
<1>2. Advance(wHead, 1) = Advance(rHead, n + 1)
  <2> HIDE DEF n
  <2>1. n \in 0 .. Pages /\ 1 \in 0 .. Pages /\ n + 1 <= Pages
    BY <1>1
  <2> QED BY <1>1, <2>1, AdvanceAdd
<1>3. ASSUME NEW i \in 0 .. n
      PROVE  RingPage(i)' = IF i = n THEN q ELSE RingPage(i)
  <2> HIDE DEF n
  <2>1. RingPage(i)' = file'[Advance(rHead, i)]
    BY DEF RingPage, Advance
  <2>2. CASE i = n
    BY <1>1, <2>1, <2>2 DEF TypeInv, TypeOK
  <2>3. CASE i # n
    <3>1. i \in 0 .. Pages /\ n \in 0 .. Pages /\ i < n /\ n < Pages
      BY <1>1, <2>3
    <3>2. Advance(rHead, i) # wHead
      BY <1>1, <3>1, AdvanceApart
    <3>3. Advance(rHead, i) \in 0 .. Pages - 1
      <4>1. rHead \in Int /\ i \in Int
        BY <1>1, <3>1
      <4> QED BY ONLY <4>1, AdvanceType
    <3> QED BY <2>1, <2>3, <3>2, <3>3 DEF RingPage, TypeInv, TypeOK
  <2> QED BY <2>2, <2>3
<1>4. ASSUME NEW i \in 0 .. n
      PROVE  /\ i > 0 => Unmarked(RingPage(i)')
             /\ LargeTomb(RingPage(i)') => i = 0 /\ spc' = "free"
  <2>1. CASE i = n
    BY <1>3, <2>1, UnmarkedNotTomb
  <2>2. CASE i # n
    <3>1. i \in 0 .. used + InFlight - 1
      <4>1. used \in Int /\ InFlight \in Int
        BY InFlightType DEF TypeInv, TypeOK
      <4> QED BY <2>2, <4>1
    <3> QED BY <1>3, <2>2, <3>1 DEF RingInv, FileInv
  <2> QED BY <2>1, <2>2
<1> QED BY <1>2, <1>4

\* The ring invariant holds when New returns.
LEMMA RingInit == ReservedUnused /\ Init => RingInv
<1> SUFFICES ASSUME ReservedUnused, Init PROVE RingInv
  OBVIOUS
<1>1. InFlight = 0
  BY DEF Init, InFlight
<1>2. RingAligned
  BY <1>1 DEF Init, RingAligned, Advance
<1>3. WriterInv
  BY DEF Init, WriterInv, Unmarked, EmptyPage, NoReq, ReservedUnused
<1>4. SweeperInv
  BY DEF Init, SweeperInv, NoScan
<1>5. FileInv
  BY <1>1 DEF Init, FileInv
<1> QED BY <1>2, <1>3, <1>4, <1>5 DEF RingInv, Init

\* A step that neither moves a position nor changes a count or a page.
LEMMA RingFrame ==
  ASSUME TypeInv, RingInv, UNCHANGED <<used, file, wHead, rHead, spc, scan>>,
         InFlight' = InFlight, WriterInv'
  PROVE  RingInv'
<1>1. RingAligned'
  BY DEF RingInv, RingAligned, Advance
<1>2. SweeperInv'
  BY DEF RingInv, SweeperInv, LargeTomb, LargeHead, Rec, Partial, LargeRec
<1>3. FileInv'
  BY DEF RingInv, FileInv, RingPage, Advance, LargeTomb, LargeHead, Unmarked
<1> QED BY <1>1, <1>2, <1>3 DEF RingInv

\* Callers and the clock keep the ring invariant: they touch neither pages nor counts.
LEMMA RingCallers ==
  ASSUME ReservedUnused, TypeInv, RingInv,
         \/ \E tid \in TraceIDs, len \in Lens, lag \in 0 .. MaxLag : Write(tid, len, now - lag)
         \/ \E tid \in TraceIDs : AddInterest(tid)
         \/ AddInterestWake \/ Close \/ Tick
         \/ \E t \in timers : TimerFire(t)
         \/ UNCHANGED vars
  PROVE  RingInv'
<1>1. /\ UNCHANGED <<used, file, writerVars, rHead, spc, scan>>
      /\ \/ UNCHANGED writeCh
         \/ \E r \in [tid : TraceIDs, data : Int, len : Lens, at : Int] :
              writeCh' = Append(writeCh, r)
  <2>1. ASSUME NEW tid \in TraceIDs, NEW len \in Lens, NEW lag \in 0 .. MaxLag,
               Write(tid, len, now - lag)
        PROVE  /\ UNCHANGED <<used, file, writerVars, rHead, spc, scan>>
               /\ \E r \in [tid : TraceIDs, data : Int, len : Lens, at : Int] :
                    writeCh' = Append(writeCh, r)
    <3>1. [tid |-> tid, data |-> Len(written) + 1, len |-> len, at |-> now - lag]
             \in [tid : TraceIDs, data : Int, len : Lens, at : Int]
      BY DEF TypeInv, TypeOK, Times
    <3> QED BY <2>1, <3>1 DEF Write
  <2>2. CASE \/ \E tid \in TraceIDs : AddInterest(tid)
             \/ AddInterestWake \/ Close \/ Tick
             \/ \E t \in timers : TimerFire(t)
             \/ UNCHANGED vars
    BY <2>2 DEF AddInterest, AddInterestWake, Close, Tick, TimerFire, SweeperStep, vars
  <2> QED BY <2>1, <2>2
<1>2. InFlight' = InFlight
  BY <1>1 DEF InFlight
<1>3. \A i \in 1 .. Len(writeCh') : writeCh'[i].tid # TombstoneID
  <2>1. CASE UNCHANGED writeCh
    BY <2>1 DEF RingInv, WriterInv
  <2>2. ASSUME NEW r \in [tid : TraceIDs, data : Int, len : Lens, at : Int],
               writeCh' = Append(writeCh, r)
        PROVE  \A i \in 1 .. Len(writeCh') : writeCh'[i].tid # TombstoneID
    BY <2>2, AppendProperties DEF RingInv, WriterInv, ReservedUnused, TypeInv, TypeOK
  <2> QED BY <1>1, <2>1, <2>2
<1>4. WriterInv'
  BY <1>1, <1>3 DEF RingInv, WriterInv, Unmarked
<1> QED BY <1>1, <1>2, <1>4, RingFrame

\* Staging a record of a caller leaves the stage without tombstones.
LEMMA StashUnmarked ==
  ASSUME TypeInv, RingInv, NEW r \in Slot, r.tid # TombstoneID, NEW n \in Nat,
         NEW p \in Page, Unmarked(p), Stash(r, n, p)
  PROVE  wpc' \in {"select", "panic"} /\ Unmarked(stage')
<1>1. p.slots \in Seq(Slot)
  BY DEF Page
<1>2. Unmarked([p EXCEPT !.slots = Append(@, r)])
  BY <1>1, AppendProperties DEF Unmarked, Page
<1> QED BY <1>2 DEF Stash, RingInv, WriterInv

\* So does what handle does after a flush.
LEMMA AfterFlushUnmarked ==
  ASSUME TypeInv, RingInv, ReservedUnused, NEW n \in Nat, NEW p \in Page, Unmarked(p),
         AfterFlush(n, p)
  PROVE  /\ wpc' \in {"select", "panic", "large", "done"}
         /\ Unmarked(stage') /\ wreq'.tid # TombstoneID
<1>1. NoReq.tid # TombstoneID /\ wreq.tid # TombstoneID /\ wreq \in Slot
  BY DEF NoReq, ReservedUnused, RingInv, WriterInv, TypeInv, TypeOK
<1>2. CASE Stash(wreq, n, p) /\ wreq' = NoReq
  BY <1>1, <1>2, StashUnmarked
<1>3. CASE wpc' \in {"select", "done", "large"} /\ stage' = p /\ wreq' = wreq
  BY <1>1, <1>3
<1> QED BY <1>2, <1>3 DEF AfterFlush, Over

\* A WriteAt that fails in the middle of a large record leaves it torn.
LEMMA FailedChunkTears ==
  ASSUME TypeInv, chunksOut # 0,
         history' = [Meet(Overwritten, "overwritten") EXCEPT
                       ![wreq.data] = Append(@, IF chunksOut = 0 THEN "dropped" ELSE "torn")]
  PROVE  Torn'
<1> DEFINE m == Meet(Overwritten, "overwritten")
           d == wreq.data
<1>1. d \in Data /\ m \in [Data -> Seq(Outcomes)]
  BY MeetType DEF TypeInv, TypeOK, Slot, Outcomes
<1> HIDE DEF m, d
<1>2. history' = [m EXCEPT ![d] = Append(m[d], "torn")]
  BY DEF m, d
<1>3. history'[d] = Append(m[d], "torn") /\ m[d] \in Seq(Outcomes)
  BY <1>1, <1>2
<1>4. Len(history'[d]) = Len(m[d]) + 1 /\ history'[d][Len(m[d]) + 1] = "torn" /\ Len(m[d]) \in Nat
  BY <1>3
<1>5. Len(history'[d]) \in 1 .. Len(history'[d]) /\ history'[d][Len(history'[d])] = "torn"
  BY <1>4
<1> QED BY <1>1, <1>5 DEF Torn

\* Every step of runWriter keeps the ring invariant, unless it leaves a large record torn.
LEMMA RingWriter ==
  ASSUME ReservedUnused, "large" \notin Faults \/ ~Torn', TypeInv, RingInv, Writer
  PROVE  RingInv'
<1> USE DEF TypeInv, TypeOK
<1>0. /\ UNCHANGED <<rHead, spc, scan>>
      /\ NoReq.tid # TombstoneID /\ Unmarked(EmptyPage)
      /\ wpc \notin {"large", "publish", "wake"} => chunksOut = 0
      /\ chunksOut \in Nat
  <2>1. WriterStep
    BY DEF Writer, WriterRecv, WriterTick, WriterClose, FlushWrite, WriterFull, WriterFreed,
           WriterGivesUp, LargeWrite, Publish, WakeSweeper
  <2> QED BY <2>1 DEF WriterStep, NoReq, ReservedUnused, EmptyPage, Unmarked, RingInv, WriterInv
<1>1. CASE WriterRecv
  <2>1. /\ wpc' \in {"select", "panic", "flush", "large"} /\ chunksOut = 0
        /\ UNCHANGED <<used, file, wHead, chunksOut>>
        /\ wreq'.tid # TombstoneID /\ Unmarked(stage')
    <3> DEFINE r == Head(writeCh)
    <3>1. r \in Slot /\ r.tid # TombstoneID
      BY SMTT(30), <1>1 DEF WriterRecv, RingInv, WriterInv
    <3> HIDE DEF r
    <3>2. CASE Stash(r, stageN, stage) /\ UNCHANGED wreq
      BY <1>1, <1>0, <3>1, <3>2, StashUnmarked DEF WriterRecv, RingInv, WriterInv
    <3>3. CASE wpc' \in {"flush", "large"} /\ wreq' = r /\ UNCHANGED stageVars
      BY <1>1, <1>0, <3>1, <3>3 DEF WriterRecv, RingInv, WriterInv
    <3> QED BY <1>1, <3>2, <3>3 DEF WriterRecv, r
  <2>2. InFlight' = InFlight
    BY <1>1, <2>1 DEF InFlight, WriterRecv
  <2>3. \A i \in 1 .. Len(writeCh') : writeCh'[i].tid # TombstoneID
    BY <1>1 DEF WriterRecv, RingInv, WriterInv
  <2>4. WriterInv'
    BY <2>1, <2>3 DEF WriterInv
  <2> QED BY <1>0, <2>1, <2>2, <2>4, RingFrame
<1>2. CASE WriterTick \/ WriterClose \/ WriterFull \/ WriterFreed
  <2>1. /\ wpc' \notin {"publish", "wake"} /\ chunksOut = 0
        /\ UNCHANGED <<used, file, wHead, chunksOut, wreq, stage, writeCh>>
    BY <1>0, <1>2 DEF WriterTick, WriterClose, WriterFull, WriterFreed
  <2>2. InFlight' = InFlight
    BY <1>0, <1>2, <2>1 DEF InFlight, WriterTick, WriterClose, WriterFull, WriterFreed
  <2>3. WriterInv'
    <3>1. ~(chunksOut' > 0)
      BY <2>1
    <3> QED BY <2>1, <3>1 DEF WriterInv, RingInv, Unmarked
  <2> QED BY <1>0, <2>1, <2>2, <2>3, RingFrame
<1>3. CASE WriterGivesUp
  <2>1. /\ wpc' \in {"select", "done"} /\ chunksOut = 0
        /\ UNCHANGED <<used, file, wHead, chunksOut, writeCh>>
        /\ wreq' = NoReq /\ Unmarked(stage')
    BY <1>0, <1>3 DEF WriterGivesUp, Over, RingInv, WriterInv
  <2>2. InFlight' = InFlight
    BY <1>3, <2>1 DEF InFlight, WriterGivesUp
  <2>3. WriterInv'
    BY <1>0, <2>1 DEF WriterInv, RingInv
  <2> QED BY <1>0, <2>1, <2>2, <2>3, RingFrame
<1>4. CASE FlushWrite
  <2>1. chunksOut = 0 /\ UNCHANGED <<used, chunksOut, writeCh>> /\ InFlight = 0
    BY <1>0, <1>4 DEF FlushWrite, InFlight
  <2>2. CASE UNCHANGED <<file, wHead>> /\ wpc' = "panic" /\ UNCHANGED <<stage, wreq>>
    <3>1. InFlight' = InFlight
      BY <2>1, <2>2 DEF InFlight
    <3>2. WriterInv'
      BY <2>1, <2>2 DEF WriterInv, RingInv, Unmarked
    <3> QED BY <1>0, <2>1, <2>2, <3>1, <3>2, RingFrame
  <2>3. CASE UNCHANGED <<file, wHead>> /\ AfterFlush(stageN, stage)
    <3>1. /\ wpc' \in {"select", "panic", "large", "done"}
          /\ Unmarked(stage') /\ wreq'.tid # TombstoneID
      BY <2>3, AfterFlushUnmarked DEF RingInv, WriterInv
    <3>2. InFlight' = InFlight
      BY <2>1, <3>1 DEF InFlight
    <3>3. WriterInv'
      BY <2>1, <3>1 DEF WriterInv, RingInv
    <3> QED BY <1>0, <2>1, <2>3, <3>2, <3>3, RingFrame
  <2>5. CASE UNCHANGED <<file, wHead>> /\ AfterFlush(0, EmptyPage)
    <3>1. Unmarked(EmptyPage) /\ EmptyPage \in Page
      BY ConstantTypes DEF EmptyPage, Unmarked
    <3>2. /\ wpc' \in {"select", "panic", "large", "done"}
          /\ Unmarked(stage') /\ wreq'.tid # TombstoneID
      BY <2>5, <3>1, AfterFlushUnmarked DEF RingInv, WriterInv
    <3>3. InFlight' = InFlight
      BY <2>1, <3>2 DEF InFlight
    <3>4. WriterInv'
      BY <2>1, <3>2 DEF WriterInv, RingInv
    <3> QED BY <1>0, <2>1, <2>5, <3>3, <3>4, RingFrame
  <2>4. CASE /\ used + 1 <= Pages
             /\ file' = [file EXCEPT ![wHead] = stage]
             /\ wHead' = Advance(wHead, 1)
             /\ wpc' = "publish"
             /\ UNCHANGED <<stageVars, wreq>>
    <3>1. InFlight' = 1
      BY <2>1, <2>4 DEF InFlight
    <3>2. /\ Advance(wHead, 1) = Advance(rHead, used + InFlight + 1)
          /\ \A i \in 0 .. used + InFlight :
               /\ i > 0 => Unmarked(RingPage(i)')
               /\ LargeTomb(RingPage(i)') => i = 0 /\ spc' = "free"
      <4>1. used + InFlight < Pages /\ Unmarked(stage) /\ stage \in Page
        BY <2>1, <2>4 DEF RingInv, WriterInv
      <4> QED BY <1>0, <2>4, <4>1, AppendPage
    <3>3. RingAligned'
      <4>1. used' + InFlight' = used + InFlight + 1 /\ used' + InFlight' <= Pages
        BY <2>1, <2>4, <3>1
      <4>2. wHead' = Advance(rHead', used' + InFlight')
        BY <1>0, <2>4, <3>2, <4>1 DEF Advance
      <4> QED BY <4>1, <4>2 DEF RingAligned, Advance
    <3>4. FileInv'
      BY <2>1, <3>1, <3>2 DEF FileInv, LargeTomb, LargeHead, Unmarked
    <3>5. WriterInv'
      BY <2>1, <2>4 DEF WriterInv, RingInv, Unmarked
    <3>6. SweeperInv'
      BY <1>0, <2>1 DEF SweeperInv, RingInv, LargeTomb, LargeHead, Rec, Partial, LargeRec
    <3> QED BY <2>1, <3>3, <3>4, <3>5, <3>6 DEF RingInv
  <2> QED BY <1>4, <2>2, <2>3, <2>4, <2>5 DEF FlushWrite
<1>5. CASE LargeWrite /\ wreq' = NoReq /\ UNCHANGED <<file, wHead>> /\ CanFail("large")
           /\ wpc' = "select" /\ chunksOut' = 0
           /\ history' = [Meet(Overwritten, "overwritten") EXCEPT
                 ![wreq.data] = Append(@, IF chunksOut = 0 THEN "dropped" ELSE "torn")]
  <2>1. chunksOut = 0
    BY <1>5, FailedChunkTears DEF CanFail
  <2>2. stage' \in {EmptyPage, ChunkPage(wreq, 0)} /\ UNCHANGED <<used, writeCh>> /\ wpc = "large"
    BY <1>5, <2>1 DEF LargeWrite
  <2>3. Unmarked(ChunkPage(wreq, 0))
    BY DEF ChunkPage, Unmarked, RingInv, WriterInv
  <2>4. InFlight' = InFlight
    BY <1>5, <2>1, <2>2 DEF InFlight
  <2>5. WriterInv'
    <3>1. Unmarked(stage')
      BY <1>0, <2>2, <2>3
    <3> QED BY <1>0, <1>5, <2>1, <2>2, <3>1 DEF WriterInv, RingInv
  <2> QED BY <1>0, <1>5, <2>2, <2>4, <2>5, RingFrame
<1>6. CASE LargeWrite /\ file' = [file EXCEPT ![wHead] = ChunkPage(wreq, chunksOut)]
           /\ wHead' = Advance(wHead, 1) /\ chunksOut' = chunksOut + 1
           /\ wpc' = (IF MoreChunks(wreq, chunksOut + 1) THEN "large" ELSE "publish")
           /\ UNCHANGED wreq
  <2> DEFINE q == ChunkPage(wreq, chunksOut)
             N == NumChunks(wreq.len)
  <2>1. /\ file' = [file EXCEPT ![wHead] = q] /\ wHead' = Advance(wHead, 1)
        /\ chunksOut' = chunksOut + 1
        /\ wpc' = IF MoreChunks(wreq, chunksOut + 1) THEN "large" ELSE "publish"
        /\ UNCHANGED <<wreq, used, writeCh>>
        /\ stage' \in {EmptyPage, q}
    BY <1>6 DEF LargeWrite
  <2>2. q \in Page /\ Unmarked(q)
    <3>1. q \in Page
      BY ChunkPageType
    <3>2. Unmarked(q)
      BY DEF ChunkPage, Unmarked, RingInv, WriterInv
    <3> QED BY <3>1, <3>2
  <2>3. N \in Nat /\ N >= 1
    BY NumChunksType, NumChunksPositive DEF Slot
  <2>4. InFlight = chunksOut /\ InFlight' = chunksOut + 1
    BY <1>6, <1>0, <2>1 DEF InFlight, LargeWrite
  <2>5. used + N <= Pages /\ chunksOut < N
    <3>1. CASE chunksOut = 0
      BY <1>6, <2>3, <3>1 DEF LargeWrite, Claim
    <3>2. CASE chunksOut # 0
      BY <1>0, <1>6, <3>2 DEF LargeWrite, RingInv, WriterInv
    <3> QED BY <3>1, <3>2
  <2>6. MoreChunks(wreq, chunksOut + 1) <=> chunksOut + 1 < N
    BY <1>0, ChunkCount
  <2> HIDE DEF q, N
  <2>7. used + InFlight < Pages
    BY <1>0, <2>3, <2>4, <2>5
  <2>8. /\ Advance(wHead, 1) = Advance(rHead, used + InFlight + 1)
        /\ \A i \in 0 .. used + InFlight :
             /\ i > 0 => Unmarked(RingPage(i)')
             /\ LargeTomb(RingPage(i)') => i = 0 /\ spc' = "free"
    BY <1>0, <2>1, <2>2, <2>7, AppendPage
  <2>9. RingAligned'
    BY <1>0, <2>1, <2>3, <2>4, <2>5, <2>8 DEF RingAligned, Advance
  <2>10. FileInv'
    BY <1>0, <2>1, <2>4, <2>8 DEF FileInv, LargeTomb, LargeHead, Unmarked
  <2>11. WriterInv'
    <3>1. chunksOut + 1 > 0 => wpc' \in {"large", "publish", "wake"}
      BY <2>1
    <3>2. wpc' = "large" => used' + N <= Pages /\ chunksOut' < N
      BY <2>1, <2>5, <2>6
    <3>3. wpc' = "publish" => chunksOut' = N
      BY <1>0, <2>1, <2>3, <2>5, <2>6
    <3>4. Unmarked(stage')
      BY <1>0, <2>1, <2>2
    <3> QED BY <2>1, <3>1, <3>2, <3>3, <3>4 DEF WriterInv, RingInv, N
  <2>12. SweeperInv'
    BY <1>0, <2>1 DEF SweeperInv, RingInv, LargeTomb, LargeHead, Rec, Partial, LargeRec
  <2> QED BY <2>1, <2>9, <2>10, <2>11, <2>12 DEF RingInv
<1>7. CASE LargeWrite
  BY <1>5, <1>6, <1>7 DEF LargeWrite
<1>8. CASE Publish
  <2>1. UNCHANGED <<file, wHead, wreq, chunksOut, writeCh>> /\ wpc' = "wake"
    BY <1>8 DEF Publish
  <2>2. /\ InFlight \in Nat /\ InFlight >= 1 /\ InFlight' = 0
        /\ used' = used + InFlight
    BY <1>0, <1>8 DEF Publish, InFlight, RingInv, WriterInv
  <2>3. used' \in 0 .. Pages
    BY <2>2 DEF RingInv, RingAligned
  <2>4. RingAligned'
    BY <1>0, <2>1, <2>2, <2>3 DEF RingAligned, RingInv, Advance
  <2>5. FileInv'
    BY <1>0, <2>1, <2>2 DEF FileInv, RingInv, RingPage, Advance, LargeTomb, LargeHead, Unmarked
  <2>6. WriterInv'
    BY <1>0, <1>8, <2>1 DEF WriterInv, RingInv, Publish, Unmarked
  <2>7. SweeperInv'
    BY <1>0, <2>2 DEF SweeperInv, RingInv, LargeTomb, LargeHead, Rec, Partial, LargeRec, Scan
  <2> QED BY <2>3, <2>4, <2>5, <2>6, <2>7 DEF RingInv
<1>9. CASE WakeSweeper
  <2>1. UNCHANGED <<used, file, wHead, writeCh>> /\ wpc = "wake" /\ chunksOut' = 0
    BY <1>0, <1>9 DEF WakeSweeper
  <2>2. /\ wpc' \in {"select", "panic", "large", "done"}
        /\ Unmarked(stage') /\ wreq'.tid # TombstoneID
    <3>1. CASE AfterFlush(0, EmptyPage)
      BY <1>0, <3>1, ConstantTypes, AfterFlushUnmarked
    <3>2. CASE wpc' = "select" /\ wreq' = NoReq /\ UNCHANGED stageVars
      BY <1>0, <3>2 DEF RingInv, WriterInv
    <3> QED BY <1>9, <3>1, <3>2 DEF WakeSweeper
  <2>3. InFlight' = InFlight
    BY <2>1, <2>2 DEF InFlight
  <2>4. WriterInv'
    BY <2>1, <2>2 DEF WriterInv, RingInv
  <2> QED BY <1>0, <2>1, <2>3, <2>4, RingFrame
<1> QED BY <1>1, <1>2, <1>3, <1>4, <1>7, <1>8, <1>9 DEF Writer

\* Advancing by no page stays at the position.
LEMMA AdvanceZero ==
  ASSUME NEW h \in 0 .. Pages - 1
  PROVE  Advance(h, 0) = h
BY AdvanceLap

\* A step of the sweeper that leaves count, positions and pages alone.
LEMMA RingScanFrame ==
  ASSUME TypeInv, RingInv, spc # "free",
         UNCHANGED <<used, file, rHead, writerVars, writeCh>>, SweeperInv'
  PROVE  RingInv'
<1>1. InFlight' = InFlight
  BY DEF InFlight
<1>2. RingAligned' /\ WriterInv'
  BY <1>1 DEF RingInv, RingAligned, WriterInv, Advance, Unmarked
<1>3. FileInv'
  BY <1>1 DEF RingInv, FileInv, RingPage, Advance, LargeTomb, LargeHead, Unmarked
<1> QED BY <1>2, <1>3 DEF RingInv

\* The sweeper gives c of the counted pages back.
LEMMA RingFreed ==
  ASSUME TypeInv, RingInv, NEW c \in 1 .. used, spc' = "signal",
         rHead' = Advance(rHead, c), used' = used - c,
         UNCHANGED <<file, writerVars, writeCh>>
  PROVE  RingInv'
<1> DEFINE n == used + InFlight
<1>1. /\ InFlight' = InFlight /\ InFlight \in Nat /\ rHead \in 0 .. Pages - 1
      /\ used \in 0 .. Pages /\ n \in 0 .. Pages /\ wHead = Advance(rHead, n)
  BY InFlightType DEF InFlight, TypeInv, TypeOK, RingInv, RingAligned
<1>2. ASSUME NEW i \in 0 .. n - c
      PROVE  Advance(rHead', i) = Advance(rHead, c + i)
  <2> HIDE DEF n
  <2>1. c \in 0 .. Pages /\ i \in 0 .. Pages /\ c + i <= Pages
    BY <1>1
  <2> QED BY <1>1, <2>1, AdvanceAdd
<1>3. RingAligned'
  <2>1. Advance(rHead', n - c) = Advance(rHead, c + (n - c))
    BY <1>1, <1>2
  <2>2. wHead' = Advance(rHead', used' + InFlight')
    BY <1>1, <2>1
  <2> QED BY <1>1, <2>2 DEF RingAligned, Advance
<1>4. FileInv'
  <2> SUFFICES ASSUME NEW i \in 0 .. used' + InFlight' - 1
               PROVE  Unmarked(RingPage(i)') /\ ~LargeTomb(RingPage(i)')
    BY DEF FileInv, Unmarked, LargeTomb, LargeHead
  <2>1. c + i \in 1 .. used + InFlight - 1 /\ i \in 0 .. n - c
    BY <1>1
  <2>2. RingPage(i)' = RingPage(c + i)
    BY <1>2, <2>1 DEF RingPage, Advance
  <2>3. RingPage(c + i) \in Page /\ Unmarked(RingPage(c + i))
    BY <2>1, RingPageType DEF RingInv, FileInv
  <2> QED BY <2>2, <2>3, UnmarkedNotTomb
<1>5. WriterInv'
  <2>1. NumChunks(wreq.len) \in Nat
    BY NumChunksType DEF TypeInv, TypeOK, Slot
  <2>2. used' + NumChunks(wreq.len) <= used + NumChunks(wreq.len)
    BY <1>1, <2>1
  <2>3. wpc = "large" /\ chunksOut > 0 => used' + NumChunks(wreq.len) <= Pages
    BY <1>1, <2>1, <2>2 DEF RingInv, WriterInv
  <2> QED BY <2>3 DEF RingInv, WriterInv, Unmarked
<1>6. SweeperInv'
  BY DEF SweeperInv
<1> QED BY <1>1, <1>3, <1>4, <1>5, <1>6 DEF RingInv

\* Consuming a record marks a large one only when the scan ends with it.
LEMMA RingConsume ==
  ASSUME TypeInv, RingInv, AtRecord \/ spc = "age", Rec.tid # TombstoneID, ~Partial,
         scan.page.cont = NoChunk, NEW o, Consume(o), UNCHANGED used
  PROVE  SweeperInv'
<1> DEFINE N == NumChunks(Rec.len)
<1>1. /\ scan.pos \in 1 .. Len(scan.page.slots) /\ N \in Nat /\ N >= 1
      /\ spc \in {"scan", "age"} /\ scan \in Scan
  <2>1. scan.pos \in 1 .. Len(scan.page.slots) /\ Rec \in Slot /\ N \in Nat
    BY RecType
  <2>2. N >= 1
    BY <2>1, NumChunksPositive DEF Slot
  <2> QED BY <2>1, <2>2 DEF AtRecord, TypeInv, TypeOK
<1>2. 1 <= scan.chunks /\ scan.chunks <= scan.used /\ scan.used <= used /\ ~LargeTomb(scan.page)
  BY <1>1 DEF RingInv, SweeperInv
<1>3. CASE LargeRec
  <2>1. /\ scan'.chunks = N /\ scan'.used = scan.used /\ scan'.fully = scan.fully
        /\ spc' = "writeback"
    BY <1>1, <1>3 DEF Consume, Scan
  <2>2. N <= scan.used /\ scan.fully
    BY <1>1, <1>3 DEF Partial, LargeRec, RingInv, SweeperInv, Scan
  <2> QED BY <1>1, <1>2, <2>1, <2>2 DEF SweeperInv
<1>4. CASE ~LargeRec
  <2>1. /\ scan'.chunks = scan.chunks /\ scan'.used = scan.used
        /\ scan'.pos = scan.pos + 1 /\ spc' = "scan"
        /\ scan'.page.slots = [scan.page.slots EXCEPT ![scan.pos].tid = TombstoneID]
    BY <1>1, <1>4 DEF Consume, Scan, Page
  <2>2. ~LargeTomb(scan'.page)
    <3> SUFFICES ASSUME LargeTomb(scan'.page) PROVE FALSE
      OBVIOUS
    <3>1. scan.page.slots \in Seq(Slot) /\ scan.page.slots # <<>> /\ 1 \in 1 .. Len(scan.page.slots)
      BY <1>1 DEF Scan, Page
    <3>2. CASE scan.pos = 1
      <4>1. scan'.page.slots[1].len = scan.page.slots[1].len
        BY <2>1, <3>1, <3>2 DEF Slot
      <4> QED BY <1>4, <3>2, <4>1 DEF LargeTomb, LargeHead, LargeRec, Rec
    <3>3. CASE scan.pos # 1
      <4>1. scan'.page.slots[1] = scan.page.slots[1]
        BY <2>1, <3>1, <3>3
      <4> QED BY <1>2, <3>1, <4>1 DEF LargeTomb, LargeHead
    <3> QED BY <3>2, <3>3
  <2> QED BY <1>1, <1>2, <2>1, <2>2 DEF SweeperInv
<1> QED BY <1>3, <1>4

\* Every step of runSweeper and processPage keeps the ring invariant.
LEMMA RingSweeper ==
  ASSUME TypeInv, RingInv, Sweeper
  PROVE  RingInv'
<1> USE DEF TypeInv, TypeOK
<1>1. CASE SweepEmpty \/ SweepWake \/ SweepWriterDone \/ Signal
  <2>1. /\ spc # "free" /\ spc' \in {"done", "wait", "top"}
        /\ UNCHANGED <<used, file, rHead, writerVars, writeCh>>
    BY <1>1 DEF SweepEmpty, SweepWake, SweepWriterDone, Signal, ScanStep, SweeperStep
  <2>2. SweeperInv'
    BY <2>1 DEF SweeperInv
  <2> QED BY <2>1, <2>2, RingScanFrame
<1>2. CASE SweepRead
  <2>1. /\ scan' = [page |-> file[rHead], pos |-> 1, used |-> used, fully |-> TRUE,
                    chunks |-> 1, dirty |-> FALSE, minRem |-> 0]
        /\ spc = "top" /\ spc' = "scan" /\ used # 0
        /\ UNCHANGED <<used, file, rHead, writerVars, writeCh>>
    BY <1>2 DEF SweepRead, NoScan, ScanStep, SweeperStep
  <2>2. 0 \in 0 .. used + InFlight - 1 /\ used >= 1
    BY <2>1, InFlightType DEF RingInv
  <2>3. ~LargeTomb(file[rHead])
    BY <2>1, <2>2, AdvanceZero DEF RingInv, FileInv, RingPage
  <2>4. SweeperInv'
    BY <2>1, <2>2, <2>3 DEF SweeperInv
  <2> QED BY <2>1, <2>4, RingScanFrame
<1>3. CASE SweepReadFail
  <2>1. /\ 1 \in 1 .. used /\ spc' = "signal" /\ rHead' = Advance(rHead, 1)
        /\ used' = used - 1 /\ UNCHANGED <<file, writerVars, writeCh>>
    BY <1>3 DEF SweepReadFail, SweeperStep, RingInv
  <2> QED BY <2>1, RingFreed
<1>4. CASE ScanEnd \/ ScanPartial \/ ScanUndecided
  <2>1. /\ spc = "scan" /\ spc' \in {"writeback", "age"}
        /\ scan'.page = scan.page /\ scan'.used = scan.used /\ scan'.chunks = scan.chunks
        /\ UNCHANGED <<used, file, rHead, writerVars, writeCh>>
    BY <1>4 DEF ScanEnd, ScanPartial, ScanUndecided, Decidable, AtRecord, ScanStep,
                SweeperStep, Scan
  <2>2. spc' = "age" => /\ scan' = scan /\ Decidable
    BY <1>4 DEF ScanEnd, ScanPartial, ScanUndecided
  <2>3. SweeperInv'
    BY <2>1, <2>2 DEF RingInv, SweeperInv, Decidable, AtRecord, Rec, Partial, LargeRec,
                      LargeTomb, LargeHead
  <2> QED BY <2>1, <2>3, RingScanFrame
<1>10. CASE ScanPayload
  <2>1. /\ spc = "scan" /\ spc' = "writeback" /\ scan.page.cont # NoChunk
        /\ UNCHANGED <<used, file, rHead, writerVars, writeCh>>
    BY <1>10 DEF ScanPayload, ScanStep, SweeperStep
  <2>2. 1 <= scan.chunks /\ scan.chunks <= scan.used /\ scan.used <= used
    BY <2>1 DEF RingInv, SweeperInv
  <2>3. /\ scan'.page = scan.page /\ scan'.used = scan.used
        /\ 1 <= scan'.chunks /\ scan'.chunks <= scan.used
    <3>1. scan.used \in Int /\ scan.chunks \in Int
      BY DEF Scan
    <3> QED BY <1>10, <2>2, <3>1, PayloadScan
  <2>4. ~LargeTomb(scan'.page)
    BY <2>1, <2>3 DEF LargeTomb, LargeHead
  <2>5. SweeperInv'
    BY <2>1, <2>2, <2>3, <2>4 DEF SweeperInv
  <2> QED BY <2>1, <2>5, RingScanFrame
<1>5. CASE ScanTombstone
  <2>1. /\ spc = "scan" /\ AtRecord /\ Rec.tid = TombstoneID
        /\ UNCHANGED <<used, file, rHead, writerVars, writeCh>>
    BY <1>5 DEF ScanTombstone, AtRecord, ScanStep, SweeperStep
  <2>2. ~LargeRec
    <3>1. ~LargeTomb(scan.page)
      BY <2>1 DEF RingInv, SweeperInv
    <3>2. scan.pos \in 1 .. Len(scan.page.slots) /\ scan.page.slots \in Seq(Slot)
      BY <2>1, RecType DEF Scan, Page
    <3>3. scan.page.slots # <<>>
      BY SMTT(30), <3>2
    <3>4. LargeRec => LargeTomb(scan.page)
      BY <2>1, <3>3 DEF LargeTomb, LargeHead, LargeRec, Rec, AtRecord
    <3> QED BY <3>1, <3>4
  <2>3. scan' = [scan EXCEPT !.pos = scan.pos + 1] /\ spc' = "scan"
    BY <1>5, <2>1, <2>2 DEF ScanTombstone, Scan
  <2>4. scan.pos \in Nat /\ scan.pos >= 1
    BY <2>1, RecType
  <2>5. /\ scan'.page = scan.page /\ scan'.used = scan.used /\ scan'.chunks = scan.chunks
        /\ scan'.pos # 1
    <3>1. scan.pos + 1 # 1
      BY <2>4
    <3> QED BY <2>3, <3>1 DEF Scan
  <2>6. SweeperInv'
    BY <2>1, <2>3, <2>5 DEF RingInv, SweeperInv
  <2> QED BY <2>1, <2>6, RingScanFrame
<1>6. CASE ScanMatch \/ AgeEvict
  <2>1. /\ AtRecord \/ spc = "age"
        /\ Rec.tid # TombstoneID /\ ~Partial /\ scan.page.cont = NoChunk
        /\ UNCHANGED <<used, file, rHead, writerVars, writeCh>>
    BY <1>6 DEF ScanMatch, AgeEvict, Decidable, AtRecord, ScanStep, SweeperStep, RingInv,
                SweeperInv
  <2>2. \E o \in Outcomes : Consume(o)
    BY <1>6 DEF ScanMatch, AgeEvict, Outcomes
  <2>3. SweeperInv'
    BY <2>1, <2>2, RingConsume
  <2> QED BY <2>1, <2>3, RingScanFrame DEF AtRecord
<1>7. CASE AgeKeep
  <2>1. /\ spc = "age" /\ spc' \in {"writeback", "scan"} /\ scan.pos >= 1
        /\ UNCHANGED <<used, file, rHead, writerVars, writeCh>>
    BY <1>7 DEF AgeKeep, ScanStep, SweeperStep, CursorOK
  <2>2. /\ scan'.page = scan.page /\ scan'.used = scan.used /\ scan'.chunks = scan.chunks
        /\ scan'.pos # 1
    <3>1. scan.pos \in Nat /\ scan.pos + 1 # 1
      BY <2>1 DEF Scan
    <3>2. scan' = [scan EXCEPT !.fully = FALSE,
                              !.minRem = MinRem(scan.minRem, DecisionWait - Age),
                              !.pos = scan.pos + 1]
      BY <1>7 DEF AgeKeep, Scan
    <3> QED BY <3>1, <3>2 DEF Scan
  <2>3. SweeperInv'
    BY <2>1, <2>2 DEF RingInv, SweeperInv
  <2> QED BY <2>1, <2>3, RingScanFrame
<1>8. CASE Writeback
  <2>1. /\ spc = "writeback" /\ file' \in {file, [file EXCEPT ![rHead] = scan.page]}
        /\ UNCHANGED <<used, rHead, writerVars, writeCh>>
        /\ \/ scan.fully /\ spc' = "free" /\ scan' = scan
           \/ ~scan.fully /\ spc' = "wait"
    BY <1>8 DEF Writeback, SweeperStep
  <2>2. InFlight' = InFlight /\ InFlight \in Nat
    BY <2>1, InFlightType DEF InFlight
  <2>3. RingAligned' /\ WriterInv'
    BY <2>1, <2>2 DEF RingInv, RingAligned, WriterInv, Advance, Unmarked
  <2>4. SweeperInv'
    BY <2>1 DEF RingInv, SweeperInv
  <2>5. LargeTomb(scan.page) => spc' = "free"
    BY <2>1 DEF RingInv, SweeperInv
  <2>6. ASSUME NEW i \in 0 .. used + InFlight - 1
        PROVE  RingPage(i)' \in IF i = 0 THEN {RingPage(i), scan.page} ELSE {RingPage(i)}
    <3>1. RingPage(i)' = file'[Advance(rHead, i)]
      BY <2>1 DEF RingPage, Advance
    <3>2. CASE i = 0
      BY <2>1, <3>1, <3>2, AdvanceZero DEF RingPage
    <3>3. CASE i # 0
      <4>1. 0 \in 0 .. Pages /\ i \in 0 .. Pages /\ 0 < i /\ i < Pages
        BY <2>2, <3>3 DEF RingInv, RingAligned
      <4>2. Advance(rHead, 0) # Advance(rHead, i)
        BY <4>1, AdvanceApart
      <4>3. Advance(rHead, i) # rHead
        BY <4>2, AdvanceZero
      <4>4. rHead \in Int /\ i \in Int
        BY <4>1
      <4>5. Advance(rHead, i) \in 0 .. Pages - 1
        BY ONLY <4>4, AdvanceType
      <4>6. file'[Advance(rHead, i)] = file[Advance(rHead, i)]
        BY <2>1, <4>3, <4>5
      <4> QED BY <3>1, <3>3, <4>6 DEF RingPage
    <3> QED BY <3>2, <3>3
  <2>7. FileInv'
    <3> SUFFICES ASSUME NEW i \in 0 .. used + InFlight - 1
                 PROVE  /\ i > 0 => Unmarked(RingPage(i)')
                        /\ LargeTomb(RingPage(i)') => i = 0 /\ spc' = "free"
      BY <2>1, <2>2 DEF FileInv, Unmarked, LargeTomb, LargeHead
    <3>1. CASE i = 0
      BY <2>1, <2>5, <2>6, <3>1 DEF RingInv, FileInv
    <3>2. CASE i # 0
      BY <2>1, <2>6, <3>2 DEF RingInv, FileInv
    <3> QED BY <3>1, <3>2
  <2> QED BY <2>1, <2>3, <2>4, <2>7 DEF RingInv
<1>9. CASE Free
  <2>1. /\ spc = "free" /\ spc' = "signal" /\ rHead' = Advance(rHead, scan.chunks)
        /\ used' = used - scan.chunks /\ UNCHANGED <<file, writerVars, writeCh>>
    BY <1>9 DEF Free, SweeperStep
  <2>2. scan.chunks \in 1 .. used
    BY <2>1 DEF RingInv, SweeperInv, Scan
  <2> QED BY <2>1, <2>2, RingFreed
<1> QED BY <1>1, <1>2, <1>3, <1>4, <1>5, <1>6, <1>7, <1>8, <1>9, <1>10 DEF Sweeper

\* Every step keeps the ring invariant, unless it leaves a large record torn.
LEMMA RingNext ==
  ASSUME ReservedUnused, "large" \notin Faults \/ ~Torn', TypeInv, RingInv, [Next]_vars
  PROVE  RingInv'
<1>1. CASE Writer
  BY <1>1, RingWriter
<1>2. CASE Sweeper
  BY <1>2, RingSweeper
<1>3. CASE ~Writer /\ ~Sweeper
  <2>1. \/ \E tid \in TraceIDs, len \in Lens, lag \in 0 .. MaxLag : Write(tid, len, now - lag)
        \/ \E tid \in TraceIDs : AddInterest(tid)
        \/ AddInterestWake \/ Close \/ Tick
        \/ \E t \in timers : TimerFire(t)
        \/ UNCHANGED vars
    BY <1>3 DEF Next, Halted
  <2> QED BY <2>1, RingCallers
<1> QED BY <1>1, <1>2, <1>3

(* Unless the write of a large record fails half-way, the writer's and the  *)
(* sweeper's private positions agree with the shared count at every step,   *)
(* and the pages in flight lie outside the counted ones: neither goroutine  *)
(* reaches the other's pages, whatever the number of pages, the record      *)
(* lengths and the schedule, and although reads and page writes may fail.   *)
THEOREM RingSafe ==
  ASSUME ReservedUnused, "large" \notin Faults
  PROVE  Spec => []RingAligned
<1>1. Init => TypeInv /\ RingInv
  BY TypeInit, RingInit
<1>2. TypeInv /\ RingInv /\ [Next]_vars => (TypeInv /\ RingInv)'
  BY TypeNext, RingNext
<1>3. RingInv => RingAligned
  BY DEF RingInv
<1> QED BY <1>1, <1>2, <1>3, PTL DEF Spec

(* `used' never leaves the ring, and the sweeper gives back no more pages   *)
(* than are counted when it adds the negative number: a large record that   *)
(* it finds already stamped would free pages that are not its own.          *)
THEOREM CountInRing ==
  ASSUME ReservedUnused, "large" \notin Faults
  PROVE  Spec => []UsedInRing
<1>1. Init => TypeInv /\ RingInv
  BY TypeInit, RingInit
<1>2. TypeInv /\ RingInv /\ [Next]_vars => (TypeInv /\ RingInv)'
  BY TypeNext, RingNext
<1>3. TypeInv /\ RingInv => UsedInRing
  BY DEF RingInv, UsedInRing, SweeperInv, TypeInv, TypeOK, Scan
<1> QED BY <1>1, <1>2, <1>3, PTL DEF Spec
-----------------------------------------------------------------------------
(* The hand-over of freed pages.                                           *)

\* Steps that neither free pages nor take the token keep the writer armed.
LEMMA ArmedFrame ==
  ASSUME WriterArmed, UNCHANGED <<used, wpc, wreq>>,
         pageFreed => pageFreed', spc = "signal" => spc' = "signal" \/ pageFreed'
  PROVE  WriterArmed'
BY DEF WriterArmed, Claim

\* No step leaves a blocked writer without a pending or imminent token.
LEMMA ArmedNext == TypeInv /\ WriterArmed /\ [Next]_vars => WriterArmed'
<1> SUFFICES ASSUME TypeInv, WriterArmed, [Next]_vars PROVE WriterArmed'
  OBVIOUS
<1>1. CASE Writer
  <2>1. CASE WriterFull
    <3>1. /\ UNCHANGED <<used, wreq>> /\ used + Claim > Pages /\ Claim' = Claim
          /\ used \in Int /\ Claim \in Int
      <4>1. NumChunks(wreq.len) \in Nat /\ used \in Int
        BY NumChunksType DEF TypeInv, TypeOK, Slot
      <4>2. Claim' = Claim
        BY <2>1 DEF WriterFull, Claim
      <4> QED BY <2>1, <4>1, <4>2 DEF WriterFull, Claim
    <3> QED BY <3>1 DEF WriterArmed
  <2>2. CASE ~WriterFull
    <3>1. CASE wpc' \notin {"flushWait", "largeWait"}
      BY <3>1 DEF WriterArmed
    <3>2. CASE wpc' \in {"flushWait", "largeWait"}
      <4>1. FALSE
        BY <1>1, <2>2, <3>2 DEF Writer, WriterRecv, WriterTick, WriterClose, FlushWrite,
             WriterFreed, WriterGivesUp, LargeWrite, Publish, WakeSweeper, AfterFlush,
             Stash, Over
      <4> QED BY <4>1
    <3> QED BY <3>1, <3>2
  <2> QED BY <2>1, <2>2
<1>2. CASE Sweeper
  <2>1. CASE Free \/ SweepReadFail
    BY <2>1 DEF Free, SweepReadFail, WriterArmed
  <2>2. CASE ~(Free \/ SweepReadFail)
    <3>1. /\ UNCHANGED <<used, wpc, wreq>> /\ (pageFreed => pageFreed')
          /\ spc = "signal" => pageFreed'
      <4>1. CASE SweepWake \/ SweepWriterDone \/ Writeback \/ Signal
        BY <4>1 DEF SweepWake, SweepWriterDone, Writeback, Signal, SweeperStep
      <4>2. CASE ScanStep /\ spc # "signal"
        BY <4>2 DEF ScanStep, SweeperStep
      <4>3. CASE SweepEmpty \/ SweepRead \/ ScanEnd \/ ScanPayload \/ AgeEvict \/ AgeKeep
        BY <4>2, <4>3 DEF SweepEmpty, SweepRead, ScanEnd, ScanPayload, AgeEvict, AgeKeep
      <4>4. CASE ScanTombstone \/ ScanPartial \/ ScanMatch \/ ScanUndecided
        <5>1. AtRecord /\ ScanStep
          BY <4>4 DEF ScanTombstone, ScanPartial, ScanMatch, ScanUndecided, Decidable
        <5> QED BY <4>2, <5>1 DEF AtRecord
      <4> QED BY <1>2, <2>2, <4>1, <4>3, <4>4 DEF Sweeper
    <3> QED BY <3>1, ArmedFrame
  <2> QED BY <2>1, <2>2
<1>3. CASE ~Writer /\ ~Sweeper
  <2>1. UNCHANGED <<used, wpc, wreq, pageFreed, spc>>
    BY <1>3 DEF Next, Write, AddInterest, AddInterestWake, Close, Tick, TimerFire, Halted,
                SweeperStep, vars
  <2> QED BY <2>1, ArmedFrame
<1> QED BY <1>1, <1>2, <1>3

(* A writer that blocks for pages is never forgotten: once enough pages are *)
(* free, the token is there or the sweeper is about to send it, although    *)
(* the channel holds one token only and a token may be left from earlier.   *)
(* It holds whichever file operations fail.                                 *)
THEOREM WriterNeverForgotten == Spec => []WriterArmed
<1>1. Init => WriterArmed
  BY DEF Init, WriterArmed
<1> QED BY <1>1, TypeInit, TypeNext, ArmedNext, PTL DEF Spec
-----------------------------------------------------------------------------
(* Pressure.  The sweeper acts on the `used' it loaded when it read the    *)
(* page; only the writer has changed the counter since, and upwards.       *)

\* An outcome that is appended is the last one.
LEMMA AppendLast ==
  ASSUME NEW h \in Seq(Outcomes), NEW o \in Outcomes, NEW g, g = Append(h, o)
  PROVE  g[Len(g)] = o
BY AppendProperties

\* A record that Meet changes has met the outcome given.
LEMMA MeetLast ==
  ASSUME TypeInv, NEW ds, NEW o \in Outcomes, NEW d \in Data, Meet(ds, o)[d] # history[d]
  PROVE  Meet(ds, o)[d][Len(Meet(ds, o)[d])] = o
<1>1. history[d] \in Seq(Outcomes)
  BY DEF TypeInv, TypeOK
<1>2. Meet(ds, o)[d] = Append(history[d], o)
  BY DEF Meet
<1> QED BY <1>1, <1>2, AppendLast

\* So has the record that processPage consumes.
LEMMA ConsumeLast ==
  ASSUME TypeInv, AtRecord \/ spc = "age", NEW o \in Outcomes, Consume(o),
         NEW d \in Data, history'[d] # history[d]
  PROVE  history'[d][Len(history'[d])] = o
<1>1. history \in [Data -> Seq(Outcomes)] /\ history[d] \in Seq(Outcomes)
  BY DEF TypeInv, TypeOK
<1>2. history'[d] = Append(history[d], o)
  BY <1>1 DEF Consume
<1> QED BY <1>1, <1>2, AppendLast

\* The sweeper has seen writerDone only if runWriter has returned.
ClosingInv == closing => wpc = "done"

\* A goroutine that has returned stays that way.
LEMMA ClosingNext == ClosingInv /\ [Next]_vars => ClosingInv'
<1> SUFFICES ASSUME ClosingInv, [Next]_vars PROVE ClosingInv'
  OBVIOUS
<1>1. CASE Writer
  <2>1. wpc # "done"
    BY <1>1 DEF Writer, WriterRecv, WriterTick, WriterClose, FlushWrite, WriterFull,
                WriterFreed, WriterGivesUp, LargeWrite, Publish, WakeSweeper
  <2>2. WriterStep
    BY <1>1 DEF Writer, WriterRecv, WriterTick, WriterClose, FlushWrite, WriterFull,
                WriterFreed, WriterGivesUp, LargeWrite, Publish, WakeSweeper
  <2> QED BY <2>1, <2>2 DEF ClosingInv, WriterStep
<1>2. CASE Sweeper
  <2>1. UNCHANGED wpc /\ (closing' = closing \/ wpc = "done")
    BY <1>2 DEF Sweeper, SweepEmpty, SweepRead, SweepReadFail, SweepWake, SweepWriterDone,
         ScanEnd, ScanPayload, ScanTombstone, ScanPartial, ScanMatch, ScanUndecided, AgeEvict, AgeKeep,
         Writeback, Free, Signal, ScanStep, SweeperStep
  <2> QED BY <2>1 DEF ClosingInv
<1>3. CASE ~Writer /\ ~Sweeper
  <2>1. UNCHANGED <<wpc, closing>>
    BY <1>3 DEF Next, Write, AddInterest, AddInterestWake, Close, Tick, TimerFire, Halted,
                SweeperStep, vars
  <2> QED BY <2>1 DEF ClosingInv
<1> QED BY <1>1, <1>2, <1>3

\* Only the eviction of a record that is not old enough is an early one.
LEMMA EarlyIsAnEviction ==
  ASSUME TypeInv, [Next]_vars, NEW d \in Data, history'[d] # history[d],
         history'[d][Len(history'[d])] = "early"
  PROVE  AgeEvict /\ ~(Age >= DecisionWait)
<1> USE DEF Outcomes
<1>1. CASE WriterGivesUp
  <2>1. PICK ds : history' = Meet(ds, "dropped")
    BY <1>1 DEF WriterGivesUp
  <2> QED BY <2>1, MeetLast
<1>2. CASE LargeWrite
  <2>1. CASE history' = Meet(Overwritten, "overwritten")
    BY <2>1, MeetLast
  <2>2. CASE history' = [Meet(Overwritten, "overwritten") EXCEPT
               ![wreq.data] = Append(@, IF chunksOut = 0 THEN "dropped" ELSE "torn")]
    <3> DEFINE m == Meet(Overwritten, "overwritten")
               o == IF chunksOut = 0 THEN "dropped" ELSE "torn"
    <3>1. m \in [Data -> Seq(Outcomes)]
      BY MeetType
    <3>2. o \in Outcomes /\ o # "early"
      OBVIOUS
    <3>3. m[d] # history[d] => m[d][Len(m[d])] = "overwritten"
      BY MeetLast
    <3> HIDE DEF m, o
    <3>4. history' = [m EXCEPT ![wreq.data] = Append(m[wreq.data], o)]
      BY <2>2 DEF m, o
    <3>5. CASE d = wreq.data
      <4>1. history'[d] = Append(m[d], o) /\ m[d] \in Seq(Outcomes)
        BY <3>1, <3>4, <3>5
      <4> QED BY <3>2, <4>1, AppendLast
    <3>6. CASE d # wreq.data
      <4>1. history'[d] = m[d]
        BY <3>1, <3>4, <3>6
      <4> QED BY <3>3, <4>1
    <3> QED BY <3>5, <3>6
  <2> QED BY <1>2, <2>1, <2>2 DEF LargeWrite
<1>3. CASE SweepReadFail
  BY <1>3, MeetLast DEF SweepReadFail
<1>4. CASE ScanMatch
  <2>1. PICK o \in {"corrupt", "delivered"} : Consume(o)
    BY <1>4 DEF ScanMatch
  <2>2. AtRecord
    BY <1>4 DEF ScanMatch, Decidable
  <2> QED BY <2>1, <2>2, ConsumeLast
<1>5. CASE AgeEvict
  <2>1. Consume(IF Age >= DecisionWait THEN "evicted" ELSE "early") /\ spc = "age"
    BY <1>5 DEF AgeEvict
  <2>2. CASE Age >= DecisionWait
    BY <2>1, <2>2, ConsumeLast
  <2> QED BY <1>5, <2>2
<1>7. CASE FlushWrite
  <2>1. history' = Meet(Staged, "unflushed")
    BY <1>7 DEF FlushWrite
  <2> QED BY <2>1, MeetLast
<1>6. CASE /\ ~WriterGivesUp /\ ~LargeWrite /\ ~FlushWrite
           /\ ~SweepReadFail /\ ~ScanMatch /\ ~AgeEvict
  <2>1. CASE Writer
    BY <1>6, <2>1 DEF Writer, WriterRecv, WriterTick, WriterClose, WriterFull,
         WriterFreed, Publish, WakeSweeper
  <2>2. CASE Sweeper
    BY <1>6, <2>2 DEF Sweeper, SweepEmpty, SweepRead, SweepWake, SweepWriterDone,
         ScanEnd, ScanPayload, ScanTombstone, ScanPartial, ScanUndecided, AgeKeep, Writeback, Free, Signal
  <2>3. CASE ~Writer /\ ~Sweeper
    BY <2>3 DEF Next, Write, AddInterest, AddInterestWake, Close, Tick, TimerFire, Halted,
                SweeperStep, vars
  <2> QED BY <2>1, <2>2, <2>3
<1> QED BY <1>1, <1>2, <1>3, <1>4, <1>5, <1>6, <1>7

(* A record is given up before its window is over only while more than      *)
(* three quarters of the ring are counted or the writer has returned,       *)
(* although the sweeper compares the count it loaded at the start of the    *)
(* page and may evict much later.                                           *)
THEOREM PressureIsReal ==
  ASSUME ReservedUnused, "large" \notin Faults
  PROVE  Spec => EarlyOnlyUnderPressure
<1> DEFINE A == \A d \in Data :
                  history'[d] # history[d] /\ history'[d][Len(history'[d])] = "early"
                    => 4 * used > 3 * Pages \/ wpc = "done"
<1>1. Init => TypeInv /\ RingInv /\ ClosingInv
  BY TypeInit, RingInit DEF Init, ClosingInv
<1>2. TypeInv /\ RingInv /\ ClosingInv /\ [Next]_vars => (TypeInv /\ RingInv /\ ClosingInv)'
  BY TypeNext, RingNext, ClosingNext
<1>3. TypeInv /\ RingInv /\ ClosingInv /\ [Next]_vars => [A]_vars
  <2> SUFFICES ASSUME TypeInv, RingInv, ClosingInv, [Next]_vars, NEW d \in Data,
                      history'[d] # history[d], history'[d][Len(history'[d])] = "early"
               PROVE  4 * used > 3 * Pages \/ wpc = "done"
    OBVIOUS
  <2>1. AgeEvict /\ ~(Age >= DecisionWait)
    BY EarlyIsAnEviction
  <2>2. spc = "age" /\ (4 * scan.used > 3 * Pages \/ closing)
    BY <2>1 DEF AgeEvict, Pressure
  <2>3. scan.used <= used /\ scan.used \in Int /\ used \in Int
    BY <2>2 DEF RingInv, SweeperInv, TypeInv, TypeOK, Scan
  <2> QED BY <2>2, <2>3 DEF ClosingInv
<1> QED BY <1>1, <1>2, <1>3, PTL DEF Spec, EarlyOnlyUnderPressure
-----------------------------------------------------------------------------
(* Decisions are kept.                                                     *)

\* The two parts of a concatenation.
LEMMA ConcatParts ==
  ASSUME NEW S, NEW s \in Seq(S), NEW t \in Seq(S)
  PROVE  /\ Len(s \o t) = Len(s) + Len(t)
         /\ \A m \in 1 .. Len(s) : (s \o t)[m] = s[m]
         /\ \A m \in 1 .. Len(t) : (s \o t)[Len(s) + m] = t[m]
<1>1. Len(s) \in Nat /\ Len(t) \in Nat /\ Len(s \o t) = Len(s) + Len(t)
  BY ConcatProperties
<1>2. \A m \in 1 .. Len(s) + Len(t) :
        (s \o t)[m] = IF m <= Len(s) THEN s[m] ELSE t[m - Len(s)]
  BY ConcatProperties
<1>3. ASSUME NEW m \in 1 .. Len(s) PROVE (s \o t)[m] = s[m]
  BY <1>1, <1>2
<1>4. ASSUME NEW m \in 1 .. Len(t) PROVE (s \o t)[Len(s) + m] = t[m]
  <2>1. /\ Len(s) + m \in 1 .. Len(s) + Len(t) /\ ~(Len(s) + m <= Len(s))
        /\ (Len(s) + m) - Len(s) = m
    BY <1>1
  <2> QED BY <1>2, <2>1
<1> QED BY <1>1, <1>3, <1>4

\* Renewing an entry keeps every entry of the list, the renewed one with a
\* fresh time.
LEMMA RenewedKeeps ==
  ASSUME TypeInv, NEW list \in Seq(Entry), NEW tid \in TraceIDs, NEW k \in 1 .. Len(list)
  PROVE  \E j \in 1 .. Len(Renewed(list, tid)) :
           /\ Renewed(list, tid)[j].id = list[k].id
           /\ Renewed(list, tid)[j].addedAt \in {list[k].addedAt, now}
<1> DEFINE entry == [id |-> tid, addedAt |-> now]
           R == Renewed(list, tid)
           found == {i \in 1 .. Len(list) : list[i].id = tid}
<1>1. entry \in Entry
  BY DEF TypeInv, TypeOK, Entry
<1>2. CASE found = {}
  <2>1. R = <<entry>> \o list
    BY <1>2 DEF Renewed
  <2>2. Len(R) = 1 + Len(list) /\ R[1 + k] = list[k] /\ 1 + k \in 1 .. Len(R)
    <3> HIDE DEF entry
    <3> QED BY <1>1, <2>1, ConcatProperties
  <2> QED BY <2>2
<1>3. CASE found # {}
  <2>1. PICK i \in found :
          R = <<entry>> \o SubSeq(list, 1, i - 1) \o SubSeq(list, i + 1, Len(list))
    BY <1>3 DEF Renewed
  <2>2. i \in 1 .. Len(list) /\ list[i].id = tid /\ Len(list) \in Nat
    BY <2>1
  <2>3. PICK a \in Seq(Entry), b \in Seq(Entry) :
          /\ R = <<entry>> \o a \o b
          /\ Len(a) = i - 1 /\ \A m \in 1 .. i - 1 : a[m] = list[m]
          /\ Len(b) = Len(list) - i /\ \A m \in 1 .. Len(list) - i : b[m] = list[i + m]
    <3>1. /\ SubSeq(list, 1, i - 1) \in Seq(Entry) /\ Len(SubSeq(list, 1, i - 1)) = i - 1
          /\ \A m \in 1 .. i - 1 : SubSeq(list, 1, i - 1)[m] = list[m]
      BY <2>2
    <3>2. /\ SubSeq(list, i + 1, Len(list)) \in Seq(Entry)
          /\ Len(SubSeq(list, i + 1, Len(list))) = Len(list) - i
          /\ \A m \in 1 .. Len(list) - i : SubSeq(list, i + 1, Len(list))[m] = list[i + m]
      BY <2>2
    <3> QED BY <2>1, <3>1, <3>2
  <2>4. PICK ea \in Seq(Entry) :
          /\ R = ea \o b /\ Len(ea) = i /\ ea[1] = entry
          /\ \A m \in 1 .. i - 1 : ea[1 + m] = list[m]
    <3> HIDE DEF entry, R
    <3>1. <<entry>> \o a \in Seq(Entry) /\ Len(<<entry>> \o a) = i /\ (<<entry>> \o a)[1] = entry
      BY <1>1, <2>2, <2>3
    <3>2. \A m \in 1 .. i - 1 : (<<entry>> \o a)[1 + m] = list[m]
      BY <1>1, <2>2, <2>3
    <3> QED BY <2>3, <3>1, <3>2
  <2>5. /\ Len(R) = Len(list)
        /\ \A m \in 1 .. i : R[m] = ea[m]
        /\ \A m \in 1 .. Len(list) - i : R[i + m] = b[m]
    <3>1. /\ Len(ea \o b) = Len(ea) + Len(b)
          /\ \A m \in 1 .. Len(ea) : (ea \o b)[m] = ea[m]
          /\ \A m \in 1 .. Len(b) : (ea \o b)[Len(ea) + m] = b[m]
      BY ConcatParts
    <3>2. i + (Len(list) - i) = Len(list)
      BY <2>2
    <3> HIDE DEF R
    <3> QED BY <2>3, <2>4, <3>1, <3>2
  <2> HIDE DEF R
  <2>6. CASE k < i
    <3>1. k \in 1 .. i - 1 /\ 1 + k \in 1 .. i /\ 1 + k \in 1 .. Len(R)
      BY <2>2, <2>5, <2>6
    <3>2. R[1 + k] = list[k]
      BY <2>4, <2>5, <3>1
    <3> QED BY <3>1, <3>2 DEF R
  <2>7. CASE k = i
    <3>1. 1 \in 1 .. i /\ 1 \in 1 .. Len(R)
      BY <2>2, <2>5
    <3>2. R[1].id = list[k].id /\ R[1].addedAt = now
      BY <2>2, <2>4, <2>5, <2>7, <3>1 DEF entry
    <3> QED BY <3>1, <3>2 DEF R
  <2>8. CASE k > i
    <3>1. PICK m \in 1 .. Len(list) - i : k = i + m
      BY <2>2, <2>8
    <3>2. R[k] = list[k] /\ k \in 1 .. Len(R)
      BY <2>3, <2>5, <3>1
    <3> QED BY <3>2 DEF R
  <2> QED BY <2>2, <2>6, <2>7, <2>8
<1> QED BY <1>2, <1>3

(* A decision that came while a record was buffered is kept until the       *)
(* record is two decisionWaits old: pruning the back of the list on behalf  *)
(* of another trace stops at the first young entry, and moving an entry to  *)
(* the front loses no other one.                                            *)
THEOREM DecisionsSurvivePruning == Spec => DecisionKept
<1> DEFINE A == \A r \in Pending : \A i \in 1 .. Len(interest) :
                  LET e == interest[i] IN
                  /\ e.id = r.tid
                  /\ r.at <= e.addedAt /\ e.addedAt < r.at + DecisionWait
                  /\ now < r.at + 2 * DecisionWait
                  => \E j \in 1 .. Len(interest') :
                       interest'[j].id = r.tid /\ interest'[j].addedAt \in {e.addedAt, now}
<1>1. Init => TypeInv
  BY TypeInit
<1>2. TypeInv /\ [Next]_vars => TypeInv'
  BY TypeNext
<1>3. TypeInv /\ [Next]_vars => [A]_vars
  <2> SUFFICES ASSUME TypeInv, [Next]_vars, NEW r \in Pending, NEW i \in 1 .. Len(interest),
                      interest[i].id = r.tid, r.at <= interest[i].addedAt,
                      now < r.at + 2 * DecisionWait
               PROVE  \E j \in 1 .. Len(interest') :
                        /\ interest'[j].id = r.tid
                        /\ interest'[j].addedAt \in {interest[i].addedAt, now}
    OBVIOUS
  <2>1. CASE interest' = interest
    BY <2>1
  <2>2. CASE \E tid \in TraceIDs : AddInterest(tid)
    <3>1. PICK tid \in TraceIDs, n \in 0 .. Len(interest) :
            PrunedTo(n) /\ interest' = Renewed(SubSeq(interest, 1, n), tid)
      BY <2>2 DEF AddInterest
    <3>2. interest \in Seq(Entry) /\ now \in Nat /\ r.at \in Int /\ interest[i].addedAt \in Nat
      <4>0. written \in Seq(Slot) /\ interest \in Seq(Entry) /\ now \in Nat
        BY ONLY TypeInv, TimeAssumption DEF TypeInv, TypeOK, Times
      <4>1. r \in Slot
        <5>1. PICK d \in 1 .. Len(written) : r = written[d]
          BY DEF Pending
        <5> QED BY ONLY <4>0, <5>1
      <4>2. interest[i] \in Entry
        BY ONLY <4>0
      <4>3. r.at \in Int
        BY ONLY <4>1 DEF Slot
      <4>4. interest[i].addedAt \in Nat
        BY ONLY <4>2, TimeAssumption DEF Entry, Times
      <4> QED BY <4>0, <4>3, <4>4
    <3>3. Young(interest[i])
      <4>1. interest[i].addedAt \in Nat /\ now \in Nat /\ r.at \in Int
        BY <3>2
      <4> QED BY <4>1, TimeAssumption DEF Young
    <3>4. i \in 1 .. n
      <4> SUFFICES ASSUME i \notin 1 .. n PROVE FALSE
        OBVIOUS
      <4>1. i \in n + 1 .. Len(interest)
        BY <3>2
      <4> QED BY <3>1, <3>3, <4>1 DEF PrunedTo
    <3> DEFINE list == SubSeq(interest, 1, n)
    <3>5. list \in Seq(Entry) /\ Len(list) = n /\ list[i] = interest[i]
      BY <3>2, <3>4, SubSeqProperties
    <3> HIDE DEF list
    <3>6. i \in 1 .. Len(list) /\ interest' = Renewed(list, tid)
      BY <3>1, <3>4, <3>5 DEF list
    <3>7. \E j \in 1 .. Len(Renewed(list, tid)) :
            /\ Renewed(list, tid)[j].id = list[i].id
            /\ Renewed(list, tid)[j].addedAt \in {list[i].addedAt, now}
      BY <3>5, <3>6, RenewedKeeps
    <3> QED BY <3>5, <3>6, <3>7
  <2>3. CASE interest' # interest /\ ~\E tid \in TraceIDs : AddInterest(tid)
    <3>1. CASE Writer
      BY <2>3, <3>1 DEF Writer, WriterRecv, WriterTick, WriterClose, FlushWrite, WriterFull,
           WriterFreed, WriterGivesUp, LargeWrite, Publish, WakeSweeper, WriterStep
    <3>2. CASE Sweeper
      <4>1. SweeperStep
        BY <3>2 DEF Sweeper, SweepEmpty, SweepRead, SweepReadFail, SweepWake, SweepWriterDone,
             ScanEnd, ScanPayload, ScanTombstone, ScanPartial, ScanMatch, ScanUndecided, AgeEvict, AgeKeep,
             Writeback, Free, Signal, ScanStep
      <4> QED BY <2>3, <4>1 DEF SweeperStep
    <3>3. CASE ~Writer /\ ~Sweeper
      BY <2>3, <3>3 DEF Next, Write, AddInterestWake, Close, Tick, TimerFire, Halted,
           SweeperStep, vars
    <3> QED BY <3>1, <3>2, <3>3
  <2> QED BY <2>1, <2>2, <2>3
<1> QED BY <1>1, <1>2, <1>3, PTL DEF Spec, DecisionKept
=============================================================================
