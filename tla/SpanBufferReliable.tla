------------------------- MODULE SpanBufferReliable ------------------------
(* Theorems about the buffer whose pages reach the file and can be read:   *)
(* the flush of the stage, every chunk of a large record and the read of   *)
(* the head page succeed (Faults holds none of "flush", "large", "read").  *)
(* Then no record is ever torn or split, so what SpanBufferRecords proves  *)
(* of untorn records holds without a condition, and with it the shape of   *)
(* the ring and the wake-ups of the sweeper.                               *)
EXTENDS SpanBufferRecords

PagesSucceed == "flush" \notin Faults /\ "large" \notin Faults /\ "read" \notin Faults

USE SizeAssumption, TimeAssumption, BoundAssumption
USE DEF callerVars, tokens, ring, stageVars, writerVars, sweeperVars, ghostVars
-----------------------------------------------------------------------------
(* No record is torn.                                                      *)

\* The stage never holds more than a page, and handle starts on the chunks of a
\* large record with an empty one: the process does not panic.
NoStage ==
  /\ Alive
  /\ stageN <= PageSize
  /\ wpc \in {"large", "largeWait"} => stageN = 0

\* Only a failed flush hands handle a stage that is not empty.
LEMMA NoStageNext ==
  ASSUME PagesSucceed, TypeInv, NoStage, [Next]_vars
  PROVE  NoStage'
<1> USE DEF NoStage, Alive
<1>1. stageN \in Nat /\ wreq.len \in Nat
  BY DEF TypeInv, TypeOK, Slot
<1>2. CASE Writer
  <2>1. CASE WriterRecv
    <3>1. writeCh \in Seq(Slot) /\ writeCh # <<>>
      BY <2>1 DEF WriterRecv, TypeInv, TypeOK
    <3>2. Head(writeCh) \in Slot
      BY <3>1
    <3> DEFINE r == Head(writeCh)
    <3>3. r.len \in Nat
      BY <3>2 DEF Slot
    <3>4. \/ ~(stageN + RecSize(r.len) > PageSize) /\ Stash(r, stageN, stage)
          \/ wpc' \in {"flush", "large"} /\ stageN' = stageN /\ (wpc' = "large" => ~(stageN > 0))
      BY <2>1 DEF WriterRecv
    <3> HIDE DEF r
    <3>5. CASE ~(stageN + RecSize(r.len) > PageSize) /\ Stash(r, stageN, stage)
      <4>1. stageN + (HdrSize + r.len) <= PageSize /\ stageN + HdrSize <= PageSize
        BY <1>1, <3>3, <3>5 DEF RecSize
      <4>2. ~(stageN + HdrSize > PageSize)
        BY <1>1, <4>1
      <4> QED BY <3>5, <4>1, <4>2 DEF Stash, RecSize
    <3>6. CASE /\ wpc' \in {"flush", "large"} /\ stageN' = stageN
               /\ wpc' = "large" => ~(stageN > 0)
      BY <1>1, <3>6
    <3> QED BY <3>4, <3>5, <3>6
  <2>2. CASE FlushWrite
    BY <1>1, <2>2 DEF FlushWrite, CanFail, PagesSucceed
  <2>3. CASE WakeSweeper
    BY <1>1, <2>3 DEF WakeSweeper, AfterFlush, Stash, Over, IsLarge, RecSize
  <2>4. CASE ~WriterRecv /\ ~FlushWrite /\ ~WakeSweeper
    BY <1>2, <2>4 DEF Writer, WriterTick, WriterClose, WriterFull, WriterFreed, WriterGivesUp,
         LargeWrite, Publish, Over
  <2> QED BY <2>1, <2>2, <2>3, <2>4
<1>3. CASE Sweeper
  <2>1. SweeperStep
    BY <1>3 DEF Sweeper, SweepEmpty, SweepRead, SweepReadFail, SweepWake, SweepWriterDone,
         ScanEnd, ScanPayload, ScanTombstone, ScanPartial, ScanMatch, ScanUndecided, AgeEvict, AgeKeep,
         Writeback, Free, Signal, ScanStep
  <2> QED BY <2>1 DEF SweeperStep
<1>4. CASE ~Writer /\ ~Sweeper
  BY <1>4 DEF Next, Write, AddInterest, AddInterestWake, Close, Tick, TimerFire, Halted,
              SweeperStep, vars
<1> QED BY <1>2, <1>3, <1>4

\* No step tears a record.
LEMMA NotTornNext ==
  ASSUME PagesSucceed, TypeInv, NoStage, ~Torn, [Next]_vars
  PROVE  ~Torn'
<1>1. LargeWrite => Meet(Overwritten, "overwritten") = history
  <2> SUFFICES ASSUME LargeWrite PROVE Meet(Overwritten, "overwritten") = history
    OBVIOUS
  <2>1. Overwritten = {}
    BY DEF LargeWrite, NoStage, Overwritten, Staged
  <2> QED BY <2>1 DEF Meet, TypeInv, TypeOK
<1> SUFFICES ASSUME NEW d \in Data, NEW i \in 1 .. Len(history'[d])
             PROVE  history'[d][i] \notin {"torn", "overwritten", "split"}
  BY DEF Torn
<1>2. PICK o \in Outcomes :
        /\ history'[d] \in {history[d], Append(history[d], o)}
        /\ o # "overwritten" /\ (o = "torn" => "large" \in Faults)
        /\ o = "split" => "read" \in Faults
  BY <1>1, StepOutcome
<1>3. o \notin {"torn", "overwritten", "split"}
  BY <1>2 DEF PagesSucceed
<1>4. \A k \in 1 .. Len(history[d]) : history[d][k] \notin {"torn", "overwritten", "split"}
  BY DEF Torn
<1>5. history[d] \in Seq(Outcomes)
  BY DEF TypeInv, TypeOK
<1>6. CASE history'[d] = history[d]
  BY <1>4, <1>6
<1>7. CASE history'[d] = Append(history[d], o)
  <2>1. /\ Len(history'[d]) = Len(history[d]) + 1 /\ history'[d][Len(history[d]) + 1] = o
        /\ \A k \in 1 .. Len(history[d]) : history'[d][k] = history[d][k]
        /\ Len(history[d]) \in Nat
    BY <1>5, <1>7, AppendProperties
  <2> QED BY SMTT(30), <1>3, <1>4, <2>1
<1> QED BY <1>2, <1>6, <1>7

\* The invariant of a buffer whose pages reach the file and can be read.
ReliableInv == RecordInv /\ NoStage /\ ~Torn

\* It holds at first.
LEMMA ReliableInit == ReservedIDs /\ Init => ReliableInv
<1> SUFFICES ASSUME ReservedIDs, Init PROVE ReliableInv
  OBVIOUS
<1>1. ~Torn
  BY DEF Init, Torn
<1> QED BY <1>1, RecordInit DEF ReliableInv, NoStage, Alive, Init

\* Every step preserves it.
LEMMA ReliableNext ==
  ReservedIDs /\ PagesSucceed /\ ReliableInv /\ [Next]_vars => ReliableInv'
BY RecordNext, NoStageNext, NotTornNext DEF ReliableInv, RecordInv

\* It holds forever.
LEMMA ReliableAlways ==
  ASSUME ReservedIDs, PagesSucceed
  PROVE  Spec => []ReliableInv
BY ReliableInit, ReliableNext, PTL DEF Spec
-----------------------------------------------------------------------------
(* What becomes of the records.                                            *)

(* While pages are written and read every record Write accepted is in the  *)
(* channel, in hand, in the stage, in a counted page, or has met an end;   *)
(* and with no failed operation at all that end is a delivery, an eviction *)
(* or a drop at Close.                                                     *)
THEOREM NothingLost ==
  ASSUME ReservedIDs, PagesSucceed
  PROVE  Spec => []NoSilentLoss
<1>1. ReliableInv => NoSilentLoss
  <2> SUFFICES ASSUME ReliableInv PROVE NoSilentLoss
    OBVIOUS
  <2>1. TypeInv /\ Whole /\ Len(written) \in 0 .. MaxRecs
    BY DEF ReliableInv, RecordInv, TypeInv, TypeOK
  <2>2. \A d \in 1 .. Len(written) : d \in Data
    BY <2>1 DEF Data
  <2> QED BY <2>1, <2>2, OnItsWay DEF Whole, NoSilentLoss, OutcomesOK, Intended
<1> QED BY <1>1, ReliableAlways, PTL

(* The sweeper settles records in the order in which Write accepted them,  *)
(* page by page: a record still on its way while a later one has been      *)
(* delivered or evicted is in the page under the sweeper.                  *)
THEOREM ConsumedInOrder ==
  ASSUME ReservedIDs, PagesSucceed
  PROVE  Spec => []InsertionOrder
<1>1. ReliableInv => InsertionOrder
  BY DEF ReliableInv, RecordInv, Whole
<1> QED BY <1>1, ReliableAlways, PTL

(* If tombstones reach the file too, no record is handed to a callback     *)
(* twice, and none of a previous process is handed to a callback at all.   *)
THEOREM HandedOverOnce ==
  ASSUME ReservedIDs, PagesSucceed, "writeback" \notin Faults
  PROVE  Spec => []AtMostOnce
<1>1. ReliableInv => AtMostOnce
  <2> SUFFICES ASSUME ReliableInv PROVE AtMostOnce
    OBVIOUS
  <2>1. TypeInv /\ Bounded /\ Slack = 0 /\ Len(written) \in 0 .. MaxRecs
    BY DEF ReliableInv, RecordInv, Whole, Slack, TypeInv, TypeOK
  <2>2. \A d \in Data : Len(history[d]) \in Nat
    BY <2>1 DEF TypeInv, TypeOK
  <2>3. \A d \in Data : Len(history[d]) <= 1 /\ (d \notin 1 .. Len(written) => history[d] = <<>>)
    BY <2>1, <2>2 DEF Bounded
  <2>4. \A d \in 1 .. Len(written) : d \in Data
    BY <2>1 DEF Data
  <2> QED BY <2>3, <2>4 DEF AtMostOnce
<1> QED BY <1>1, ReliableAlways, PTL
-----------------------------------------------------------------------------
(* The counted pages are whole records.                                    *)

(* While pages are written and read, the counted pages are whole records:  *)
(* the page at rHead starts a record, a large record is followed by exactly *)
(* its own chunks, and no counted page is left over from an earlier lap or  *)
(* process.                                                                *)
THEOREM PagesFramed ==
  ASSUME ReservedIDs, PagesSucceed
  PROVE  Spec => []RingFramed
<1>1. ReliableInv => RingFramed
  <2> SUFFICES ASSUME ReliableInv, NEW i \in 0 .. used - 1
               PROVE  /\ LargeHead(RingPage(i)) =>
                           /\ i + NumChunks(RingPage(i).slots[1].len) <= used
                           /\ \A k \in 1 .. NumChunks(RingPage(i).slots[1].len) - 1 :
                                RingPage(i + k) = ChunkPage(RingPage(i).slots[1], k)
                      /\ RingPage(i).cont # NoChunk =>
                           /\ RingPage(i).cont.index <= i
                           /\ LargeHead(RingPage(i - RingPage(i).cont.index))
                           /\ RingPage(i - RingPage(i).cont.index).slots[1].data
                                = RingPage(i).cont.data
                           /\ RingPage(i).cont.index
                                < NumChunks(RingPage(i - RingPage(i).cont.index).slots[1].len)
                      /\ \A j \in 1 .. Len(RingPage(i).slots) : RingPage(i).slots[j].data # 0
    BY DEF RingFramed
  <2>1. TypeInv /\ RingInv /\ Custody /\ ContOK
    BY DEF ReliableInv, RecordInv, Whole, NoStage
  <2>2. RingPage(i) \in Page
    BY <2>1, RingPageType DEF RingInv
  <2>3. RingPage(i).cont.index \in Nat
    BY <2>2 DEF Page, Chunk
  <2>4. \A j \in 1 .. Len(RingPage(i).slots) : RingPage(i).slots[j].data # 0
    BY <2>1 DEF Custody, SlotsOK, Known, Idx
  <2>5. LargeHead(RingPage(i)) =>
          /\ i + NumChunks(RingPage(i).slots[1].len) <= used
          /\ \A k \in 1 .. NumChunks(RingPage(i).slots[1].len) - 1 :
               RingPage(i + k) = ChunkPage(RingPage(i).slots[1], k)
    BY <2>1 DEF Custody, FramesOK, Framed
  <2> QED BY <2>1, <2>3, <2>4, <2>5 DEF ContOK
<1> QED BY <1>1, ReliableAlways, PTL
-----------------------------------------------------------------------------
(* The sweeper is woken.                                                   *)

\* A page that is kept is kept for a record that has yet to age out.
TimeLeft ==
  spc \in {"scan", "age", "writeback"} =>
    /\ scan.minRem \in 0 .. DecisionWait
    /\ ~scan.fully => scan.minRem > 0

\* The time a kept record has left is between one tick and decisionWait.
LEMMA KeptTime ==
  ASSUME ReservedIDs, TypeInv, RingInv, Custody, TimeLeft, AgeKeep
  PROVE  MinRem(scan.minRem, DecisionWait - Age) \in 1 .. DecisionWait
<1>1. spc = "age" /\ ~(Age >= DecisionWait) /\ scan.minRem \in 0 .. DecisionWait
  BY DEF AgeKeep, TimeLeft
<1>2. Held /\ scan.pos \in Idx(scan.page) /\ Rec = scan.page.slots[scan.pos] /\ Rec \in Slot
  BY <1>1, CursorRecord
<1>3. Known(Rec)
  BY <1>2, HeldPage
<1>4. Rec.at <= now /\ Rec.at \in Int /\ now \in Int
  <2>1. written[Rec.data].at <= now /\ Rec.at = written[Rec.data].at
    BY <1>3 DEF Known, Same, Custody, WrittenOK
  <2>2. Rec.at \in Int
    BY <1>2 DEF Slot
  <2>3. now \in Int
    BY DEF TypeInv, TypeOK, Times
  <2> QED BY <2>1, <2>2, <2>3
<1>5. DecisionWait - Age \in 1 .. DecisionWait
  BY <1>1, <1>4 DEF Age
<1> QED BY <1>1, <1>5 DEF MinRem

\* Every step keeps it.
LEMMA TimeLeftNext ==
  ASSUME ReservedIDs, TypeInv, RingInv, Custody, ContOK, TimeLeft, [Next]_vars
  PROVE  TimeLeft'
<1> USE DEF TimeLeft
<1>0. scan \in Scan
  BY DEF TypeInv, TypeOK
<1>1. CASE UNCHANGED <<spc, scan>>
  BY <1>1
<1>2. CASE SweepRead
  BY <1>2 DEF SweepRead, NoScan
<1>3. CASE SweepEmpty \/ SweepReadFail \/ SweepWake \/ SweepWriterDone \/ Free \/ Signal
  BY <1>3 DEF SweepEmpty, SweepReadFail, SweepWake, SweepWriterDone, Free, Signal
<1>4. CASE Writeback
  BY <1>4 DEF Writeback
<1>5. CASE ScanEnd \/ ScanTombstone \/ ScanUndecided
  BY <1>0, <1>5 DEF ScanEnd, ScanTombstone, ScanUndecided, AtRecord, Decidable, Scan
<1>6. CASE ScanPartial
  BY <1>6, CursorRecord DEF ScanPartial
<1>7. CASE ScanMatch \/ AgeEvict
  <2>1. spc \in {"scan", "age"} /\ \E o \in Outcomes : Consume(o)
    BY <1>7 DEF ScanMatch, AgeEvict, Decidable, AtRecord, Outcomes
  <2>2. scan'.minRem = scan.minRem /\ scan'.fully = scan.fully
    BY <1>0, <2>1 DEF Consume, Scan
  <2> QED BY <2>1, <2>2
<1>8. CASE AgeKeep
  <2>1. MinRem(scan.minRem, DecisionWait - Age) \in 1 .. DecisionWait
    BY <1>8, KeptTime
  <2>2. scan'.minRem = MinRem(scan.minRem, DecisionWait - Age)
    BY <1>0, <1>8 DEF AgeKeep, Scan
  <2> QED BY <2>1, <2>2
<1>9. CASE ~Sweeper
  <2>1. CASE Writer
    BY <1>1, <2>1 DEF Writer, WriterRecv, WriterTick, WriterClose, FlushWrite, WriterFull,
         WriterFreed, WriterGivesUp, LargeWrite, Publish, WakeSweeper, WriterStep
  <2>2. CASE ~Writer
    BY <1>1, <1>9, <2>2 DEF Next, Write, AddInterest, AddInterestWake, Close, Tick, TimerFire,
         Halted, vars
  <2> QED BY <2>1, <2>2
<1> QED BY NoPayload, <1>2, <1>3, <1>4, <1>5, <1>6, <1>7, <1>8, <1>9 DEF Sweeper

\* The timer that Writeback arms, and the tokens the others send.
LEMMA SweeperArmedNext ==
  ASSUME ReservedIDs, TypeInv, TypeInv', RingInv, Custody, TimeLeft, SweeperArmed, [Next]_vars
  PROVE  SweeperArmed'
<1> SUFFICES ASSUME spc' = "wait", used' > 0, ~wakeup', wpc' \notin {"wake", "done", "panic"}
             PROVE  \E t \in timers' : t <= now' + DecisionWait
  BY DEF SweeperArmed
<1>0. now \in Nat /\ now' \in Nat /\ timers \subseteq Nat
  BY DEF TypeInv, TypeOK, Times
<1>1. CASE Writeback
  <2>1. ~scan.fully /\ spc = "writeback" /\ now' = now
    BY <1>1 DEF Writeback, SweeperStep
  <2>2. scan.minRem \in 1 .. DecisionWait
    BY <2>1 DEF TimeLeft
  <2>3. Deadline(scan.minRem) \in timers'
    BY <1>1, <2>1, <2>2 DEF Writeback
  <2>4. Deadline(scan.minRem) <= now + DecisionWait
    BY <1>0, <2>2 DEF Deadline
  <2> QED BY <2>1, <2>3, <2>4
<1>2. CASE SweepEmpty
  BY <1>2 DEF SweepEmpty, ScanStep
<1>3. CASE Sweeper /\ ~Writeback /\ ~SweepEmpty
  <2>1. CASE ScanMatch \/ AgeEvict
    <3>1. \E o \in Outcomes : Consume(o)
      BY <2>1 DEF ScanMatch, AgeEvict, Outcomes
    <3> QED BY <3>1 DEF Consume
  <2>2. CASE ~ScanMatch /\ ~AgeEvict
    BY <1>3, <2>2 DEF Sweeper, SweepRead, SweepReadFail, SweepWake, SweepWriterDone,
         ScanEnd, ScanPayload, ScanTombstone, ScanPartial, ScanUndecided, AgeKeep, Free, Signal,
         AtRecord, Decidable
  <2> QED BY <2>1, <2>2
<1>4. ASSUME spc = "wait", used > 0, ~wakeup, wpc \notin {"wake", "done", "panic"},
             now' \in {now, now + 1}, timers' = timers
      PROVE  \E t \in timers' : t <= now' + DecisionWait
  <2>1. PICK t \in timers : t <= now + DecisionWait
    BY <1>4 DEF SweeperArmed
  <2>2. t \in Nat
    BY <1>0
  <2> QED BY <1>0, <1>4, <2>1, <2>2
<1>5. CASE Writer
  <2>1. CASE Publish \/ WakeSweeper
    BY <2>1 DEF Publish, WakeSweeper
  <2>2. CASE ~Publish /\ ~WakeSweeper
    <3>1. wpc \notin {"wake", "done", "panic"} /\ UNCHANGED <<used, wakeup>> /\ WriterStep
      BY <1>5, <2>2 DEF Writer, WriterRecv, WriterTick, WriterClose, FlushWrite, WriterFull,
           WriterFreed, WriterGivesUp, LargeWrite
    <3> QED BY <1>4, <3>1 DEF WriterStep
  <2> QED BY <2>1, <2>2
<1>6. CASE ~Writer /\ ~Sweeper
  <2>1. /\ UNCHANGED <<spc, used, wakeup, wpc, timers>> /\ now' \in {now, now + 1}
    BY <1>6 DEF Next, Write, AddInterest, AddInterestWake, Close, Tick, TimerFire, Halted,
         SweeperStep, vars
  <2> QED BY <1>4, <2>1
<1> QED BY <1>1, <1>2, <1>3, <1>5, <1>6

(* A sweeper that waits while pages are counted has been told, is about to  *)
(* be told by the writer, or has a timer due within decisionWait: it never  *)
(* sleeps on records that age out, whatever processPage found in the page   *)
(* and whichever chunk reads and tombstone writes failed.                   *)
THEOREM SweeperNeverForgotten ==
  ASSUME ReservedIDs, PagesSucceed
  PROVE  Spec => []SweeperArmed
<1> DEFINE ArmInv == ReliableInv /\ TimeLeft /\ SweeperArmed
<1>1. Init => ArmInv
  BY ReliableInit DEF Init, TimeLeft, SweeperArmed
<1>2. ArmInv /\ [Next]_vars => ArmInv'
  <2> SUFFICES ASSUME ReliableInv, TimeLeft, SweeperArmed, [Next]_vars
               PROVE  ReliableInv' /\ TimeLeft' /\ SweeperArmed'
    OBVIOUS
  <2>1. ReliableInv'
    BY ReliableNext
  <2>2. TypeInv /\ TypeInv' /\ RingInv /\ Custody /\ ContOK
    BY <2>1 DEF ReliableInv, RecordInv, Whole, NoStage
  <2> QED BY <2>1, <2>2, TimeLeftNext, SweeperArmedNext
<1> QED BY <1>1, <1>2, PTL DEF Spec
-----------------------------------------------------------------------------
(* A decision wakes the sweeper.                                           *)

\* The records of the copy that processPage has looked up and kept.
Looked(j) ==
  /\ scan.page.slots[j].tid # TombstoneID
  /\ spc = "scan" => j < scan.pos
  /\ spc = "age" => j <= scan.pos

\* No decision matches record j of the copy.
Unmatched(j) == ~HasInterestForSpan(scan.page.slots[j].tid, scan.page.slots[j].at)

\* A decision made since then for one of them has sent a token or is about to.
Undecided ==
  spc \in {"scan", "age", "writeback"} /\ waking = 0 /\ ~wakeup =>
    \A j \in Idx(scan.page) : Looked(j) => Unmatched(j)

\* A large record is alone in the page under the sweeper.
LEMMA LargeIsAlone ==
  ASSUME ReservedIDs, TypeInv, RingInv, Custody, AtRecord \/ spc = "age", LargeRec
  PROVE  Idx(scan.page) = {1} /\ scan.pos = 1
<1>1. Held /\ LargeHead(scan.page) /\ scan.pos = 1 /\ 1 \in Idx(scan.page)
  BY CursorRecord DEF LargeRec
<1>2. /\ used >= 1 /\ used \in Nat /\ RingPage(0) = file[rHead] /\ file[rHead] \in Page
      /\ scan.page \in Page /\ 1 \in Idx(file[rHead])
      /\ scan.page.slots[1].len = file[rHead].slots[1].len
  BY <1>1, HeldPage
<1>3. CopyOK
  BY <1>1 DEF Custody, SnapOK
<1>4. LargeHead(RingPage(0)) /\ 0 \in 0 .. used - 1
  <2>1. file[rHead].slots # <<>>
    BY <1>2 DEF Idx
  <2> QED BY <1>1, <1>2, <1>3, <2>1 DEF LargeHead, CopyOK
<1>5. Len(RingPage(0).slots) = 1
  BY <1>4 DEF Custody, FramesOK, Framed
<1>6. Len(scan.page.slots) = 1
  BY <1>2, <1>3, <1>5 DEF CopyOK
<1> QED BY <1>1, <1>6 DEF Idx

\* The copy of the page after a record of it has been consumed.
LEMMA UndecidedConsume ==
  ASSUME ReservedIDs, TypeInv, RingInv, Custody, Undecided, AtRecord \/ spc = "age",
         NEW o, Consume(o), ScanStep
  PROVE  Undecided'
<1>1. /\ scan.pos \in Idx(scan.page) /\ scan.pos \in Nat /\ scan \in Scan /\ scan.page \in Page
      /\ spc \in {"scan", "age"}
  BY CursorRecord
<1>2. /\ spc' = IF LargeRec THEN "writeback" ELSE "scan"
      /\ scan'.pos = IF LargeRec THEN scan.pos ELSE scan.pos + 1
  BY ConsumedCopy
<1>3. /\ Len(scan'.page.slots) = Len(scan.page.slots)
      /\ \A j \in Idx(scan.page) : j # scan.pos => scan'.page.slots[j] = scan.page.slots[j]
      /\ scan'.page.slots[scan.pos].tid = TombstoneID
  BY ConsumedCopy
<1>4. UNCHANGED <<waking, wakeup, interest>>
  BY DEF ScanStep, SweeperStep
<1> SUFFICES ASSUME waking = 0, ~wakeup, NEW j \in Idx(scan.page), Looked(j)'
             PROVE  Unmatched(j)'
  <2>1. Idx(scan.page)' = Idx(scan.page)
    BY <1>3 DEF Idx
  <2> QED BY <1>4, <2>1 DEF Undecided
<1>5. j # scan.pos
  BY <1>3 DEF Looked
<1>6. scan'.page.slots[j] = scan.page.slots[j]
  BY <1>3, <1>5
<1>7. ~LargeRec
  BY <1>5, LargeIsAlone
<1>8. j < scan.pos
  BY <1>1, <1>2, <1>5, <1>7 DEF Looked, Idx
<1>9. Looked(j)
  BY <1>1, <1>6, <1>8 DEF Looked, Idx
<1>10. Unmatched(j)
  BY <1>1, <1>9 DEF Undecided
<1> QED BY <1>4, <1>6, <1>10 DEF Unmatched, HasInterestForSpan

\* The cursor moves on, or the loop is left: every record passed over was found
\* without a decision.
LEMMA UndecidedScan ==
  ASSUME ReservedIDs, TypeInv, RingInv, Custody, Undecided,
         ScanEnd \/ ScanTombstone \/ ScanUndecided \/ AgeKeep
  PROVE  Undecided'
<1>1. /\ Held /\ spc \in {"scan", "age"} /\ scan \in Scan
  BY DEF ScanEnd, ScanTombstone, ScanUndecided, Decidable, AtRecord, AgeKeep, Held, TypeInv, TypeOK
<1>2. scan'.page = scan.page /\ UNCHANGED <<waking, wakeup, interest>>
  BY <1>1 DEF ScanEnd, ScanTombstone, ScanUndecided, AgeKeep, Scan, ScanStep, SweeperStep
<1>3. /\ scan.page \in Page /\ \A j \in Idx(scan.page) : scan.page.slots[j].tid # ZeroID
      /\ scan.pos \in Nat
  BY <1>1, HeldPage DEF Scan
<1> SUFFICES ASSUME waking = 0, ~wakeup, NEW j \in Idx(scan.page), Looked(j)',
                    spc' \in {"scan", "age", "writeback"}
             PROVE  Unmatched(j)
  <2>1. Idx(scan.page)' = Idx(scan.page)
    BY <1>2 DEF Idx
  <2>2. ASSUME NEW j \in Idx(scan.page), Unmatched(j) PROVE Unmatched(j)'
    BY <1>2, <2>2 DEF Unmatched, HasInterestForSpan
  <2> QED BY <1>2, <2>1, <2>2 DEF Undecided
<1>4. scan.page.slots[j].tid # TombstoneID /\ j \in Nat
  BY <1>2 DEF Looked, Idx
<1>5. CASE Looked(j)
  BY <1>1, <1>5 DEF Undecided
<1>6. CASE ~Looked(j)
  <2>1. ~(j < scan.pos)
    BY <1>1, <1>3, <1>4, <1>6 DEF Looked
  <2>2. CASE ScanEnd
    <3>1. spc = "scan" /\ ~AtRecord /\ scan.page.cont = NoChunk
      BY <2>2 DEF ScanEnd
    <3>2. scan.pos \in 1 .. Len(scan.page.slots)
      BY <1>3, <1>4, <2>1, <3>1 DEF Idx, TypeInv, CursorOK, Page
    <3>3. Rec.tid # ZeroID
      BY <1>3, <3>2 DEF Rec, Idx
    <3> QED BY <3>1, <3>2, <3>3 DEF AtRecord
  <2>3. CASE ScanTombstone
    <3>1. Rec.tid = TombstoneID /\ Rec = scan.page.slots[scan.pos] /\ AtRecord /\ spc = "scan"
      BY <2>3 DEF ScanTombstone, Rec, AtRecord
    <3>2. j # scan.pos
      BY <1>4, <3>1
    <3>3. ~LargeRec
      BY <3>1, <3>2, LargeIsAlone
    <3>4. spc' = "scan" /\ scan'.pos = scan.pos + 1
      BY <1>1, <2>3, <3>1, <3>3 DEF ScanTombstone, Scan
    <3> QED BY <1>3, <1>4, <2>1, <3>2, <3>4 DEF Looked
  <2>4. CASE ScanUndecided
    <3>1. spc' = "age" /\ scan' = scan /\ ~HasInterestForSpan(Rec.tid, Rec.at)
      BY <2>4 DEF ScanUndecided
    <3>2. j = scan.pos
      BY <1>3, <1>4, <2>1, <3>1 DEF Looked
    <3> QED BY <3>1, <3>2 DEF Rec, Unmatched
  <2>5. CASE AgeKeep
    <3>1. spc = "age"
      BY <2>5 DEF AgeKeep
    <3>2. j # scan.pos
      BY <1>3, <1>4, <1>6, <3>1 DEF Looked
    <3>3. ~LargeRec
      BY <3>1, <3>2, LargeIsAlone
    <3>4. spc' = "scan" /\ scan'.pos = scan.pos + 1
      BY <1>1, <2>5, <3>3 DEF AgeKeep, Scan
    <3> QED BY <1>3, <1>4, <2>1, <3>2, <3>4 DEF Looked
  <2> QED BY <2>2, <2>3, <2>4, <2>5
<1> QED BY <1>5, <1>6

\* A step that leaves the sweeper and the decisions alone, or sends a token.
LEMMA UndecidedFrame ==
  ASSUME Undecided, UNCHANGED <<spc, scan>>, waking' \in Nat, waking \in Nat,
         wakeup' \/ waking' > 0 \/ UNCHANGED <<waking, wakeup, interest>>
  PROVE  Undecided'
BY DEF Undecided, Looked, Unmatched, Idx, HasInterestForSpan

\* Every step keeps it.
LEMMA UndecidedNext ==
  ASSUME ReservedIDs, TypeInv, TypeInv', RingInv, Custody, ContOK, Undecided, [Next]_vars
  PROVE  Undecided'
<1>0. waking \in Nat /\ waking' \in Nat
  BY DEF TypeInv, TypeOK
<1>1. CASE SweepRead
  <2>1. spc' = "scan" /\ scan'.pos = 1
    BY <1>1 DEF SweepRead, NoScan
  <2> QED BY <2>1 DEF Undecided, Looked, Idx
<1>2. CASE SweepEmpty \/ SweepReadFail \/ SweepWake \/ SweepWriterDone \/ Free \/ Signal \/ Writeback
  <2>1. spc' \notin {"scan", "age", "writeback"}
    BY <1>2 DEF SweepEmpty, SweepReadFail, SweepWake, SweepWriterDone, Free, Signal, Writeback
  <2> QED BY <2>1 DEF Undecided
<1>3. CASE ScanPartial
  BY <1>3, CursorRecord DEF ScanPartial
<1>4. CASE ScanMatch \/ AgeEvict
  <2>1. (AtRecord \/ spc = "age") /\ ScanStep /\ \E o \in Outcomes : Consume(o)
    BY <1>4 DEF ScanMatch, AgeEvict, Decidable, Outcomes
  <2> QED BY <2>1, UndecidedConsume
<1>5. CASE ScanEnd \/ ScanTombstone \/ ScanUndecided \/ AgeKeep
  BY <1>5, UndecidedScan
<1>6. CASE Writer
  <2>1. UNCHANGED <<spc, scan, waking, interest>> /\ wakeup' \in {wakeup, TRUE}
    BY <1>6 DEF Writer, WriterRecv, WriterTick, WriterClose, FlushWrite, WriterFull,
         WriterFreed, WriterGivesUp, LargeWrite, Publish, WakeSweeper, WriterStep
  <2>2. wakeup' \/ wakeup' = wakeup
    BY <2>1
  <2> QED BY <1>0, <2>1, <2>2, UndecidedFrame
<1>7. CASE ~Writer /\ ~Sweeper
  <2>1. CASE \E tid \in TraceIDs : AddInterest(tid)
    <3>1. waking' > 0 /\ UNCHANGED <<spc, scan>>
      BY <1>0, <2>1 DEF AddInterest
    <3> QED BY <1>0, <3>1, UndecidedFrame
  <2>2. CASE ~\E tid \in TraceIDs : AddInterest(tid)
    <3>1. /\ UNCHANGED <<spc, scan>>
          /\ wakeup' \/ UNCHANGED <<waking, wakeup, interest>>
      BY <1>7, <2>2 DEF Next, Write, AddInterestWake, Close, Tick, TimerFire, Halted,
           SweeperStep, vars
    <3> QED BY <1>0, <3>1, UndecidedFrame
  <2> QED BY <2>1, <2>2
<1> QED BY NoPayload, <1>1, <1>2, <1>3, <1>4, <1>5, <1>6, <1>7 DEF Sweeper

\* What is decided while the sweeper waits, or was decided while it scanned,
\* wakes it.
LEMMA DecisionWakesNext ==
  ASSUME ReservedIDs, TypeInv, TypeInv', RingInv, Custody, Undecided, DecisionWakes,
         "writeback" \notin Faults, [Next]_vars
  PROVE  DecisionWakes'
<1> SUFFICES ASSUME spc' = "wait", waking' = 0, ~wakeup', wpc' # "wake", NEW r \in AtHead'
             PROVE  ~HasInterestForSpan(r.tid, r.at)'
  BY DEF DecisionWakes, HasInterestForSpan
<1>0. waking \in Nat /\ waking' \in Nat /\ used \in Nat
  BY DEF TypeInv, TypeOK, RingInv
<1>1. ASSUME spc = "wait", waking = 0, ~wakeup, wpc # "wake", AtHead' = AtHead, interest' = interest
      PROVE  ~HasInterestForSpan(r.tid, r.at)'
  BY <1>1 DEF DecisionWakes, HasInterestForSpan
<1>2. CASE SweepEmpty
  <2>1. used' = 0
    BY <1>2 DEF SweepEmpty, ScanStep
  <2> QED BY <2>1 DEF AtHead
<1>3. CASE Writeback
  <2>1. /\ spc = "writeback" /\ Held /\ UNCHANGED <<waking, wakeup, interest, rHead, used>>
        /\ file' = IF scan.dirty THEN [file EXCEPT ![rHead] = scan.page] ELSE file
    BY <1>3 DEF Writeback, SweeperStep, CanFail, Held
  <2>2. rHead \in 0 .. Pages - 1 /\ file \in [0 .. Pages - 1 -> Page] /\ CopyOK
    BY <2>1 DEF TypeInv, TypeOK, Custody, SnapOK
  <2>3. file'[rHead'] = scan.page
    BY <2>1, <2>2 DEF CopyOK
  <2>4. PICK j \in Idx(scan.page) : r = scan.page.slots[j] /\ r.tid # TombstoneID
    BY <2>3 DEF AtHead, Idx
  <2>5. Looked(j)
    BY <2>1, <2>4 DEF Looked
  <2>6. ~HasInterestForSpan(r.tid, r.at)
    BY <2>1, <2>4, <2>5 DEF Undecided, Unmatched
  <2> QED BY <2>1, <2>6 DEF HasInterestForSpan
<1>4. CASE Sweeper /\ ~Writeback /\ ~SweepEmpty
  <2>1. CASE ScanMatch \/ AgeEvict
    <3>1. \E o \in Outcomes : Consume(o)
      BY <2>1 DEF ScanMatch, AgeEvict, Outcomes
    <3> QED BY <3>1 DEF Consume
  <2>2. CASE ~ScanMatch /\ ~AgeEvict
    BY <1>4, <2>2 DEF Sweeper, SweepRead, SweepReadFail, SweepWake, SweepWriterDone,
         ScanEnd, ScanPayload, ScanTombstone, ScanPartial, ScanUndecided, AgeKeep, Free, Signal,
         AtRecord, Decidable
  <2> QED BY <2>1, <2>2
<1>5. CASE Writer
  <2>1. CASE Publish \/ WakeSweeper
    BY <2>1 DEF Publish, WakeSweeper
  <2>2. CASE ~Publish /\ ~WakeSweeper
    <3>1. wpc # "wake" /\ UNCHANGED <<wakeup, spc, waking, interest>>
      BY <1>5, <2>2 DEF Writer, WriterRecv, WriterTick, WriterClose, FlushWrite, WriterFull,
           WriterFreed, WriterGivesUp, LargeWrite, WriterStep
    <3>2. UNCHANGED <<used, rHead>> /\ \A i \in 0 .. used - 1 : RingPage(i)' = RingPage(i)
      BY <1>5, <2>2, WriterPages
    <3>3. used # 0 => file'[rHead] = file[rHead]
      <4> SUFFICES ASSUME used # 0 PROVE file'[rHead] = file[rHead]
        OBVIOUS
      <4>1. RingPage(0)' = RingPage(0)
        BY <1>0, <3>2
      <4>2. RingPage(0)' = file'[Advance(rHead, 0)]
        BY <3>2 DEF RingPage, Advance
      <4>3. Advance(rHead, 0) = rHead
        BY AdvanceZero DEF TypeInv, TypeOK
      <4> QED BY <4>1, <4>2, <4>3, HeadPage
    <3>4. AtHead' = AtHead
      BY <3>2, <3>3 DEF AtHead
    <3> QED BY <1>1, <3>1, <3>4
  <2> QED BY <2>1, <2>2
<1>6. CASE ~Writer /\ ~Sweeper
  <2>1. CASE \E tid \in TraceIDs : AddInterest(tid)
    BY <1>0, <2>1 DEF AddInterest
  <2>2. CASE ~\E tid \in TraceIDs : AddInterest(tid)
    <3>1. UNCHANGED <<spc, waking, wakeup, interest, wpc, used, file, rHead>>
      BY <1>6, <2>2 DEF Next, Write, AddInterestWake, Close, Tick, TimerFire, Halted,
           SweeperStep, vars
    <3>2. AtHead' = AtHead
      BY <3>1 DEF AtHead
    <3> QED BY <1>1, <3>1, <3>2
  <2> QED BY <2>1, <2>2
<1> QED BY <1>2, <1>3, <1>4, <1>5, <1>6

(* If tombstones reach the file, a sweeper that waits without a token       *)
(* pending or about to be sent has no decided record under it: a decision   *)
(* that comes after processPage looked up the record, and before or while   *)
(* the sweeper waits, wakes it.                                             *)
THEOREM NoDecisionMissed ==
  ASSUME ReservedIDs, PagesSucceed, "writeback" \notin Faults
  PROVE  Spec => []DecisionWakes
<1> DEFINE WakeInv == ReliableInv /\ Undecided /\ DecisionWakes
<1>1. Init => WakeInv
  BY ReliableInit DEF Init, Undecided, DecisionWakes
<1>2. WakeInv /\ [Next]_vars => WakeInv'
  <2> SUFFICES ASSUME ReliableInv, Undecided, DecisionWakes, [Next]_vars
               PROVE  ReliableInv' /\ Undecided' /\ DecisionWakes'
    OBVIOUS
  <2>1. ReliableInv'
    BY ReliableNext
  <2>2. TypeInv /\ TypeInv' /\ RingInv /\ Custody /\ ContOK
    BY <2>1 DEF ReliableInv, RecordInv, Whole, NoStage
  <2> QED BY <2>1, <2>2, UndecidedNext, DecisionWakesNext
<1> QED BY <1>1, <1>2, PTL DEF Spec
=============================================================================
