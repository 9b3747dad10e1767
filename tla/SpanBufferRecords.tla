------------------------- MODULE SpanBufferRecords -------------------------
(* Theorems about what becomes of every record that Write accepts, for     *)
(* every number of pages, page size, set of trace IDs and lengths, decision *)
(* wait and bound.                                                          *)
(*                                                                         *)
(* The inductive invariant, Custody, says where each record is: callers'   *)
(* requests are numbered in the order of acceptance, and the numbers       *)
(* increase from the head of the ring through the counted pages, the stage *)
(* and the request in hand to the channel.  It holds as long as no large   *)
(* record is torn, written over staged ones or split from its first page   *)
(* (Torn) and the process is Alive.                                        *)
EXTENDS SpanBufferProofs

\* The two reserved IDs are different and no trace's.
ReservedIDs == ReservedUnused /\ ZeroID \notin TraceIDs
-----------------------------------------------------------------------------
(* The invariant.                                                          *)

\* processPage works on its copy of the head page.
Held     == spc \in {"scan", "age", "writeback", "free"}
HeadView == IF Held THEN scan.page ELSE file[rHead]

\* Requests taken from the channel; those of them that handle is done with;
\* and the last one before the stage.
Received  == Len(written) - Len(writeCh)
Published == wpc = "wake" /\ chunksOut > 0
Done      == IF wreq = NoReq \/ Published THEN Received ELSE Received - 1
Top       == IF Len(stage.slots) = 0 THEN Done ELSE stage.slots[1].data - 1

\* How often a record may be handed over again.
Slack == IF "writeback" \in Faults THEN faults ELSE 0

Idx(p)     == 1 .. Len(p.slots)
\* The same record, stamped or not; a record that Write accepted.
Same(s, r) == /\ s.data = r.data /\ s.len = r.len /\ s.at = r.at
              /\ s.tid \in {r.tid, TombstoneID}
Known(s)   == s.data \in 1 .. Len(written) /\ Same(s, written[s.data])
\* Payload d has met no end, or was given up before it reached the ring.
Unmet(d)   == history[d] = <<>> \/ history[d] \in {<<"dropped">>, <<"unflushed">>}

WrittenOK ==
  \A d \in 1 .. Len(written) :
    written[d].data = d /\ written[d].tid \in TraceIDs /\ written[d].at <= now

QueueOK ==
  /\ Len(writeCh) <= Len(written)
  /\ \A i \in 1 .. Len(writeCh) : writeCh[i] = written[Received + i]

HandOK ==
  /\ wreq # NoReq => Received >= 1 /\ wreq = written[Received]
  /\ wpc \in {"select", "done"} => wreq = NoReq
  /\ wpc \in {"large", "largeWait"} \/ chunksOut > 0 => wreq # NoReq /\ IsLarge(wreq.len)
  /\ chunksOut > 0 \/ wpc = "wake" => stageN = 0

StageOK ==
  /\ stageN = 0 <=> Len(stage.slots) = 0
  /\ stage.cont = NoChunk
  /\ \A j \in Idx(stage) :
       /\ stage.slots[j].data \in 1 .. Done
       /\ stage.slots[j] = written[stage.slots[j].data]
       /\ ~IsLarge(stage.slots[j].len)
  /\ \A j, k \in Idx(stage) : j < k => stage.slots[j].data < stage.slots[k].data

InFlightOK ==
  /\ wpc = "publish" /\ chunksOut = 0 => RingPage(used) = stage
  /\ wpc \in {"large", "publish"} =>
       \A m \in 0 .. chunksOut - 1 : RingPage(used + m) = ChunkPage(wreq, m)

SlotsOK ==
  \A i \in 0 .. used - 1 : \A j \in Idx(RingPage(i)) :
    Known(RingPage(i).slots[j]) /\ RingPage(i).slots[j].data <= Top

\* A large record is alone in its page and followed by its chunks.
Framed(i) ==
  LET s == RingPage(i).slots[1]
  IN  /\ Len(RingPage(i).slots) = 1
      /\ i + NumChunks(s.len) <= used
      /\ \A k \in 1 .. NumChunks(s.len) - 1 : RingPage(i + k) = ChunkPage(s, k)
FramesOK == \A i \in 0 .. used - 1 : LargeHead(RingPage(i)) => Framed(i)

OrderOK ==
  \A i, k \in 0 .. used - 1 : \A j \in Idx(RingPage(i)), l \in Idx(RingPage(k)) :
    i < k \/ (i = k /\ j < l) => RingPage(i).slots[j].data < RingPage(k).slots[l].data

\* The copy differs from the page in the file by the stamps it has received.
CopyOK ==
  /\ scan.page.cont = file[rHead].cont
  /\ Len(scan.page.slots) = Len(file[rHead].slots)
  /\ \A j \in Idx(scan.page) : Same(scan.page.slots[j], file[rHead].slots[j])
  /\ ~scan.dirty => scan.page = file[rHead]
  /\ scan.dirty => scan.page.cont = NoChunk

\* What processPage has found out so far.
ResultOK ==
  /\ scan.fully => \A j \in Idx(scan.page) :
       (spc \in {"scan", "age"} => j < scan.pos) => scan.page.slots[j].tid = TombstoneID
  /\ spc \in {"scan", "age"} => scan.chunks = 1
  /\ LargeHead(scan.page) =>
       /\ NumChunks(scan.page.slots[1].len) <= scan.used
       /\ spc \in {"scan", "age"} => scan.pos = 1
       /\ spc \in {"writeback", "free"} /\ scan.fully =>
            scan.chunks = NumChunks(scan.page.slots[1].len)
  /\ ~LargeHead(scan.page) => scan.chunks = 1
  /\ spc = "free" => scan.fully

SnapOK == Held => CopyOK /\ ResultOK

HistWriter ==
  /\ \A d \in Data : d > Done => history[d] = <<>>
  /\ \A d \in Data : d > Top => Unmet(d)
  /\ \A j \in Idx(stage) : history[stage.slots[j].data] = <<>>
  /\ \A d \in Top + 1 .. Done : history[d] = <<>> =>
       \E j \in Idx(stage) : stage.slots[j].data = d

HistBehind ==
  \A i \in 1 .. used - 1 : \A j \in Idx(RingPage(i)) :
    /\ history[RingPage(i).slots[j].data] = <<>>
    /\ \A d \in Data : d > RingPage(i).slots[j].data => Unmet(d)

HistHead ==
  used > 0 => \A j \in Idx(HeadView) :
    HeadView.slots[j].tid # TombstoneID => Len(history[HeadView.slots[j].data]) <= Slack

InHead(d)   == used > 0 /\ \E j \in Idx(HeadView) :
                 HeadView.slots[j].data = d /\ HeadView.slots[j].tid # TombstoneID
InBehind(d) == \E i \in 1 .. used - 1 : \E j \in Idx(RingPage(i)) : RingPage(i).slots[j].data = d
HistOnRing  == \A d \in 1 .. Top : history[d] = <<>> => InHead(d) \/ InBehind(d)

Custody ==
  /\ WrittenOK /\ QueueOK /\ HandOK /\ StageOK /\ InFlightOK
  /\ SlotsOK /\ FramesOK /\ OrderOK /\ SnapOK
  /\ HistWriter /\ HistBehind /\ HistHead /\ HistOnRing

\* What stays true when the process dies.
Bounded ==
  \A d \in Data : /\ Len(history[d]) <= 1 + Slack
                  /\ d \notin 1 .. Len(written) => history[d] = <<>>
-----------------------------------------------------------------------------
(* Pages.                                                                  *)

USE SizeAssumption, TimeAssumption, BoundAssumption
USE DEF callerVars, tokens, ring, stageVars, writerVars, sweeperVars, ghostVars

\* The page under the sweeper is the first of the counted ones.
LEMMA HeadPage == TypeInv => RingPage(0) = file[rHead]
BY AdvanceZero DEF RingPage, TypeInv, TypeOK

\* The writer's next page is the one after the counted and in-flight ones.
LEMMA AppendedPage ==
  ASSUME TypeInv, RingInv, used + InFlight < Pages, NEW q \in Page,
         file' = [file EXCEPT ![wHead] = q], UNCHANGED rHead
  PROVE  \A i \in 0 .. used + InFlight :
           RingPage(i)' = IF i = used + InFlight THEN q ELSE RingPage(i)
<1> DEFINE n == used + InFlight
<1>1. /\ n \in 0 .. Pages - 1 /\ rHead \in 0 .. Pages - 1 /\ wHead = Advance(rHead, n)
      /\ wHead \in 0 .. Pages - 1 /\ file \in [0 .. Pages - 1 -> Page]
  BY InFlightType DEF TypeInv, TypeOK, RingInv, RingAligned
<1> SUFFICES ASSUME NEW i \in 0 .. n
             PROVE  RingPage(i)' = IF i = n THEN q ELSE RingPage(i)
  OBVIOUS
<1> HIDE DEF n
<1>2. RingPage(i)' = file'[Advance(rHead, i)]
  BY DEF RingPage, Advance
<1>3. CASE i = n
  BY <1>1, <1>2, <1>3
<1>4. CASE i # n
  <2>1. i \in 0 .. Pages /\ n \in 0 .. Pages /\ i < n /\ n < Pages
    BY <1>1, <1>4
  <2>2. Advance(rHead, i) # wHead
    BY <1>1, <2>1, AdvanceApart
  <2>3. rHead \in Int /\ i \in Int
    BY <1>1, <2>1
  <2>4. Advance(rHead, i) \in 0 .. Pages - 1
    BY ONLY <2>3, AdvanceType
  <2> QED BY <1>1, <1>2, <1>4, <2>2, <2>4 DEF RingPage
<1> QED BY <1>3, <1>4

\* Giving c pages back renumbers the others.
LEMMA RemainingPages ==
  ASSUME TypeInv, RingInv, NEW c \in 1 .. used, rHead' = Advance(rHead, c), UNCHANGED file
  PROVE  \A i \in 0 .. used + InFlight - c : RingPage(i)' = RingPage(c + i)
<1>1. /\ used \in 0 .. Pages /\ InFlight \in Nat /\ used + InFlight <= Pages
      /\ rHead \in 0 .. Pages - 1
  BY InFlightType DEF TypeInv, TypeOK, RingInv, RingAligned
<1> SUFFICES ASSUME NEW i \in 0 .. used + InFlight - c PROVE RingPage(i)' = RingPage(c + i)
  OBVIOUS
<1>2. c \in 0 .. Pages /\ i \in 0 .. Pages /\ c + i <= Pages
  BY <1>1
<1>3. Advance(rHead', i) = Advance(rHead, c + i)
  BY <1>1, <1>2, AdvanceAdd
<1> QED BY <1>3 DEF RingPage, Advance

\* Writing the head page back touches no other page.
LEMMA OtherPages ==
  ASSUME TypeInv, RingInv, NEW p, file' \in {file, [file EXCEPT ![rHead] = p]}, UNCHANGED rHead
  PROVE  \A i \in 1 .. used + InFlight - 1 : RingPage(i)' = RingPage(i)
<1>1. /\ used + InFlight \in 0 .. Pages /\ rHead \in 0 .. Pages - 1
      /\ file \in [0 .. Pages - 1 -> Page] /\ used \in Int /\ InFlight \in Nat
  BY InFlightType DEF TypeInv, TypeOK, RingInv, RingAligned
<1> SUFFICES ASSUME NEW i \in 1 .. used + InFlight - 1 PROVE RingPage(i)' = RingPage(i)
  OBVIOUS
<1>2. 0 \in 0 .. Pages /\ i \in 0 .. Pages /\ 0 < i /\ i < Pages
  BY <1>1
<1>3. Advance(rHead, i) # rHead
  <2>1. Advance(rHead, 0) # Advance(rHead, i)
    BY <1>1, <1>2, AdvanceApart
  <2>2. Advance(rHead, 0) = rHead
    BY <1>1, AdvanceZero
  <2> QED BY <2>1, <2>2
<1>4. rHead \in Int /\ i \in Int
  BY <1>1, <1>2
<1>5. Advance(rHead, i) \in 0 .. Pages - 1
  BY ONLY <1>4, AdvanceType
<1>6. file'[Advance(rHead, i)] = file[Advance(rHead, i)]
  BY <1>1, <1>3, <1>5
<1> QED BY <1>6 DEF RingPage, Advance

\* Nor does any step that leaves the file and the sweeper's position alone.
LEMMA SamePages ==
  ASSUME UNCHANGED <<file, rHead>>
  PROVE  \A i \in Int : RingPage(i)' = RingPage(i)
BY DEF RingPage, Advance
-----------------------------------------------------------------------------
(* Outcomes are only ever added.                                           *)

Extends(g, h) == \A i \in 1 .. Len(h) : i \in 1 .. Len(g) /\ g[i] = h[i]

\* Appending extends.
LEMMA AppendExtends ==
  ASSUME NEW h \in Seq(Outcomes), NEW o \in Outcomes
  PROVE  Extends(Append(h, o), h) /\ Extends(h, h)
BY AppendProperties DEF Extends

\* Giving some records an outcome extends the history of each.
LEMMA MeetExtends ==
  ASSUME TypeInv, NEW ds, NEW o \in Outcomes, NEW d \in Data
  PROVE  Extends(Meet(ds, o)[d], history[d])
<1>1. history[d] \in Seq(Outcomes)
  BY DEF TypeInv, TypeOK
<1>2. Meet(ds, o)[d] \in {history[d], Append(history[d], o)}
  BY DEF Meet
<1> QED BY <1>1, <1>2, AppendExtends

\* Every step extends the history of every record.
LEMMA HistoryExtends ==
  ASSUME TypeInv, [Next]_vars, NEW d \in Data
  PROVE  Extends(history'[d], history[d])
<1> USE DEF Outcomes
<1>0. history \in [Data -> Seq(Outcomes)] /\ history[d] \in Seq(Outcomes)
  BY DEF TypeInv, TypeOK
<1>1. CASE WriterGivesUp
  <2>1. PICK ds : history' = Meet(ds, "dropped")
    BY <1>1 DEF WriterGivesUp
  <2> QED BY <2>1, MeetExtends
<1>2. CASE LargeWrite
  <2>1. CASE history' = Meet(Overwritten, "overwritten")
    BY <2>1, MeetExtends
  <2>2. CASE history' = [Meet(Overwritten, "overwritten") EXCEPT
               ![wreq.data] = Append(@, IF chunksOut = 0 THEN "dropped" ELSE "torn")]
    <3> DEFINE m == Meet(Overwritten, "overwritten")
               o == IF chunksOut = 0 THEN "dropped" ELSE "torn"
    <3>1. m \in [Data -> Seq(Outcomes)] /\ m[d] \in Seq(Outcomes)
      BY MeetType
    <3>2. o \in Outcomes
      OBVIOUS
    <3>3. Extends(m[d], history[d])
      BY MeetExtends
    <3> HIDE DEF m, o
    <3>4. history' = [m EXCEPT ![wreq.data] = Append(m[wreq.data], o)]
      BY <2>2 DEF m, o
    <3>5. history'[d] \in {m[d], Append(m[d], o)}
      BY <3>1, <3>4
    <3>6. Extends(history'[d], m[d])
      BY <3>1, <3>2, <3>5, AppendExtends
    <3> QED BY <3>3, <3>6 DEF Extends
  <2> QED BY <1>2, <2>1, <2>2 DEF LargeWrite
<1>3. CASE SweepReadFail \/ FlushWrite
  BY <1>3, <1>0, MeetExtends, AppendExtends DEF SweepReadFail, FlushWrite
<1>4. CASE ScanMatch \/ AgeEvict
  <2>1. PICK o \in Outcomes : Consume(o)
    BY <1>4 DEF ScanMatch, AgeEvict
  <2>2. history'[d] \in {history[d], Append(history[d], o)}
    BY <1>0, <2>1 DEF Consume
  <2> QED BY <1>0, <2>2, AppendExtends
<1>5. CASE /\ ~WriterGivesUp /\ ~LargeWrite /\ ~FlushWrite
           /\ ~SweepReadFail /\ ~ScanMatch /\ ~AgeEvict
  <2>1. history' = history
    <3>1. CASE Writer
      BY <1>5, <3>1 DEF Writer, WriterRecv, WriterTick, WriterClose, WriterFull,
           WriterFreed, Publish, WakeSweeper
    <3>2. CASE Sweeper
      BY <1>5, <3>2 DEF Sweeper, SweepEmpty, SweepRead, SweepWake, SweepWriterDone,
           ScanEnd, ScanPayload, ScanTombstone, ScanPartial, ScanUndecided, AgeKeep, Writeback, Free, Signal
    <3>3. CASE ~Writer /\ ~Sweeper
      BY <3>3 DEF Next, Write, AddInterest, AddInterestWake, Close, Tick, TimerFire, Halted,
                  SweeperStep, vars
    <3> QED BY <3>1, <3>2, <3>3
  <2> QED BY <1>0, <2>1, AppendExtends
<1> QED BY <1>1, <1>2, <1>3, <1>4, <1>5

\* A torn record stays on record.
LEMMA TornStays == TypeInv /\ [Next]_vars /\ Torn => Torn'
<1> SUFFICES ASSUME TypeInv, [Next]_vars, Torn PROVE Torn'
  OBVIOUS
<1>1. PICK d \in Data : \E i \in 1 .. Len(history[d]) : history[d][i] \in {"torn", "overwritten", "split"}
  BY DEF Torn
<1>2. Extends(history'[d], history[d])
  BY HistoryExtends
<1>3. \E i \in 1 .. Len(history'[d]) : history'[d][i] \in {"torn", "overwritten", "split"}
  BY <1>1, <1>2 DEF Extends
<1> QED BY <1>3 DEF Torn
-----------------------------------------------------------------------------
(* The invariant holds when New returns, whatever is in the file: no page  *)
(* is counted.                                                             *)
LEMMA CustodyInit == ReservedIDs /\ Init => Custody /\ Bounded
<1> SUFFICES ASSUME ReservedIDs, Init PROVE Custody /\ Bounded
  OBVIOUS
<1>1. /\ Len(written) = 0 /\ Len(writeCh) = 0 /\ Received = 0 /\ Done = 0 /\ Top = 0 /\ used = 0
      /\ Len(stage.slots) = 0
  BY DEF Init, Received, Done, Top, EmptyPage
<1>2. WrittenOK /\ QueueOK /\ HandOK
  BY <1>1 DEF Init, WrittenOK, QueueOK, HandOK
<1>3. StageOK
  BY <1>1 DEF Init, StageOK, Idx, EmptyPage
<1>4. InFlightOK /\ SlotsOK /\ FramesOK /\ OrderOK
  BY <1>1 DEF Init, InFlightOK, SlotsOK, FramesOK, OrderOK
<1>5. SnapOK
  BY DEF Init, SnapOK, Held
<1>6. \A d \in Data : history[d] = <<>>
  BY DEF Init
<1>7. HistWriter /\ HistBehind /\ HistHead /\ HistOnRing
  BY <1>1, <1>6 DEF HistWriter, HistBehind, HistHead, HistOnRing, Unmet, Idx
<1>8. Bounded
  <2>1. Slack = 0
    BY DEF Init, Slack
  <2> QED BY <1>6, <2>1 DEF Bounded
<1> QED BY <1>2, <1>3, <1>4, <1>5, <1>7, <1>8 DEF Custody

\* The invariant's counters are numbers.
LEMMA Counters ==
  ASSUME TypeInv, Custody
  PROVE  /\ Received \in Nat /\ Received <= Len(written) /\ Len(written) \in 0 .. MaxRecs
         /\ Done \in 0 .. Received /\ Top \in 0 .. Done
         /\ Len(writeCh) \in Nat /\ Received + Len(writeCh) = Len(written)
         /\ wreq # NoReq /\ ~Published => Done + 1 = Received
         /\ wreq = NoReq \/ Published => Done = Received
<1>1. Len(writeCh) \in Nat /\ Len(written) \in 0 .. MaxRecs
  BY DEF TypeInv, TypeOK
<1>2. /\ Received \in Nat /\ Received <= Len(written) /\ Received + Len(writeCh) = Len(written)
  BY <1>1 DEF Custody, QueueOK, Received
<1>3. /\ Done \in 0 .. Received
      /\ wreq # NoReq /\ ~Published => Done + 1 = Received
      /\ wreq = NoReq \/ Published => Done = Received
  BY <1>2 DEF Done, Custody, HandOK
<1>4. Top \in 0 .. Done
  <2>1. CASE Len(stage.slots) = 0
    BY <1>2, <1>3, <2>1 DEF Top
  <2>2. CASE Len(stage.slots) # 0
    <3>1. 1 \in Idx(stage)
      BY <2>2 DEF Idx, TypeInv, TypeOK, Page
    <3>2. stage.slots[1].data \in 1 .. Done
      BY <3>1 DEF Custody, StageOK
    <3> QED BY <1>2, <1>3, <2>2, <3>2 DEF Top
  <2> QED BY <2>1, <2>2
<1> QED BY <1>1, <1>2, <1>3, <1>4

\* What callers wrote are records.
LEMMA WrittenSlot ==
  ASSUME TypeInv, NEW d \in 1 .. Len(written)
  PROVE  written[d] \in Slot /\ written[d].at \in Int /\ written[d].len \in Nat
<1>1. written[d] \in Slot
  BY DEF TypeInv, TypeOK
<1> QED BY <1>1 DEF Slot

\* The counted records stay known while more are accepted.
LEMMA SlotsFrame ==
  ASSUME SlotsOK, UNCHANGED used, Top' = Top,
         \A i \in 0 .. used - 1 : RingPage(i)' = RingPage(i),
         \A d \in 1 .. Len(written) : d \in 1 .. Len(written') /\ written'[d] = written[d]
  PROVE  SlotsOK'
<1> SUFFICES ASSUME NEW i \in 0 .. used - 1, NEW j \in Idx(RingPage(i))'
             PROVE  (Known(RingPage(i).slots[j]) /\ RingPage(i).slots[j].data <= Top)'
  BY DEF SlotsOK
<1>1. RingPage(i)' = RingPage(i)
  OBVIOUS
<1>2. j \in Idx(RingPage(i))
  BY <1>1 DEF Idx
<1>3. Known(RingPage(i).slots[j]) /\ RingPage(i).slots[j].data <= Top
  BY <1>2 DEF SlotsOK
<1> QED BY <1>1, <1>3 DEF Known, Same

\* Callers and the clock.  A record that Write accepts goes to the end of
\* the channel; nothing else moves.
LEMMA CustodyCallers ==
  ASSUME ReservedIDs, TypeInv, Custody, Bounded,
         \/ \E tid \in TraceIDs, len \in Lens, lag \in 0 .. MaxLag : Write(tid, len, now - lag)
         \/ \E tid \in TraceIDs : AddInterest(tid)
         \/ AddInterestWake \/ Close \/ Tick
         \/ \E t \in timers : TimerFire(t)
         \/ UNCHANGED vars
  PROVE  Custody' /\ Bounded'
<1>1. /\ UNCHANGED <<used, file, writerVars, rHead, spc, scan, faults, history>>
      /\ \/ UNCHANGED <<writeCh, written>>
         \/ \E r \in Slot : /\ writeCh' = Append(writeCh, r) /\ written' = Append(written, r)
                            /\ r.tid \in TraceIDs /\ r.data = Len(written) + 1 /\ r.at <= now
                            /\ Len(written) < MaxRecs
      /\ now' >= now /\ now \in Int /\ now' \in Int
  <2>1. ASSUME NEW tid \in TraceIDs, NEW len \in Lens, NEW lag \in 0 .. MaxLag,
               Write(tid, len, now - lag)
        PROVE  /\ UNCHANGED <<used, file, writerVars, rHead, spc, scan, faults, history, now>>
               /\ \E r \in Slot :
                    /\ writeCh' = Append(writeCh, r) /\ written' = Append(written, r)
                    /\ r.tid \in TraceIDs /\ r.data = Len(written) + 1 /\ r.at <= now
                    /\ Len(written) < MaxRecs
    <3> DEFINE r == [tid |-> tid, data |-> Len(written) + 1, len |-> len, at |-> now - lag]
    <3>1. r \in Slot /\ r.tid \in TraceIDs /\ r.data = Len(written) + 1 /\ r.at <= now
      BY SMTT(30), <2>1 DEF TypeInv, TypeOK, Write, Slot, AnyID, Data, Times
    <3> QED BY <2>1, <3>1 DEF Write
  <2>2. CASE \/ \E tid \in TraceIDs : AddInterest(tid)
             \/ AddInterestWake \/ Close \/ Tick
             \/ \E t \in timers : TimerFire(t)
             \/ UNCHANGED vars
    BY SMTT(30), <2>2 DEF AddInterest, AddInterestWake, Close, Tick, TimerFire, SweeperStep, vars,
                TypeInv, TypeOK, Times
  <2>3. now \in Int
    BY DEF TypeInv, TypeOK, Times
  <2> QED BY <2>1, <2>2, <2>3
<1>2. /\ Received' = Received /\ Len(written') >= Len(written) /\ Len(writeCh') <= Len(written')
      /\ \A d \in 1 .. Len(written) : written'[d] = written[d]
      /\ Len(written') \in Nat /\ Len(written) \in Nat
  <2>1. CASE UNCHANGED <<writeCh, written>>
    BY <2>1, Counters DEF Received, TypeInv, TypeOK, Custody, QueueOK
  <2>2. ASSUME NEW r \in Slot, writeCh' = Append(writeCh, r), written' = Append(written, r)
        PROVE  /\ Received' = Received /\ Len(written') >= Len(written)
               /\ Len(writeCh') <= Len(written')
               /\ \A d \in 1 .. Len(written) : written'[d] = written[d]
               /\ Len(written') \in Nat /\ Len(written) \in Nat
    BY <2>2, AppendProperties, Counters DEF Received, TypeInv, TypeOK, Custody, QueueOK
  <2> QED BY <1>1, <2>1, <2>2
<1>3. /\ Done' = Done /\ Top' = Top /\ Slack' = Slack /\ HeadView' = HeadView
      /\ Done \in 0 .. Len(written)
  BY <1>1, <1>2, Counters DEF Done, Top, Slack, HeadView, Held, Published
<1>4. WrittenOK' /\ QueueOK'
  <2>1. CASE UNCHANGED <<writeCh, written>>
    <3>1. ASSUME NEW d \in 1 .. Len(written) PROVE written[d].at <= now'
      <4>1. written[d].at <= now /\ written[d].at \in Int
        BY WrittenSlot DEF Custody, WrittenOK
      <4> QED BY <1>1, <4>1
    <3> QED BY <1>2, <2>1, <3>1 DEF Custody, WrittenOK, QueueOK
  <2>2. ASSUME NEW r \in Slot, writeCh' = Append(writeCh, r), written' = Append(written, r),
               r.tid \in TraceIDs, r.data = Len(written) + 1, r.at <= now
        PROVE  WrittenOK' /\ QueueOK'
    <3>1. /\ Len(written') = Len(written) + 1 /\ written'[Len(written) + 1] = r
          /\ Len(writeCh') = Len(writeCh) + 1 /\ writeCh'[Len(writeCh) + 1] = r
          /\ \A i \in 1 .. Len(writeCh) : writeCh'[i] = writeCh[i]
          /\ Len(writeCh) \in Nat
      BY <2>2, AppendProperties DEF TypeInv, TypeOK
    <3>2. WrittenOK'
      <4> SUFFICES ASSUME NEW d \in 1 .. Len(written')
                   PROVE  /\ written'[d].data = d /\ written'[d].tid \in TraceIDs
                          /\ written'[d].at <= now'
        BY DEF WrittenOK
      <4>1. CASE d = Len(written) + 1
        BY <1>1, <2>2, <3>1, <4>1 DEF Slot
      <4>2. CASE d \in 1 .. Len(written)
        <5>1. /\ written[d].data = d /\ written[d].tid \in TraceIDs /\ written[d].at <= now
              /\ written[d].at \in Int
          BY <4>2, WrittenSlot DEF Custody, WrittenOK
        <5> QED BY <1>1, <1>2, <4>2, <5>1
      <4> QED BY <1>2, <3>1, <4>1, <4>2
    <3>3. QueueOK'
      <4> SUFFICES ASSUME NEW i \in 1 .. Len(writeCh')
                   PROVE  writeCh'[i] = written'[Received' + i]
        BY <1>2 DEF QueueOK
      <4>1. CASE i = Len(writeCh) + 1
        <5>1. Received \in Nat /\ Received + Len(writeCh) = Len(written)
          BY Counters
        <5>2. Received + i = Len(written) + 1
          BY <3>1, <4>1, <5>1
        <5> QED BY <1>2, <3>1, <4>1, <5>2
      <4>2. CASE i \in 1 .. Len(writeCh)
        <5>1. writeCh[i] = written[Received + i] /\ Received + i \in 1 .. Len(written)
          BY SMTT(30), <4>2, Counters DEF Custody, QueueOK
        <5> QED BY <1>2, <3>1, <4>2, <5>1
      <4> QED BY <3>1, <4>1, <4>2
    <3> QED BY <3>2, <3>3
  <2> QED BY <1>1, <2>1, <2>2
<1>5. HandOK'
  <2>1. wreq # NoReq => Received \in 1 .. Len(written)
    BY Counters DEF Custody, HandOK
  <2> QED BY <1>1, <1>2, <2>1 DEF Custody, HandOK
<1>6. StageOK'
  <2>1. \A j \in Idx(stage) : written'[stage.slots[j].data] = written[stage.slots[j].data]
    <3> SUFFICES ASSUME NEW j \in Idx(stage)
                 PROVE  written'[stage.slots[j].data] = written[stage.slots[j].data]
      OBVIOUS
    <3>1. stage.slots[j].data \in 1 .. Done
      BY DEF Custody, StageOK
    <3>2. stage.slots[j].data \in 1 .. Len(written)
      BY <1>2, <1>3, <3>1
    <3> QED BY <1>2, <3>2
  <2> QED BY <1>1, <1>3, <2>1 DEF Custody, StageOK, Idx
<1>7. InFlightOK' /\ FramesOK' /\ OrderOK'
  BY <1>1 DEF Custody, InFlightOK, FramesOK, Framed, LargeHead, OrderOK, Idx, RingPage, Advance
<1>8. SlotsOK'
  <2>1. /\ \A i \in 0 .. used - 1 : RingPage(i)' = RingPage(i)
        /\ \A d \in 1 .. Len(written) : d \in 1 .. Len(written') /\ written'[d] = written[d]
    BY <1>1, <1>2 DEF RingPage, Advance
  <2> QED BY <1>1, <1>3, <2>1, SlotsFrame DEF Custody
<1>9. SnapOK'
  BY <1>1 DEF Custody, SnapOK, Held, CopyOK, Same, ResultOK, Idx, LargeHead
<1>10. HistWriter' /\ HistBehind'
  BY <1>1, <1>3 DEF Custody, HistWriter, HistBehind, Unmet, Idx, RingPage, Advance
<1>11. HistHead' /\ HistOnRing'
  BY <1>1, <1>3 DEF Custody, HistHead, HistOnRing, InHead, InBehind, Idx, RingPage, Advance
<1>12. Bounded'
  BY <1>1, <1>2, <1>3 DEF Bounded
<1> QED BY <1>4, <1>5, <1>6, <1>7, <1>8, <1>9, <1>10, <1>11, <1>12 DEF Custody
-----------------------------------------------------------------------------
(* The sweeper.                                                            *)

\* What the sweeper's goroutine never touches.
LEMMA SweeperKeeps ==
  ASSUME TypeInv, Custody, SweeperStep
  PROVE  /\ WrittenOK' /\ QueueOK' /\ HandOK' /\ StageOK'
         /\ Received' = Received /\ Done' = Done /\ Top' = Top
         /\ UNCHANGED <<written, stage, wpc, wreq, chunksOut>>
<1>1. UNCHANGED <<now, callerVars, writerVars, written>>
  BY DEF SweeperStep
<1>2. Received' = Received /\ Done' = Done /\ Top' = Top
  BY <1>1 DEF Received, Done, Top, Published
<1>3. WrittenOK' /\ QueueOK' /\ HandOK'
  BY <1>1, <1>2 DEF Custody, WrittenOK, QueueOK, HandOK
<1>4. StageOK'
  BY <1>1, <1>2 DEF Custody, StageOK, Idx
<1> QED BY <1>1, <1>2, <1>3, <1>4

\* The sweeper holds a counted page, and the records of its copy are records
\* that callers wrote.
LEMMA HeldPage ==
  ASSUME ReservedIDs, TypeInv, RingInv, Custody, Held
  PROVE  /\ used >= 1 /\ used \in Nat /\ RingPage(0) = file[rHead] /\ file[rHead] \in Page
         /\ scan \in Scan /\ scan.page \in Page
         /\ \A j \in Idx(scan.page) :
              /\ j \in Idx(file[rHead]) /\ scan.page.slots[j] \in Slot
              /\ scan.page.slots[j].data = file[rHead].slots[j].data
              /\ scan.page.slots[j].len = file[rHead].slots[j].len
              /\ Known(scan.page.slots[j]) /\ scan.page.slots[j].data <= Top
              /\ scan.page.slots[j].tid # ZeroID
<1>1. /\ used >= 1 /\ used \in Nat /\ RingPage(0) = file[rHead] /\ file[rHead] \in Page
      /\ scan \in Scan /\ scan.page \in Page
  BY HeadPage DEF Held, RingInv, SweeperInv, TypeInv, TypeOK, Scan
<1> SUFFICES ASSUME NEW j \in Idx(scan.page)
             PROVE  /\ j \in Idx(file[rHead]) /\ scan.page.slots[j] \in Slot
                    /\ scan.page.slots[j].data = file[rHead].slots[j].data
                    /\ scan.page.slots[j].len = file[rHead].slots[j].len
                    /\ Known(scan.page.slots[j]) /\ scan.page.slots[j].data <= Top
                    /\ scan.page.slots[j].tid # ZeroID
  BY <1>1
<1> DEFINE f == file[rHead].slots[j]
           s == scan.page.slots[j]
<1>2. j \in Idx(file[rHead]) /\ Same(s, f) /\ s \in Slot /\ f \in Slot
  BY <1>1 DEF Custody, SnapOK, CopyOK, Idx, Page
<1>3. 0 \in 0 .. used - 1 /\ j \in Idx(RingPage(0))
  BY <1>1, <1>2
<1>4. Known(f) /\ f.data <= Top
  BY <1>1, <1>3 DEF Custody, SlotsOK
<1> HIDE DEF f, s
<1>5. written[f.data].tid \in TraceIDs
  BY <1>4 DEF Known, Custody, WrittenOK
<1>6. Known(s)
  BY <1>2, <1>4 DEF Known, Same
<1>7. s.tid # ZeroID
  BY <1>2, <1>5, <1>6 DEF Known, Same, ReservedIDs, ReservedUnused
<1> QED BY <1>2, <1>4, <1>6, <1>7 DEF f, s, Same

\* A step of the sweeper that leaves the counted pages and the outcomes alone.
LEMMA CustodySweepFrame ==
  ASSUME TypeInv, Custody, Bounded, SweeperStep,
         UNCHANGED <<used, file, rHead, history, faults>>, HeadView' = HeadView, SnapOK'
  PROVE  Custody' /\ Bounded'
<1>1. /\ WrittenOK' /\ QueueOK' /\ HandOK' /\ StageOK'
      /\ Done' = Done /\ Top' = Top
      /\ UNCHANGED <<written, stage, wpc, wreq, chunksOut>>
  BY SweeperKeeps
<1>2. Slack' = Slack
  BY DEF Slack
<1>3. InFlightOK' /\ FramesOK' /\ OrderOK'
  BY <1>1 DEF Custody, InFlightOK, FramesOK, Framed, LargeHead, OrderOK, Idx, RingPage, Advance
<1>4. SlotsOK'
  <2>1. /\ \A i \in 0 .. used - 1 : RingPage(i)' = RingPage(i)
        /\ \A d \in 1 .. Len(written) : d \in 1 .. Len(written') /\ written'[d] = written[d]
    BY <1>1 DEF RingPage, Advance
  <2> QED BY <1>1, <2>1, SlotsFrame DEF Custody
<1>5. HistWriter' /\ HistBehind'
  BY <1>1 DEF Custody, HistWriter, HistBehind, Unmet, Idx, RingPage, Advance
<1>6. HistHead' /\ HistOnRing'
  BY <1>1, <1>2 DEF Custody, HistHead, HistOnRing, InHead, InBehind, Idx, RingPage, Advance
<1>7. Bounded'
  BY <1>1, <1>2 DEF Bounded
<1> QED BY <1>1, <1>3, <1>4, <1>5, <1>6, <1>7 DEF Custody

\* The record under the cursor of processPage is one of the copy's, and no
\* large record it meets is counted in part.
LEMMA CursorRecord ==
  ASSUME ReservedIDs, TypeInv, RingInv, Custody, AtRecord \/ spc = "age"
  PROVE  /\ Held /\ scan.pos \in Idx(scan.page) /\ scan.pos \in Nat /\ Rec \in Slot
         /\ Rec = scan.page.slots[scan.pos]
         /\ scan.page.cont = NoChunk /\ spc \in {"scan", "age"} /\ scan \in Scan
         /\ scan.page \in Page
         /\ LargeRec <=> LargeHead(scan.page)
         /\ ~Partial
<1>1. /\ Held /\ spc \in {"scan", "age"} /\ scan.page.cont = NoChunk
  BY DEF AtRecord, Held, RingInv, SweeperInv
<1>2. /\ scan.pos \in 1 .. Len(scan.page.slots) /\ Rec \in Slot /\ scan \in Scan
      /\ scan.pos \in Nat /\ scan.page \in Page
  BY RecType DEF TypeInv, TypeOK, Scan
<1>3. LargeRec => LargeHead(scan.page)
  <2> SUFFICES ASSUME LargeRec PROVE LargeHead(scan.page)
    OBVIOUS
  <2>1. scan.page.slots # <<>>
    BY <1>2
  <2> QED BY <1>1, <2>1 DEF LargeRec, LargeHead, Rec
<1>4. LargeHead(scan.page) => scan.pos = 1 /\ NumChunks(scan.page.slots[1].len) <= scan.used
  BY <1>1 DEF Custody, SnapOK, ResultOK
<1>5. LargeHead(scan.page) => LargeRec
  BY <1>4 DEF LargeHead, LargeRec, Rec
<1>6. ~Partial
  <2> SUFFICES ASSUME LargeRec PROVE ~(NumChunks(Rec.len) > scan.used)
    BY DEF Partial
  <2>1. NumChunks(Rec.len) <= scan.used
    BY <1>3, <1>4 DEF Rec
  <2>2. NumChunks(Rec.len) \in Int /\ scan.used \in Int
    BY <1>2, NumChunksType DEF Slot, Scan
  <2> QED BY <2>1, <2>2
<1> QED BY <1>1, <1>2, <1>3, <1>5, <1>6 DEF Idx, Rec

\* Steps that only move the sweeper, its cursor or its results.
LEMMA CustodyScan ==
  ASSUME ReservedIDs, TypeInv, RingInv, Custody, Bounded,
         \/ SweepEmpty \/ SweepRead \/ SweepWake \/ SweepWriterDone \/ Signal
         \/ ScanEnd \/ ScanTombstone \/ ScanPartial \/ ScanUndecided \/ AgeKeep
  PROVE  Custody' /\ Bounded'
<1>1. CASE SweepEmpty \/ SweepWake \/ SweepWriterDone \/ Signal
  <2>1. /\ spc \in {"top", "wait", "signal"} /\ spc' \in {"done", "wait", "top"}
        /\ SweeperStep /\ UNCHANGED <<used, file, rHead, history, faults, scan>>
    BY <1>1 DEF SweepEmpty, SweepWake, SweepWriterDone, Signal, ScanStep
  <2>2. HeadView' = HeadView /\ SnapOK'
    BY <2>1 DEF HeadView, Held, SnapOK
  <2> QED BY <2>1, <2>2, CustodySweepFrame
<1>2. CASE SweepRead
  <2>1. /\ scan' = [page |-> file[rHead], pos |-> 1, used |-> used, fully |-> TRUE,
                    chunks |-> 1, dirty |-> FALSE, minRem |-> 0]
        /\ spc = "top" /\ spc' = "scan" /\ used # 0
        /\ SweeperStep /\ UNCHANGED <<used, file, rHead, history, faults>>
    BY <1>2 DEF SweepRead, NoScan, ScanStep
  <2>2. HeadView' = HeadView
    BY <2>1 DEF HeadView, Held
  <2>3. file[rHead] \in Page /\ RingPage(0) = file[rHead] /\ 0 \in 0 .. used - 1
    BY <2>1, HeadPage DEF TypeInv, TypeOK, RingInv
  <2>4. ASSUME LargeHead(file[rHead]) PROVE NumChunks(file[rHead].slots[1].len) <= used
    <3>1. 0 + NumChunks(file[rHead].slots[1].len) <= used
      BY <2>3, <2>4 DEF Custody, FramesOK, Framed
    <3>2. file[rHead].slots[1] \in Slot
      BY <2>3, <2>4 DEF LargeHead, Page
    <3>3. NumChunks(file[rHead].slots[1].len) \in Nat
      BY <3>2, NumChunksType DEF Slot
    <3> QED BY <3>1, <3>3
  <2>5. CopyOK'
    BY <2>1, <2>3 DEF CopyOK, Same, Idx
  <2>6. ResultOK'
    BY <2>1, <2>4 DEF ResultOK, LargeHead, Idx
  <2> QED BY <2>1, <2>2, <2>5, <2>6, CustodySweepFrame DEF SnapOK
<1>3. CASE ScanEnd
  <2>1. /\ spc = "scan" /\ ~AtRecord /\ Held /\ scan' = scan
        /\ spc' = "writeback" /\ scan.page.cont = NoChunk
        /\ SweeperStep /\ UNCHANGED <<used, file, rHead, history, faults>>
    BY <1>3 DEF ScanEnd, ScanStep, Held
  <2>2. spc' = "writeback" /\ HeadView' = HeadView
    BY <2>1 DEF HeadView, Held
  <2>3. scan.pos > Len(scan.page.slots)
    <3> SUFFICES ASSUME scan.pos <= Len(scan.page.slots) PROVE FALSE
      BY <2>1 DEF TypeInv, TypeOK, Scan, Page
    <3>1. scan.pos \in Idx(scan.page)
      BY <2>1 DEF Idx, TypeInv, TypeOK, CursorOK, Scan, Page
    <3>2. Rec.tid # ZeroID
      BY <2>1, <3>1, HeldPage DEF Rec
    <3> QED BY <2>1, <3>2 DEF AtRecord
  <2>4. scan.pos >= 1 /\ scan.pos \in Nat /\ scan.page \in Page
    BY <2>1 DEF TypeInv, TypeOK, CursorOK, Scan
  <2>5. CopyOK /\ ResultOK
    BY <2>1 DEF Custody, SnapOK
  <2>6. ~LargeHead(scan.page)
    <3> SUFFICES ASSUME LargeHead(scan.page) PROVE FALSE
      OBVIOUS
    <3>1. scan.pos = 1
      BY <2>1, <2>5 DEF ResultOK
    <3>2. Len(scan.page.slots) >= 1
      BY <2>4 DEF LargeHead, Page
    <3> QED BY <2>3, <3>1, <3>2 DEF Page
  <2>7. CopyOK'
    BY <2>1, <2>5 DEF CopyOK, Same, Idx
  <2>8. ResultOK'
    <3>1. scan.fully => \A j \in Idx(scan.page) : scan.page.slots[j].tid = TombstoneID
      <4> SUFFICES ASSUME scan.fully, NEW j \in Idx(scan.page)
                   PROVE  scan.page.slots[j].tid = TombstoneID
        OBVIOUS
      <4>1. j < scan.pos
        BY <2>3, <2>4 DEF Idx, Page
      <4> QED BY <2>5, <4>1 DEF ResultOK
    <3> QED BY <2>1, <2>2, <2>5, <2>6, <3>1 DEF ResultOK, Idx, LargeHead
  <2> QED BY <2>1, <2>2, <2>7, <2>8, CustodySweepFrame DEF SnapOK
<1>4. CASE ScanTombstone
  <2>1. /\ AtRecord /\ spc = "scan" /\ Rec.tid = TombstoneID /\ SweeperStep
        /\ UNCHANGED <<used, file, rHead, history, faults>>
    BY <1>4 DEF ScanTombstone, AtRecord, ScanStep
  <2>2. /\ Held /\ scan.pos \in Idx(scan.page) /\ scan.pos \in Nat /\ scan \in Scan
        /\ scan.page \in Page /\ Rec = scan.page.slots[scan.pos]
        /\ LargeRec <=> LargeHead(scan.page)
    BY <2>1, CursorRecord
  <2>3. ~LargeHead(scan.page)
    <3> SUFFICES ASSUME LargeHead(scan.page) PROVE FALSE
      OBVIOUS
    <3>1. LargeTomb(scan.page)
      BY <2>1, <2>2 DEF LargeTomb, LargeRec, Rec
    <3> QED BY <2>1, <3>1 DEF RingInv, SweeperInv
  <2>4. scan' = [scan EXCEPT !.pos = scan.pos + 1] /\ spc' = "scan"
    BY <1>4, <2>1, <2>2, <2>3 DEF ScanTombstone, Scan
  <2>5. /\ scan'.page = scan.page /\ scan'.pos = scan.pos + 1 /\ scan'.used = scan.used
        /\ scan'.fully = scan.fully /\ scan'.chunks = scan.chunks /\ scan'.dirty = scan.dirty
    BY <2>2, <2>4 DEF Scan
  <2>6. CopyOK /\ ResultOK
    BY <2>2 DEF Custody, SnapOK
  <2>7. CopyOK'
    BY <2>1, <2>5, <2>6 DEF CopyOK, Same, Idx
  <2>8. ResultOK'
    <3>1. ASSUME scan.fully, NEW j \in Idx(scan.page), j < scan.pos + 1
          PROVE  scan.page.slots[j].tid = TombstoneID
      <4>1. CASE j = scan.pos
        BY <2>1, <2>2, <4>1
      <4>2. CASE j < scan.pos
        BY <2>6, <3>1, <4>2 DEF ResultOK
      <4> QED BY <2>2, <3>1, <4>1, <4>2 DEF Idx
    <3> QED BY <2>1, <2>3, <2>4, <2>5, <2>6, <3>1 DEF ResultOK, Idx, LargeHead
  <2>9. HeadView' = HeadView
    BY <2>1, <2>4, <2>5 DEF HeadView, Held
  <2> QED BY <2>1, <2>7, <2>8, <2>9, CustodySweepFrame DEF SnapOK
<1>5. CASE ScanPartial
  BY <1>5, CursorRecord DEF ScanPartial
<1>6. CASE ScanUndecided
  <2>1. /\ AtRecord /\ spc = "scan" /\ spc' = "age" /\ scan' = scan /\ SweeperStep
        /\ UNCHANGED <<used, file, rHead, history, faults>>
    BY <1>6 DEF ScanUndecided, Decidable, AtRecord, ScanStep
  <2>2. CopyOK /\ ResultOK
    BY <2>1 DEF Custody, SnapOK, Held
  <2>3. CopyOK' /\ ResultOK' /\ HeadView' = HeadView
    BY <2>1, <2>2 DEF CopyOK, Same, ResultOK, HeadView, Held, Idx, LargeHead
  <2> QED BY <2>1, <2>3, CustodySweepFrame DEF SnapOK
<1>7. CASE AgeKeep
  <2>1. /\ spc = "age" /\ spc' = (IF LargeRec THEN "writeback" ELSE "scan") /\ SweeperStep
        /\ UNCHANGED <<used, file, rHead, history, faults>>
    BY <1>7 DEF AgeKeep, ScanStep
  <2>2. Held /\ scan \in Scan /\ scan.page \in Page /\ (LargeRec <=> LargeHead(scan.page))
    BY <2>1, CursorRecord
  <2>3. /\ scan'.page = scan.page /\ scan'.used = scan.used /\ scan'.fully = FALSE
        /\ scan'.chunks = scan.chunks /\ scan'.dirty = scan.dirty
    <3>1. scan' = [scan EXCEPT !.fully = FALSE,
                              !.minRem = MinRem(scan.minRem, DecisionWait - Age),
                              !.pos = scan.pos + 1]
      BY <1>7, <2>2 DEF AgeKeep, Scan
    <3> QED BY <2>2, <3>1 DEF Scan
  <2>4. CopyOK /\ ResultOK
    BY <2>2 DEF Custody, SnapOK
  <2>5. CopyOK'
    BY <2>1, <2>3, <2>4 DEF CopyOK, Same, Idx
  <2>6. ResultOK'
    BY <2>1, <2>2, <2>3, <2>4 DEF ResultOK, LargeHead
  <2>7. HeadView' = HeadView
    BY <2>1, <2>3 DEF HeadView, Held
  <2> QED BY <2>1, <2>5, <2>6, <2>7, CustodySweepFrame DEF SnapOK
<1> QED BY <1>1, <1>2, <1>3, <1>4, <1>5, <1>6, <1>7

\* What is staged came after everything that is counted.
LEMMA StageAbove ==
  ASSUME TypeInv, Custody, NEW j \in Idx(stage)
  PROVE  /\ stage.slots[j].data \in Int /\ stage.slots[j].data > Top
         /\ stage.slots[j].data \in 1 .. Done
<1>1. stage.slots \in Seq(Slot) /\ j \in 1 .. Len(stage.slots) /\ Len(stage.slots) \in Nat
  BY DEF TypeInv, TypeOK, Page, Idx
<1>2. 1 \in Idx(stage) /\ Len(stage.slots) # 0
  BY <1>1 DEF Idx
<1>3. Top = stage.slots[1].data - 1
  BY <1>2 DEF Top
<1>4. stage.slots[1].data \in 1 .. Done /\ stage.slots[j].data \in 1 .. Done
  BY <1>2 DEF Custody, StageOK
<1>5. j > 1 => stage.slots[1].data < stage.slots[j].data
  BY <1>1, <1>2 DEF Custody, StageOK
<1>6. Done \in Int
  BY Counters
<1>7. CASE j = 1
  BY <1>3, <1>4, <1>6, <1>7
<1>8. CASE j > 1
  BY <1>3, <1>4, <1>5, <1>6, <1>8
<1> QED BY <1>1, <1>7, <1>8

\* The copy after a record has been consumed, field by field.
LEMMA ConsumedCopy ==
  ASSUME ReservedIDs, TypeInv, RingInv, Custody, AtRecord \/ spc = "age", NEW o, Consume(o)
  PROVE  /\ scan'.page.cont = scan.page.cont
         /\ Len(scan'.page.slots) = Len(scan.page.slots)
         /\ \A j \in Idx(scan.page) : j # scan.pos => scan'.page.slots[j] = scan.page.slots[j]
         /\ scan'.page.slots[scan.pos].data = Rec.data
         /\ scan'.page.slots[scan.pos].len = Rec.len
         /\ scan'.page.slots[scan.pos].at = Rec.at
         /\ scan'.page.slots[scan.pos].tid = TombstoneID
         /\ scan'.dirty = TRUE /\ scan'.used = scan.used /\ scan'.fully = scan.fully
         /\ scan'.chunks = IF LargeRec THEN NumChunks(Rec.len) ELSE scan.chunks
         /\ scan'.pos = IF LargeRec THEN scan.pos ELSE scan.pos + 1
         /\ spc' = IF LargeRec THEN "writeback" ELSE "scan"
<1>1. /\ scan.pos \in Idx(scan.page) /\ Rec \in Slot /\ scan \in Scan /\ scan.page \in Page
      /\ Rec = scan.page.slots[scan.pos]
  BY CursorRecord
<1>2. scan.page.slots \in Seq(Slot) /\ scan.pos \in 1 .. Len(scan.page.slots)
  BY <1>1 DEF Page, Idx
<1>3. scan' = [scan EXCEPT !.page.slots[scan.pos].tid = TombstoneID,
                          !.dirty  = TRUE,
                          !.chunks = IF LargeRec THEN NumChunks(Rec.len) ELSE @,
                          !.pos    = IF LargeRec THEN @ ELSE @ + 1]
      /\ spc' = IF LargeRec THEN "writeback" ELSE "scan"
  BY DEF Consume
<1>4. /\ scan'.dirty = TRUE /\ scan'.used = scan.used /\ scan'.fully = scan.fully
      /\ scan'.chunks = IF LargeRec THEN NumChunks(Rec.len) ELSE scan.chunks
      /\ scan'.pos = IF LargeRec THEN scan.pos ELSE scan.pos + 1
  BY <1>1, <1>3 DEF Scan
<1>5. scan'.page = [scan.page EXCEPT !.slots = [scan.page.slots EXCEPT ![scan.pos].tid = TombstoneID]]
  BY <1>1, <1>3 DEF Scan
<1>6. /\ scan'.page.cont = scan.page.cont
      /\ scan'.page.slots = [scan.page.slots EXCEPT ![scan.pos].tid = TombstoneID]
  BY <1>1, <1>5 DEF Page
<1>7. /\ Len(scan'.page.slots) = Len(scan.page.slots)
      /\ \A j \in 1 .. Len(scan.page.slots) :
           j # scan.pos => scan'.page.slots[j] = scan.page.slots[j]
      /\ scan'.page.slots[scan.pos] = [Rec EXCEPT !.tid = TombstoneID]
  BY SMTT(30), <1>1, <1>2, <1>6
<1>8. /\ scan'.page.slots[scan.pos].data = Rec.data
      /\ scan'.page.slots[scan.pos].len = Rec.len
      /\ scan'.page.slots[scan.pos].at = Rec.at
      /\ scan'.page.slots[scan.pos].tid = TombstoneID
  BY <1>1, <1>7 DEF Slot
<1> QED BY <1>3, <1>4, <1>6, <1>7, <1>8 DEF Idx

\* The records of the head page differ from each other and came before all
\* that follow.
LEMMA HeadDistinct ==
  ASSUME ReservedIDs, TypeInv, RingInv, Custody, Held, NEW j \in Idx(scan.page)
  PROVE  /\ \A k \in Idx(scan.page) : k # j => scan.page.slots[k].data # scan.page.slots[j].data
         /\ \A i \in 1 .. used - 1 : \A l \in Idx(RingPage(i)) :
              scan.page.slots[j].data < RingPage(i).slots[l].data
<1>1. /\ used >= 1 /\ used \in Nat /\ RingPage(0) = file[rHead]
      /\ \A k \in Idx(scan.page) :
           /\ k \in Idx(RingPage(0))
           /\ scan.page.slots[k].data = RingPage(0).slots[k].data
           /\ scan.page.slots[k].data \in Int
  BY HeldPage DEF Slot, Data
<1>2. ASSUME NEW k \in Idx(scan.page), k # j
      PROVE  scan.page.slots[k].data # scan.page.slots[j].data
  <2>1. 0 \in 0 .. used - 1 /\ (k < j \/ j < k)
    BY <1>1, <1>2 DEF Idx
  <2>2. CASE k < j
    <3>1. RingPage(0).slots[k].data < RingPage(0).slots[j].data
      BY <1>1, <2>1, <2>2 DEF Custody, OrderOK
    <3> QED BY <1>1, <3>1
  <2>3. CASE j < k
    <3>1. RingPage(0).slots[j].data < RingPage(0).slots[k].data
      BY <1>1, <2>1, <2>3 DEF Custody, OrderOK
    <3> QED BY <1>1, <3>1
  <2> QED BY <2>1, <2>2, <2>3
<1>3. ASSUME NEW i \in 1 .. used - 1, NEW l \in Idx(RingPage(i))
      PROVE  scan.page.slots[j].data < RingPage(i).slots[l].data
  <2>1. 0 \in 0 .. used - 1 /\ i \in 0 .. used - 1 /\ 0 < i
    BY <1>1
  <2>2. RingPage(0).slots[j].data < RingPage(i).slots[l].data
    BY <1>1, <2>1 DEF Custody, OrderOK
  <2> QED BY <1>1, <2>2
<1> QED BY <1>2, <1>3

\* A record is consumed: delivered, evicted or found corrupt.
LEMMA CustodyConsume ==
  ASSUME ReservedIDs, TypeInv, RingInv, Custody, Bounded, AtRecord \/ spc = "age",
         Rec.tid # TombstoneID, NEW o \in Outcomes, Consume(o), ScanStep,
         faults' \in {faults, faults + 1}
  PROVE  Custody' /\ Bounded'
<1> DEFINE d0 == Rec.data
           p0 == scan.pos
<1>1. /\ WrittenOK' /\ QueueOK' /\ HandOK' /\ StageOK'
      /\ Done' = Done /\ Top' = Top
      /\ UNCHANGED <<written, stage, wpc, wreq, chunksOut>>
      /\ UNCHANGED <<used, file, rHead>>
  BY SweeperKeeps DEF ScanStep
<1>2. /\ Held /\ p0 \in Idx(scan.page) /\ p0 \in Nat /\ Rec \in Slot
      /\ Rec = scan.page.slots[p0] /\ scan.page.cont = NoChunk /\ spc \in {"scan", "age"}
      /\ scan \in Scan /\ scan.page \in Page /\ (LargeRec <=> LargeHead(scan.page))
  BY CursorRecord
<1>3. /\ used >= 1 /\ used \in Nat /\ RingPage(0) = file[rHead] /\ file[rHead] \in Page
      /\ d0 \in 1 .. Len(written) /\ d0 <= Top
      /\ \A j \in Idx(scan.page) :
           /\ j \in Idx(file[rHead]) /\ scan.page.slots[j].data = file[rHead].slots[j].data
           /\ scan.page.slots[j].len = file[rHead].slots[j].len
  BY <1>2, HeldPage DEF Known
<1>4. /\ \A k \in Idx(scan.page) : k # p0 => scan.page.slots[k].data # d0
      /\ \A i \in 1 .. used - 1 : \A l \in Idx(RingPage(i)) : d0 < RingPage(i).slots[l].data
  BY <1>2, HeadDistinct
<1>5. /\ Top \in 0 .. Done /\ Done \in Nat /\ Len(written) \in 0 .. MaxRecs
      /\ Done \in 0 .. Len(written)
  BY Counters
<1>6. d0 \in Data /\ history \in [Data -> Seq(Outcomes)] /\ history[d0] \in Seq(Outcomes)
  BY <1>3, <1>5 DEF TypeInv, TypeOK, Data
<1>7. /\ history'[d0] = Append(history[d0], o) /\ history'[d0] # <<>>
      /\ Len(history'[d0]) = Len(history[d0]) + 1
      /\ \A d \in Data : d # d0 => history'[d] = history[d]
  <2>1. history' = [history EXCEPT ![d0] = Append(history[d0], o)]
    BY DEF Consume
  <2> HIDE DEF d0
  <2>2. /\ history'[d0] = Append(history[d0], o)
        /\ \A d \in Data : d # d0 => history'[d] = history[d]
    BY <1>6, <2>1
  <2>3. Len(Append(history[d0], o)) = Len(history[d0]) + 1 /\ Append(history[d0], o) # <<>>
    BY <1>6, AppendProperties
  <2> QED BY <2>2, <2>3
<1>8. Slack \in Nat /\ Slack' \in Nat /\ Slack <= Slack' /\ Len(history[d0]) <= Slack
  <2>1. Len(history[d0]) <= Slack
    BY <1>2, <1>3 DEF Custody, HistHead, HeadView
  <2> QED BY <2>1 DEF Slack, TypeInv, TypeOK
<1>9. /\ scan'.page.cont = scan.page.cont
      /\ Len(scan'.page.slots) = Len(scan.page.slots)
      /\ \A j \in Idx(scan.page) : j # p0 => scan'.page.slots[j] = scan.page.slots[j]
      /\ scan'.page.slots[p0].data = d0 /\ scan'.page.slots[p0].len = Rec.len
      /\ scan'.page.slots[p0].at = Rec.at /\ scan'.page.slots[p0].tid = TombstoneID
      /\ scan'.dirty = TRUE /\ scan'.used = scan.used /\ scan'.fully = scan.fully
      /\ scan'.chunks = (IF LargeRec THEN NumChunks(Rec.len) ELSE scan.chunks)
      /\ scan'.pos = (IF LargeRec THEN p0 ELSE p0 + 1)
      /\ spc' = IF LargeRec THEN "writeback" ELSE "scan"
  BY ConsumedCopy
<1> HIDE DEF d0, p0
<1>10. CopyOK /\ ResultOK
  BY <1>2 DEF Custody, SnapOK
<1>11. CopyOK'
  <2>1. ASSUME NEW j \in Idx(scan.page)
        PROVE  Same(scan'.page.slots[j], file[rHead].slots[j])
    <3>1. Same(scan.page.slots[j], file[rHead].slots[j])
      BY <1>10 DEF CopyOK
    <3>2. CASE j = p0
      BY <1>2, <1>9, <3>1, <3>2 DEF Same, d0
    <3>3. CASE j # p0
      BY <1>9, <3>1, <3>3
    <3> QED BY <3>2, <3>3
  <2> QED BY <1>1, <1>2, <1>9, <1>10, <2>1 DEF CopyOK, Idx, Same
<1>12. ResultOK'
  <2>1. LargeHead(scan.page)' <=> LargeHead(scan.page)
    <3>1. 1 \in Idx(scan.page) /\ scan.page.slots # <<>> /\ scan'.page.slots # <<>>
      BY <1>2, <1>9 DEF Idx, Page
    <3>2. scan'.page.slots[1].len = scan.page.slots[1].len
      <4>1. CASE p0 = 1
        BY <1>2, <1>9, <4>1
      <4>2. CASE p0 # 1
        BY <1>9, <3>1, <4>2
      <4> QED BY <4>1, <4>2
    <3> QED BY <1>9, <3>1, <3>2 DEF LargeHead
  <2>2. CASE LargeRec
    <3>1. p0 = 1 /\ spc' = "writeback" /\ scan'.chunks = NumChunks(Rec.len)
      BY <1>9, <2>2 DEF LargeRec, p0
    <3>2. LargeHead(file[rHead])
      BY <1>2, <1>3, <1>10, <2>2, <3>1 DEF LargeHead, CopyOK, Idx, Page
    <3>3. Len(scan.page.slots) = 1
      BY <1>3, <1>10, <3>2 DEF Custody, FramesOK, Framed, CopyOK
    <3>4. scan'.page.slots[1].len = Rec.len /\ scan.page.slots[1].len = Rec.len
      BY <1>2, <1>9, <3>1
    <3>5. NumChunks(scan.page.slots[1].len) <= scan.used
      BY <1>2, <1>10, <2>2 DEF ResultOK
    <3>6. LargeHead(scan.page)'
      BY <1>2, <2>1, <2>2
    <3> QED BY <1>9, <3>1, <3>3, <3>4, <3>5, <3>6 DEF ResultOK, Idx
  <2>3. CASE ~LargeRec
    <3>1. ~LargeHead(scan.page)' /\ spc' = "scan" /\ scan'.pos = p0 + 1 /\ scan'.chunks = 1
      BY <1>2, <1>9, <1>10, <2>1, <2>3 DEF ResultOK
    <3>2. ASSUME scan.fully, NEW j \in Idx(scan.page), j < p0 + 1
          PROVE  scan'.page.slots[j].tid = TombstoneID
      <4>1. CASE j = p0
        BY <1>9, <4>1
      <4>2. CASE j # p0
        <5>1. j < p0
          BY <1>2, <3>2, <4>2 DEF Idx
        <5>2. scan.page.slots[j].tid = TombstoneID
          BY <1>2, <1>10, <3>2, <5>1 DEF ResultOK, p0
        <5> QED BY <1>9, <4>2, <5>2
      <4> QED BY <4>1, <4>2
    <3> QED BY <1>9, <3>1, <3>2 DEF ResultOK, Idx
  <2> QED BY <2>2, <2>3
<1>13. InFlightOK' /\ FramesOK' /\ OrderOK'
  BY SMTT(30), <1>1 DEF Custody, InFlightOK, FramesOK, Framed, LargeHead, OrderOK, Idx, RingPage, Advance
<1>14. SlotsOK'
  <2>1. /\ \A i \in 0 .. used - 1 : RingPage(i)' = RingPage(i)
        /\ \A d \in 1 .. Len(written) : d \in 1 .. Len(written') /\ written'[d] = written[d]
    BY <1>1 DEF RingPage, Advance
  <2> QED BY <1>1, <2>1, SlotsFrame DEF Custody
<1>15. HistWriter'
  <2>1. \A d \in Data : d > Top => history'[d] = history[d]
    BY <1>3, <1>5, <1>7 DEF Data
  <2>2. \A j \in Idx(stage) : stage.slots[j].data > Top /\ stage.slots[j].data \in Data
    BY <1>5, StageAbove DEF Data
  <2>3. \A d \in Data : d > Done => d > Top
    BY <1>5 DEF Data
  <2>4. \A d \in Top + 1 .. Done : d \in Data /\ d > Top
    BY <1>5 DEF Data
  <2> QED BY <1>1, <2>1, <2>2, <2>3, <2>4 DEF Custody, HistWriter, Unmet, Idx
<1>16. HistBehind'
  <2>1. ASSUME NEW i \in 1 .. used - 1, NEW l \in Idx(RingPage(i))
        PROVE  LET s == RingPage(i).slots[l].data
               IN  /\ history'[s] = <<>>
                   /\ \A d \in Data : d > s => Unmet(d)'
    <3> DEFINE s == RingPage(i).slots[l].data
    <3>1. history[s] = <<>> /\ \A d \in Data : d > s => Unmet(d)
      BY DEF Custody, HistBehind
    <3>2. d0 < s
      BY <1>4
    <3>3. Known(RingPage(i).slots[l])
      BY <1>3 DEF Custody, SlotsOK
    <3> HIDE DEF s
    <3>4. s \in Data
      BY <1>5, <3>3 DEF Known, Data, s
    <3>5. \A d \in Data : d > s => d # d0
      BY <1>6, <3>2, <3>4 DEF Data
    <3>6. s # d0
      BY <1>6, <3>2, <3>4 DEF Data
    <3>7. history'[s] = <<>> /\ \A d \in Data : d > s => Unmet(d)'
      BY <1>7, <3>1, <3>4, <3>5, <3>6 DEF Unmet
    <3> QED BY <3>7 DEF s
  <2> QED BY <1>1, <2>1 DEF HistBehind, RingPage, Advance, Idx, Unmet
<1>17. HeadView' = scan'.page /\ HeadView = scan.page
  BY <1>2, <1>9 DEF HeadView, Held
<1>18. HistHead'
  <2>1. ASSUME NEW j \in Idx(scan.page), scan'.page.slots[j].tid # TombstoneID
        PROVE  Len(history'[scan'.page.slots[j].data]) <= Slack'
    <3>1. j # p0 /\ scan'.page.slots[j] = scan.page.slots[j] /\ scan.page.slots[j].data # d0
      BY <1>4, <1>9, <2>1
    <3>2. Len(history[scan.page.slots[j].data]) <= Slack
      BY <1>3, <1>17, <2>1, <3>1 DEF Custody, HistHead
    <3>3. scan.page.slots[j].data \in Data
      <4>1. scan.page.slots[j] \in Slot
        BY <1>2 DEF Idx, Page
      <4> QED BY <4>1 DEF Slot
    <3>4. history[scan.page.slots[j].data] \in Seq(Outcomes)
      BY <1>6, <3>3
    <3>5. history'[scan.page.slots[j].data] = history[scan.page.slots[j].data]
      BY <1>7, <3>1, <3>3
    <3> QED BY <1>8, <3>1, <3>2, <3>4, <3>5
  <2> QED BY <1>9, <1>17, <2>1 DEF HistHead, Idx
<1>19. HistOnRing'
  <2> SUFFICES ASSUME NEW d \in 1 .. Top, history'[d] = <<>>
               PROVE  InHead(d)' \/ InBehind(d)'
    BY <1>1 DEF HistOnRing
  <2>1. d \in Data /\ d # d0
    BY <1>5, <1>7 DEF Data
  <2>2. history[d] = <<>>
    BY <1>7, <2>1
  <2>3. CASE InHead(d)
    <3>1. PICK j \in Idx(scan.page) :
                 scan.page.slots[j].data = d /\ scan.page.slots[j].tid # TombstoneID
      BY <1>17, <2>3 DEF InHead
    <3>2. j # p0
      BY <1>2, <2>1, <3>1 DEF d0
    <3>3. scan'.page.slots[j] = scan.page.slots[j] /\ j \in Idx(scan.page)'
      BY <1>9, <3>2 DEF Idx
    <3> QED BY <1>1, <1>3, <1>17, <3>1, <3>3 DEF InHead, Idx
  <2>4. CASE InBehind(d)
    BY <1>1, <2>4 DEF InBehind, Idx, RingPage, Advance
  <2> QED BY <2>2, <2>3, <2>4 DEF Custody, HistOnRing
<1>20. Bounded'
  <2> SUFFICES ASSUME NEW d \in Data
               PROVE  /\ Len(history'[d]) <= 1 + Slack'
                      /\ d \notin 1 .. Len(written) => history'[d] = <<>>
    BY <1>1 DEF Bounded
  <2>1. Len(history[d]) <= 1 + Slack /\ (d \notin 1 .. Len(written) => history[d] = <<>>)
    BY DEF Bounded
  <2>2. Len(history[d]) \in Nat /\ Len(history[d0]) \in Nat
    BY <1>6
  <2>3. CASE d = d0
    BY <1>3, <1>7, <1>8, <2>2, <2>3
  <2>4. CASE d # d0
    BY <1>7, <1>8, <2>1, <2>2, <2>4
  <2> QED BY <2>3, <2>4
<1> QED BY <1>1, <1>11, <1>12, <1>13, <1>14, <1>15, <1>16, <1>18, <1>19, <1>20 DEF Custody, SnapOK

\* Pages that hold the same records, stamped or not.
Alike(p, q) ==
  /\ p.cont = q.cont /\ Len(p.slots) = Len(q.slots)
  /\ \A j \in Idx(p) : p.slots[j].data = q.slots[j].data /\ p.slots[j].len = q.slots[j].len

\* The frames do not depend on stamps.
LEMMA FramesStamped ==
  ASSUME TypeInv, Custody, UNCHANGED used, used \in Nat, used >= 1,
         RingPage(0)' \in Page, RingPage(0) \in Page, Alike(RingPage(0)', RingPage(0)),
         \A i \in 1 .. used - 1 : RingPage(i)' = RingPage(i)
  PROVE  FramesOK' /\ OrderOK'
<1>1. ASSUME NEW i \in 0 .. used - 1
      PROVE  /\ RingPage(i)'.cont = RingPage(i).cont
             /\ Len(RingPage(i)'.slots) = Len(RingPage(i).slots)
             /\ \A j \in Idx(RingPage(i)) :
                  /\ RingPage(i)'.slots[j].data = RingPage(i).slots[j].data
                  /\ RingPage(i)'.slots[j].len = RingPage(i).slots[j].len
  <2>1. CASE i = 0
    BY <2>1 DEF Alike, Idx
  <2>2. CASE i # 0
    BY <2>2
  <2> QED BY <2>1, <2>2
<1>2. OrderOK'
  BY <1>1 DEF Custody, OrderOK, Idx
<1>3. FramesOK'
  <2> SUFFICES ASSUME NEW i \in 0 .. used - 1, LargeHead(RingPage(i))' PROVE Framed(i)'
    BY DEF FramesOK
  <2>1. RingPage(i) \in Page /\ RingPage(i)' \in Page
    BY RingPageType
  <2>2. Len(RingPage(i).slots) # 0
    BY <1>1, <2>1 DEF LargeHead, Page
  <2>3. 1 \in Idx(RingPage(i)) /\ RingPage(i).slots # <<>>
    BY <2>1, <2>2 DEF Idx, Page
  <2> DEFINE s == RingPage(i).slots[1]
             t == RingPage(i)'.slots[1]
             n == NumChunks(s.len)
  <2>4. t.data = s.data /\ t.len = s.len /\ LargeHead(RingPage(i))
    BY <1>1, <2>3 DEF LargeHead
  <2>5. /\ Len(RingPage(i).slots) = 1 /\ i + n <= used
        /\ \A k \in 1 .. n - 1 : RingPage(i + k) = ChunkPage(s, k)
    BY <2>4 DEF Custody, FramesOK, Framed
  <2>6. n \in Nat
    <3>1. s \in Slot
      BY <2>1, <2>3 DEF Page, Idx
    <3> QED BY <3>1, NumChunksType DEF Slot
  <2> HIDE DEF s, t, n
  <2>7. \A k \in 1 .. n - 1 : RingPage(i + k)' = ChunkPage(t, k)
    <3> SUFFICES ASSUME NEW k \in 1 .. n - 1 PROVE RingPage(i + k)' = ChunkPage(t, k)
      OBVIOUS
    <3>1. i + k \in 1 .. used - 1
      BY <2>5, <2>6
    <3>2. RingPage(i + k)' = RingPage(i + k)
      BY <3>1
    <3>3. RingPage(i + k) = ChunkPage(s, k)
      BY <2>5
    <3>4. ChunkPage(s, k) = ChunkPage(t, k)
      BY <2>4, <2>6 DEF ChunkPage
    <3> QED BY <3>2, <3>3, <3>4
  <2>8. n = NumChunks(t.len)
    BY <2>4 DEF n
  <2> QED BY <1>1, <2>5, <2>7, <2>8 DEF Framed, t, NumChunks, ChunkPage, NoChunk
<1> QED BY <1>2, <1>3

\* processPage returns.  When the stamps do not reach the file, the records
\* that were consumed may be handed over once more.
LEMMA CustodyWriteback ==
  ASSUME ReservedIDs, TypeInv, RingInv, Custody, Bounded, Writeback
  PROVE  Custody' /\ Bounded'
<1>1. /\ WrittenOK' /\ QueueOK' /\ HandOK' /\ StageOK'
      /\ Done' = Done /\ Top' = Top
      /\ UNCHANGED <<written, stage, wpc, wreq, chunksOut>>
  BY SweeperKeeps DEF Writeback
<1>2. /\ spc = "writeback" /\ Held /\ UNCHANGED <<used, rHead, history>>
      /\ \/ scan.fully /\ spc' = "free" /\ scan' = scan
         \/ ~scan.fully /\ spc' = "wait"
  BY DEF Writeback, Held
<1>3. /\ used >= 1 /\ used \in Nat /\ RingPage(0) = file[rHead] /\ file[rHead] \in Page
      /\ scan.page \in Page /\ CopyOK /\ ResultOK
      /\ rHead \in 0 .. Pages - 1 /\ file \in [0 .. Pages - 1 -> Page]
  BY <1>2, HeldPage DEF Custody, SnapOK, TypeInv, TypeOK
<1>4. \/ file'[rHead] = scan.page /\ faults' = faults
      \/ file'[rHead] = file[rHead] /\ faults' = faults + 1 /\ "writeback" \in Faults
  <2>1. CASE /\ file' = (IF scan.dirty THEN [file EXCEPT ![rHead] = scan.page] ELSE file)
             /\ UNCHANGED faults
    BY <1>3, <2>1 DEF CopyOK
  <2>2. CASE CanFail("writeback") /\ Failed /\ UNCHANGED file
    BY <2>2 DEF CanFail, Failed
  <2> QED BY <2>1, <2>2 DEF Writeback
<1>5. file' \in {file, [file EXCEPT ![rHead] = scan.page]}
  BY DEF Writeback
<1>6. RingPage(0)' = file'[rHead] /\ file'[rHead] \in {scan.page, file[rHead]}
  <2>1. RingPage(0)' = file'[Advance(rHead, 0)]
    BY <1>2 DEF RingPage, Advance
  <2> QED BY <1>3, <1>4, <2>1, AdvanceZero
<1>7. \A i \in 1 .. used + InFlight - 1 : RingPage(i)' = RingPage(i)
  BY <1>2, <1>5, OtherPages
<1>8. InFlight \in Nat
  BY InFlightType
<1>9. \A i \in 1 .. used - 1 : RingPage(i)' = RingPage(i)
  BY <1>3, <1>7, <1>8
<1>10. Slack \in Nat /\ Slack' \in Nat /\ Slack <= Slack'
  BY <1>4 DEF Slack, TypeInv, TypeOK
<1>11. Alike(scan.page, file[rHead]) /\ Alike(file[rHead], file[rHead])
  BY <1>3 DEF Alike, CopyOK, Same, Idx
<1>12. FramesOK' /\ OrderOK'
  <2>1. Alike(RingPage(0)', RingPage(0)) /\ RingPage(0)' \in Page /\ RingPage(0) \in Page
    BY <1>3, <1>6, <1>11
  <2> QED BY <1>2, <1>3, <1>9, <2>1, FramesStamped
<1>13. InFlightOK'
  <2>1. wpc = "publish" /\ chunksOut = 0 => RingPage(used)' = RingPage(used)
    <3> SUFFICES ASSUME wpc = "publish", chunksOut = 0 PROVE RingPage(used)' = RingPage(used)
      OBVIOUS
    <3>1. InFlight = 1
      BY DEF InFlight
    <3>2. used \in 1 .. used + InFlight - 1
      BY <1>3, <3>1
    <3> QED BY <1>2, <1>7, <3>2 DEF RingPage, Advance
  <2>2. ASSUME wpc \in {"large", "publish"}, NEW m \in 0 .. chunksOut - 1
        PROVE  RingPage(used + m)' = RingPage(used + m)
    <3>1. chunksOut \in Nat /\ chunksOut # 0
      BY <2>2 DEF TypeInv, TypeOK
    <3>2. InFlight = chunksOut
      BY <2>2, <3>1 DEF InFlight
    <3>3. used + m \in 1 .. used + InFlight - 1
      BY <1>3, <3>1, <3>2
    <3> QED BY <1>2, <1>7, <3>3 DEF RingPage, Advance
  <2> QED BY <1>1, <1>2, <2>1, <2>2 DEF Custody, InFlightOK, RingPage, Advance, ChunkPage
<1>14. SlotsOK'
  <2> SUFFICES ASSUME NEW i \in 0 .. used - 1, NEW j \in Idx(RingPage(i))'
               PROVE  (Known(RingPage(i).slots[j]) /\ RingPage(i).slots[j].data <= Top)'
    BY <1>2 DEF SlotsOK
  <2>1. ASSUME NEW p \in {scan.page, file[rHead]}, i = 0, RingPage(i)' = p
        PROVE  (Known(RingPage(i).slots[j]) /\ RingPage(i).slots[j].data <= Top)'
    <3>1. j \in Idx(p)
      BY <2>1 DEF Idx
    <3>2. Known(p.slots[j]) /\ p.slots[j].data <= Top
      <4>1. CASE p = scan.page
        BY <1>2, <3>1, <4>1, HeldPage
      <4>2. CASE p = file[rHead]
        BY <1>3, <2>1, <3>1, <4>2 DEF Custody, SlotsOK
      <4> QED BY <4>1, <4>2
    <3> QED BY <1>1, <2>1, <3>2 DEF Known, Same
  <2>2. CASE i # 0
    <3>1. RingPage(i)' = RingPage(i)
      BY <1>9, <2>2
    <3>2. j \in Idx(RingPage(i))
      BY <3>1 DEF Idx
    <3>3. Known(RingPage(i).slots[j]) /\ RingPage(i).slots[j].data <= Top
      BY <3>2 DEF Custody, SlotsOK
    <3> QED BY <1>1, <3>1, <3>3 DEF Known, Same
  <2> QED BY <1>6, <2>1, <2>2
<1>15. SnapOK'
  <2>1. CASE spc' = "wait"
    BY <2>1 DEF SnapOK, Held
  <2>2. CASE spc' = "free"
    <3>1. scan' = scan /\ scan.fully
      BY <1>2, <2>2
    <3>2. CopyOK'
      <4>1. ~scan.dirty => file'[rHead] = scan.page
        BY <1>3, <1>6 DEF CopyOK
      <4>2. CASE file'[rHead] = scan.page
        BY <1>2, <1>3, <3>1, <4>2 DEF CopyOK, Same, Idx
      <4>3. CASE file'[rHead] = file[rHead]
        BY <1>2, <1>3, <3>1, <4>1, <4>3 DEF CopyOK, Same, Idx
      <4> QED BY <1>6, <4>2, <4>3
    <3>3. ResultOK'
      BY <1>2, <1>3, <2>2, <3>1 DEF ResultOK, Idx, LargeHead
    <3> QED BY <3>2, <3>3 DEF SnapOK
  <2> QED BY <1>2, <2>1, <2>2
<1>16. HistWriter'
  BY <1>1, <1>2 DEF Custody, HistWriter, Unmet, Idx
<1>17. HistBehind'
  BY <1>2, <1>9 DEF Custody, HistBehind, Unmet, Idx
<1>18. \/ HeadView' = scan.page
       \/ HeadView' = file[rHead] /\ Slack' = Slack + 1
  BY <1>2, <1>4 DEF HeadView, Held, Slack
<1>19. HeadView = scan.page /\ Alike(HeadView', scan.page)
  BY SMTT(30), <1>2, <1>18, <1>3 DEF HeadView, Alike, CopyOK, Same, Idx
<1>20. \A d \in Data : Len(history[d]) \in Nat
  BY DEF TypeInv, TypeOK
<1>21. HistHead'
  <2> SUFFICES ASSUME NEW j \in Idx(HeadView)', HeadView'.slots[j].tid # TombstoneID
               PROVE  Len(history'[HeadView'.slots[j].data]) <= Slack'
    BY DEF HistHead
  <2>1. j \in Idx(scan.page) /\ HeadView'.slots[j].data = scan.page.slots[j].data
    BY <1>19 DEF Alike, Idx
  <2>2. scan.page.slots[j].data \in Data
    <3>1. scan.page.slots[j] \in Slot
      BY <1>3, <2>1 DEF Idx, Page
    <3> QED BY <3>1 DEF Slot
  <2>3. CASE HeadView' = scan.page
    <3>1. Len(history[scan.page.slots[j].data]) <= Slack
      BY <1>3, <1>19, <2>1, <2>3 DEF Custody, HistHead
    <3> QED BY <1>2, <1>10, <1>20, <2>1, <2>2, <3>1
  <2>4. CASE Slack' = Slack + 1
    <3>1. Len(history[scan.page.slots[j].data]) <= 1 + Slack
      BY <2>2 DEF Bounded
    <3> QED BY <1>2, <1>10, <1>20, <2>1, <2>2, <2>4, <3>1
  <2> QED BY <1>18, <2>3, <2>4
<1>22. HistOnRing'
  <2> SUFFICES ASSUME NEW d \in 1 .. Top, history[d] = <<>>
               PROVE  InHead(d)' \/ InBehind(d)'
    BY <1>1, <1>2 DEF HistOnRing
  <2>1. CASE InHead(d)
    <3>1. PICK j \in Idx(scan.page) :
                 scan.page.slots[j].data = d /\ scan.page.slots[j].tid # TombstoneID
      BY <1>19, <2>1 DEF InHead
    <3>2. j \in Idx(HeadView)' /\ HeadView'.slots[j].data = d
      BY <1>19, <3>1 DEF Alike, Idx
    <3>3. HeadView'.slots[j].tid # TombstoneID
      <4>1. Same(scan.page.slots[j], file[rHead].slots[j])
        BY <1>3 DEF CopyOK
      <4> QED BY <1>18, <3>1, <4>1 DEF Same
    <3> QED BY <1>2, <1>3, <3>2, <3>3 DEF InHead
  <2>2. CASE InBehind(d)
    BY <1>2, <1>9, <2>2 DEF InBehind, Idx
  <2> QED BY <2>1, <2>2 DEF Custody, HistOnRing
<1>23. Bounded'
  <2> SUFFICES ASSUME NEW d \in Data
               PROVE  /\ Len(history[d]) <= 1 + Slack'
                      /\ d \notin 1 .. Len(written) => history[d] = <<>>
    BY <1>1, <1>2 DEF Bounded
  <2>1. Len(history[d]) <= 1 + Slack /\ (d \notin 1 .. Len(written) => history[d] = <<>>)
    BY DEF Bounded
  <2> QED BY <1>10, <1>20, <2>1
<1> QED BY <1>1, <1>12, <1>13, <1>14, <1>15, <1>16, <1>17, <1>21, <1>22, <1>23 DEF Custody

\* The records of the head page, in the file or in the copy.
LEMMA HeadRecords ==
  ASSUME ReservedIDs, TypeInv, RingInv, Custody, used > 0, NEW j \in Idx(HeadView)
  PROVE  /\ HeadView.slots[j].data \in 1 .. Len(written) /\ HeadView.slots[j].data <= Top
         /\ \A i \in 1 .. used - 1 : \A l \in Idx(RingPage(i)) :
              HeadView.slots[j].data < RingPage(i).slots[l].data
<1>1. CASE Held
  <2>1. HeadView = scan.page
    BY <1>1 DEF HeadView
  <2> QED BY <1>1, <2>1, HeldPage, HeadDistinct DEF Known
<1>2. CASE ~Held
  <2>1. HeadView = RingPage(0) /\ 0 \in 0 .. used - 1 /\ used \in Int
    BY <1>2, HeadPage DEF HeadView, TypeInv, TypeOK
  <2>2. Known(HeadView.slots[j]) /\ HeadView.slots[j].data <= Top
    BY <2>1 DEF Custody, SlotsOK
  <2>3. ASSUME NEW i \in 1 .. used - 1, NEW l \in Idx(RingPage(i))
        PROVE  HeadView.slots[j].data < RingPage(i).slots[l].data
    <3>1. i \in 0 .. used - 1 /\ 0 < i
      BY <2>1
    <3> QED BY <2>1, <3>1 DEF Custody, OrderOK
  <2> QED BY <2>2, <2>3 DEF Known
<1> QED BY <1>1, <1>2

\* The sweeper gives c pages back: the head page, whose records have all met
\* an end, and pages without records.
LEMMA CustodyFreed ==
  ASSUME ReservedIDs, TypeInv, RingInv, Custody, Bounded, SweeperStep, NEW c \in 1 .. used,
         spc' = "signal", rHead' = Advance(rHead, c), used' = used - c, UNCHANGED file,
         faults' \in {faults, faults + 1},
         \A i \in 1 .. c - 1 : Len(RingPage(i).slots) = 0,
         \A d \in Data : history'[d] # history[d] =>
           InHead(d) /\ Len(history'[d]) = Len(history[d]) + 1,
         \A d \in 1 .. Top : history'[d] = <<>> => ~InHead(d)
  PROVE  Custody' /\ Bounded'
<1>1. /\ WrittenOK' /\ QueueOK' /\ HandOK' /\ StageOK'
      /\ Done' = Done /\ Top' = Top
      /\ UNCHANGED <<written, stage, wpc, wreq, chunksOut>>
  BY SweeperKeeps
<1>2. /\ used \in Nat /\ used' \in Nat /\ InFlight \in Nat /\ used > 0 /\ c \in Nat
      /\ InFlight' = InFlight
  BY <1>1, InFlightType DEF RingInv, InFlight
<1>3. \A i \in 0 .. used + InFlight - c : RingPage(i)' = RingPage(c + i)
  BY RemainingPages
<1>4. \A i \in 0 .. used' - 1 : /\ RingPage(i)' = RingPage(c + i) /\ c + i \in 1 .. used - 1
                                /\ c + i \in 0 .. used - 1
  BY <1>2, <1>3
<1>5. /\ Top \in 0 .. Done /\ Done \in Nat /\ Len(written) \in 0 .. MaxRecs
      /\ Done \in 0 .. Len(written)
  BY Counters
<1>6. Slack \in Nat /\ Slack' \in Nat /\ Slack <= Slack'
  BY DEF Slack, TypeInv, TypeOK
<1>7. history \in [Data -> Seq(Outcomes)]
  BY DEF TypeInv, TypeOK
<1>8. ASSUME NEW d \in Data, history'[d] # history[d]
      PROVE  /\ d \in 1 .. Len(written) /\ d <= Top /\ Len(history[d]) <= Slack
             /\ \A i \in 1 .. used - 1 : \A l \in Idx(RingPage(i)) : d < RingPage(i).slots[l].data
  <2>1. PICK j \in Idx(HeadView) : HeadView.slots[j].data = d /\ HeadView.slots[j].tid # TombstoneID
    BY <1>8 DEF InHead
  <2>2. Len(history[d]) <= Slack
    BY <1>2, <2>1 DEF Custody, HistHead
  <2> QED BY <1>2, <2>1, <2>2, HeadRecords
<1>9. InFlightOK'
  <2>1. wpc = "publish" /\ chunksOut = 0 => RingPage(used)' = RingPage(used)
    <3> SUFFICES ASSUME wpc = "publish", chunksOut = 0 PROVE RingPage(used)' = RingPage(used)
      OBVIOUS
    <3>1. used - c \in 0 .. used + InFlight - c /\ c + (used - c) = used
      BY <1>2
    <3> QED BY <1>3, <3>1 DEF RingPage, Advance
  <2>2. ASSUME wpc \in {"large", "publish"}, NEW m \in 0 .. chunksOut - 1
        PROVE  RingPage(used + m)' = RingPage(used + m)
    <3>1. chunksOut \in Nat /\ chunksOut # 0
      BY <2>2 DEF TypeInv, TypeOK
    <3>2. InFlight = chunksOut
      BY <2>2, <3>1 DEF InFlight
    <3>3. (used - c) + m \in 0 .. used + InFlight - c /\ c + ((used - c) + m) = used + m
      BY <1>2, <3>1, <3>2
    <3> QED BY <1>3, <3>3 DEF RingPage, Advance
  <2> QED BY <1>1, <2>1, <2>2 DEF Custody, InFlightOK, ChunkPage
<1>10. SlotsOK'
  <2> SUFFICES ASSUME NEW i \in 0 .. used' - 1, NEW j \in Idx(RingPage(i))'
               PROVE  (Known(RingPage(i).slots[j]) /\ RingPage(i).slots[j].data <= Top)'
    BY DEF SlotsOK
  <2>1. RingPage(i)' = RingPage(c + i) /\ c + i \in 0 .. used - 1
    BY <1>4
  <2>2. j \in Idx(RingPage(c + i))
    BY <2>1 DEF Idx
  <2>3. Known(RingPage(c + i).slots[j]) /\ RingPage(c + i).slots[j].data <= Top
    BY <2>1, <2>2 DEF Custody, SlotsOK
  <2> QED BY <1>1, <2>1, <2>3 DEF Known, Same
<1>11. FramesOK'
  <2> SUFFICES ASSUME NEW i \in 0 .. used' - 1, LargeHead(RingPage(i))' PROVE Framed(i)'
    BY DEF FramesOK
  <2>1. RingPage(i)' = RingPage(c + i) /\ c + i \in 0 .. used - 1
    BY <1>4
  <2> DEFINE s == RingPage(c + i).slots[1]
             n == NumChunks(s.len)
  <2>2. LargeHead(RingPage(c + i))
    BY <2>1 DEF LargeHead
  <2>3. /\ Len(RingPage(c + i).slots) = 1 /\ (c + i) + n <= used
        /\ \A k \in 1 .. n - 1 : RingPage((c + i) + k) = ChunkPage(s, k)
    BY <2>1, <2>2 DEF Custody, FramesOK, Framed
  <2>4. n \in Nat
    <3>1. RingPage(c + i) \in Page
      BY <2>1, RingPageType
    <3>2. s \in Slot
      BY <2>3, <3>1 DEF Page
    <3> QED BY <3>2, NumChunksType DEF Slot
  <2>5. s = RingPage(i)'.slots[1]
    BY <2>1
  <2> HIDE DEF s, n
  <2>6. \A k \in 1 .. n - 1 : RingPage(i + k)' = ChunkPage(s, k)
    <3> SUFFICES ASSUME NEW k \in 1 .. n - 1 PROVE RingPage(i + k)' = ChunkPage(s, k)
      OBVIOUS
    <3>1. i + k \in 0 .. used' - 1 /\ c + (i + k) = (c + i) + k
      BY <1>2, <2>3, <2>4
    <3>2. RingPage(i + k)' = RingPage(c + (i + k))
      BY <1>4, <3>1
    <3> QED BY <2>3, <3>1, <3>2
  <2>7. i + n <= used'
    BY <1>2, <2>3, <2>4
  <2> QED BY <2>1, <2>3, <2>5, <2>6, <2>7 DEF Framed, n, NumChunks, ChunkPage, NoChunk
<1>12. OrderOK'
  <2> SUFFICES ASSUME NEW i \in 0 .. used' - 1, NEW k \in 0 .. used' - 1,
                      NEW j \in Idx(RingPage(i))', NEW l \in Idx(RingPage(k))',
                      i < k \/ (i = k /\ j < l)
               PROVE  RingPage(i)'.slots[j].data < RingPage(k)'.slots[l].data
    BY DEF OrderOK
  <2>1. /\ RingPage(i)' = RingPage(c + i) /\ c + i \in 0 .. used - 1
        /\ RingPage(k)' = RingPage(c + k) /\ c + k \in 0 .. used - 1
    BY <1>4
  <2>2. j \in Idx(RingPage(c + i)) /\ l \in Idx(RingPage(c + k))
    BY <2>1 DEF Idx
  <2>3. c + i < c + k \/ (c + i = c + k /\ j < l)
    BY <1>2
  <2>4. RingPage(c + i).slots[j].data < RingPage(c + k).slots[l].data
    BY <2>1, <2>2, <2>3 DEF Custody, OrderOK
  <2> QED BY <2>1, <2>4
<1>13. SnapOK'
  BY DEF SnapOK, Held
<1>14. HistWriter'
  <2>1. \A d \in Data : d > Top => history'[d] = history[d]
    <3> SUFFICES ASSUME NEW d \in Data, d > Top, history'[d] # history[d] PROVE FALSE
      OBVIOUS
    <3> QED BY <1>5, <1>8 DEF Data
  <2>2. \A j \in Idx(stage) : stage.slots[j].data > Top /\ stage.slots[j].data \in Data
    BY <1>5, StageAbove DEF Data
  <2>3. \A d \in Data : d > Done => d > Top
    BY <1>5 DEF Data
  <2>4. \A d \in Top + 1 .. Done : d \in Data /\ d > Top
    BY <1>5 DEF Data
  <2> QED BY <1>1, <2>1, <2>2, <2>3, <2>4 DEF Custody, HistWriter, Unmet, Idx
<1>15. ASSUME NEW i \in 0 .. used' - 1, NEW l \in Idx(RingPage(c + i))
       PROVE  /\ RingPage(c + i).slots[l].data \in Data
              /\ history'[RingPage(c + i).slots[l].data] = <<>>
              /\ \A d \in Data : d > RingPage(c + i).slots[l].data => Unmet(d)'
              /\ RingPage(c + i).slots[l].tid # TombstoneID
  <2> DEFINE s == RingPage(c + i).slots[l].data
  <2>1. c + i \in 1 .. used - 1 /\ c + i \in 0 .. used - 1
    BY <1>4
  <2>2. history[s] = <<>> /\ \A d \in Data : d > s => Unmet(d)
    BY <2>1 DEF Custody, HistBehind
  <2>3. Known(RingPage(c + i).slots[l])
    BY <2>1 DEF Custody, SlotsOK
  <2>4. s \in Data
    BY <1>5, <2>3 DEF Known, Data
  <2>5. \A d \in Data : history'[d] # history[d] => d < s
    BY <1>8, <2>1
  <2>6. RingPage(c + i).slots[l].tid # TombstoneID
    <3>1. c + i \in 0 .. used + InFlight - 1 /\ c + i > 0
      BY <1>2, <2>1
    <3> QED BY <3>1 DEF RingInv, FileInv, Unmarked, Idx
  <2> HIDE DEF s
  <2>7. history'[s] = history[s] /\ \A d \in Data : d > s => history'[d] = history[d]
    BY <2>4, <2>5 DEF Data
  <2> QED BY <2>2, <2>4, <2>6, <2>7 DEF s, Unmet
<1>16. HistBehind'
  <2> SUFFICES ASSUME NEW i \in 1 .. used' - 1, NEW l \in Idx(RingPage(i))'
               PROVE  /\ history'[RingPage(i)'.slots[l].data] = <<>>
                      /\ \A d \in Data : d > RingPage(i)'.slots[l].data => Unmet(d)'
    BY DEF HistBehind, Unmet
  <2>1. i \in 0 .. used' - 1 /\ RingPage(i)' = RingPage(c + i)
    BY <1>2, <1>4
  <2>2. l \in Idx(RingPage(c + i))
    BY <2>1 DEF Idx
  <2> QED BY <1>15, <2>1, <2>2
<1>17. used' > 0 => HeadView' = RingPage(c) /\ 0 \in 0 .. used' - 1 /\ c + 0 = c
  <2> SUFFICES ASSUME used' > 0 PROVE HeadView' = RingPage(c) /\ 0 \in 0 .. used' - 1 /\ c + 0 = c
    OBVIOUS
  <2>1. 0 \in 0 .. used' - 1 /\ c + 0 = c
    BY <1>2
  <2>2. RingPage(0)' = RingPage(c)
    BY <1>4, <2>1
  <2>3. RingPage(0)' = file'[rHead']
    <3>1. rHead \in Int /\ c \in Int
      BY DEF TypeInv, TypeOK
    <3>2. rHead' \in 0 .. Pages - 1
      BY <3>1, AdvanceType
    <3>3. Advance(rHead', 0) = rHead'
      BY <3>2, AdvanceZero
    <3> QED BY <3>3 DEF RingPage, Advance
  <2> QED BY <2>1, <2>2, <2>3 DEF HeadView, Held
<1>18. HistHead'
  <2> SUFFICES ASSUME used' > 0, NEW j \in Idx(HeadView)'
               PROVE  Len(history'[HeadView'.slots[j].data]) <= Slack'
    BY DEF HistHead
  <2>1. j \in Idx(RingPage(c + 0)) /\ HeadView' = RingPage(c + 0)
    BY <1>17 DEF Idx
  <2>2. history'[HeadView'.slots[j].data] = <<>>
    BY <1>15, <1>17, <2>1
  <2> QED BY <1>6, <2>2
<1>19. HistOnRing'
  <2> SUFFICES ASSUME NEW d \in 1 .. Top, history'[d] = <<>>
               PROVE  InHead(d)' \/ InBehind(d)'
    BY <1>1 DEF HistOnRing
  <2>1. d \in Data
    BY <1>5 DEF Data
  <2>2. history[d] = <<>>
    <3> SUFFICES ASSUME history[d] # <<>> PROVE FALSE
      OBVIOUS
    <3>1. Len(<<>>) = Len(history[d]) + 1 /\ Len(history[d]) \in Nat
      BY <1>7, <2>1
    <3> QED BY <3>1
  <2>3. InBehind(d)
    BY <2>2 DEF Custody, HistOnRing
  <2>4. PICK i \in 1 .. used - 1 : \E j \in Idx(RingPage(i)) : RingPage(i).slots[j].data = d
    BY <2>3 DEF InBehind
  <2>5. PICK j \in Idx(RingPage(i)) : RingPage(i).slots[j].data = d
    BY <2>4
  <2>6. i >= c
    <3> SUFFICES ASSUME i \in 1 .. c - 1 PROVE FALSE
      BY <1>2
    <3> QED BY <2>5 DEF Idx
  <2>7. i - c \in 0 .. used' - 1 /\ c + (i - c) = i
    BY <1>2, <2>6
  <2>8. RingPage(i - c)' = RingPage(i) /\ j \in Idx(RingPage(c + (i - c)))
    BY <1>4, <2>7
  <2>9. CASE i = c
    <3>1. used' > 0
      BY <1>2, <2>7
    <3>2. HeadView' = RingPage(i) /\ RingPage(i).slots[j].tid # TombstoneID
      BY <1>15, <1>17, <2>7, <2>8, <2>9, <3>1
    <3> QED BY <2>5, <3>1, <3>2 DEF InHead, Idx
  <2>10. CASE i # c
    <3>1. i - c \in 1 .. used' - 1
      BY <1>2, <2>7, <2>10
    <3>2. j \in Idx(RingPage(i - c))' /\ RingPage(i - c)'.slots[j].data = d
      BY <2>5, <2>8 DEF Idx
    <3> QED BY <3>1, <3>2 DEF InBehind
  <2> QED BY <2>9, <2>10
<1>20. Bounded'
  <2> SUFFICES ASSUME NEW d \in Data
               PROVE  /\ Len(history'[d]) <= 1 + Slack'
                      /\ d \notin 1 .. Len(written) => history'[d] = <<>>
    BY <1>1 DEF Bounded
  <2>1. Len(history[d]) <= 1 + Slack /\ (d \notin 1 .. Len(written) => history[d] = <<>>)
    BY DEF Bounded
  <2>2. Len(history[d]) \in Nat
    BY <1>7
  <2>3. CASE history'[d] = history[d]
    BY <1>6, <2>1, <2>2, <2>3
  <2>4. CASE history'[d] # history[d]
    BY <1>6, <1>8, <2>2, <2>4
  <2> QED BY <2>3, <2>4
<1> QED BY <1>1, <1>9, <1>10, <1>11, <1>12, <1>13, <1>14, <1>16, <1>18, <1>19, <1>20 DEF Custody

\* processPage has consumed every record of its page: the page is given back,
\* with the chunks of the large record it may start.
LEMMA CustodyFree ==
  ASSUME ReservedIDs, TypeInv, RingInv, Custody, Bounded, Free
  PROVE  Custody' /\ Bounded'
<1> DEFINE c == scan.chunks
<1>1. /\ spc = "free" /\ Held /\ spc' = "signal" /\ rHead' = Advance(rHead, c) /\ used' = used - c
      /\ UNCHANGED <<file, faults, history>> /\ SweeperStep
  BY DEF Free, Held
<1>2. c \in 1 .. used /\ used > 0 /\ c \in Int
  BY <1>1 DEF RingInv, SweeperInv, TypeInv, TypeOK, Scan
<1>3. CopyOK /\ ResultOK /\ HeadView = scan.page
  BY <1>1 DEF Custody, SnapOK, HeadView
<1>4. /\ RingPage(0) = file[rHead] /\ file[rHead] \in Page /\ scan.page \in Page /\ used \in Nat
      /\ \A j \in Idx(scan.page) :
           j \in Idx(file[rHead]) /\ scan.page.slots[j].len = file[rHead].slots[j].len
  BY <1>1, HeldPage
<1>5. \A i \in 1 .. c - 1 : Len(RingPage(i).slots) = 0
  <2>1. CASE ~LargeHead(scan.page)
    BY <1>3, <2>1 DEF ResultOK
  <2>2. CASE LargeHead(scan.page)
    <3>1. 1 \in Idx(scan.page)
      BY <1>4, <2>2 DEF LargeHead, Idx, Page
    <3>2. LargeHead(RingPage(0)) /\ RingPage(0).slots[1].len = scan.page.slots[1].len
      <4>1. /\ RingPage(0).cont = scan.page.cont /\ 1 \in Idx(file[rHead])
            /\ RingPage(0).slots[1].len = scan.page.slots[1].len
        BY <1>3, <1>4, <3>1 DEF CopyOK
      <4>2. RingPage(0).slots # <<>>
        BY <1>4, <4>1 DEF Idx
      <4> QED BY <2>2, <4>1, <4>2 DEF LargeHead
    <3>3. c = NumChunks(RingPage(0).slots[1].len)
      BY <1>1, <1>3, <2>2, <3>2 DEF ResultOK
    <3>4. 0 \in 0 .. used - 1
      BY <1>2, <1>4
    <3>5. \A k \in 1 .. c - 1 : RingPage(0 + k) = ChunkPage(RingPage(0).slots[1], k)
      BY <3>2, <3>3, <3>4 DEF Custody, FramesOK, Framed
    <3> SUFFICES ASSUME NEW i \in 1 .. c - 1 PROVE Len(RingPage(i).slots) = 0
      OBVIOUS
    <3>6. 0 + i = i /\ i # 0
      BY <1>2
    <3> HIDE DEF c
    <3>7. RingPage(i) = ChunkPage(RingPage(0).slots[1], i)
      BY <3>5, <3>6
    <3>8. ChunkPage(RingPage(0).slots[1], i).slots = <<>>
      BY <3>6 DEF ChunkPage
    <3> QED BY <3>7, <3>8
  <2> QED BY <2>1, <2>2
<1>6. \A d \in 1 .. Top : ~InHead(d)
  BY <1>1, <1>3 DEF InHead, ResultOK
<1> HIDE DEF c
<1> QED BY <1>1, <1>2, <1>5, <1>6, CustodyFreed

\* An unreadable page is given back: its records are reported as lost.
LEMMA CustodyReadFail ==
  ASSUME ReservedIDs, TypeInv, RingInv, Custody, Bounded, SweepReadFail
  PROVE  Custody' /\ Bounded'
<1> DEFINE o == IF LargeHead(file[rHead]) THEN "split" ELSE "unreadable"
<1>0. o \in Outcomes
  BY DEF Outcomes
<1>1. /\ spc = "top" /\ used # 0 /\ faults' = faults + 1 /\ rHead' = Advance(rHead, 1)
      /\ used' = used - 1 /\ spc' = "signal" /\ UNCHANGED file /\ SweeperStep
      /\ history' = Meet(Unconsumed(file[rHead]), o)
  BY DEF SweepReadFail, Failed
<1> HIDE DEF o
<1>2. 1 \in 1 .. used /\ used > 0
  BY <1>1 DEF RingInv
<1>3. HeadView = file[rHead]
  BY <1>1 DEF HeadView, Held
<1>4. \A d \in Data : d \in Unconsumed(file[rHead]) <=> InHead(d)
  BY <1>2, <1>3 DEF Unconsumed, InHead, Idx
<1>5. ASSUME NEW d \in Data
      PROVE  history'[d] = IF InHead(d) THEN Append(history[d], o) ELSE history[d]
  BY <1>1, <1>4 DEF Meet
<1>6. ASSUME NEW d \in Data
      PROVE  Len(Append(history[d], o)) = Len(history[d]) + 1
             /\ Append(history[d], o) # <<>>
  <2>1. history[d] \in Seq(Outcomes) /\ o \in Outcomes
    BY <1>0 DEF TypeInv, TypeOK
  <2> QED BY <2>1, AppendProperties
<1>7. \A d \in Data : history'[d] # history[d] =>
        InHead(d) /\ Len(history'[d]) = Len(history[d]) + 1
  BY <1>5, <1>6
<1>8. \A d \in 1 .. Top : d \in Data
  BY Counters DEF Data
<1>9. \A d \in 1 .. Top : history'[d] = <<>> => ~InHead(d)
  BY <1>5, <1>6, <1>8
<1>10. \A i \in 1 .. 1 - 1 : Len(RingPage(i).slots) = 0
  OBVIOUS
<1> QED BY <1>1, <1>2, <1>7, <1>9, <1>10, CustodyFreed

\* Every step of runSweeper and processPage keeps the invariant.
LEMMA CustodySweeper ==
  ASSUME ReservedIDs, TypeInv, RingInv, Custody, Bounded, Sweeper, ~ScanPayload
  PROVE  Custody' /\ Bounded'
<1> USE DEF Outcomes
<1>1. CASE ScanMatch
  <2>1. PICK o \in Outcomes : Consume(o)
    BY <1>1 DEF ScanMatch
  <2>2. /\ AtRecord /\ Rec.tid # TombstoneID /\ ScanStep /\ faults' \in {faults, faults + 1}
    BY <1>1 DEF ScanMatch, Decidable, Failed
  <2> QED BY <2>1, <2>2, CustodyConsume
<1>2. CASE AgeEvict
  <2>1. PICK o \in Outcomes : Consume(o)
    BY <1>2 DEF AgeEvict
  <2>2. /\ spc = "age" /\ Rec.tid # TombstoneID /\ ScanStep /\ faults' \in {faults, faults + 1}
    BY <1>2 DEF AgeEvict, RingInv, SweeperInv
  <2> QED BY <2>1, <2>2, CustodyConsume
<1>3. CASE SweepEmpty \/ SweepRead \/ SweepWake \/ SweepWriterDone \/ Signal
           \/ ScanEnd \/ ScanTombstone \/ ScanPartial \/ ScanUndecided \/ AgeKeep
  BY <1>3, CustodyScan
<1>4. CASE Writeback \/ Free \/ SweepReadFail
  BY <1>4, CustodyWriteback, CustodyFree, CustodyReadFail
<1> QED BY <1>1, <1>2, <1>3, <1>4 DEF Sweeper
-----------------------------------------------------------------------------
(* The writer.                                                             *)

\* One outcome is within every bound on redelivery.
LEMMA OneMore == ASSUME NEW n \in Nat PROVE 1 <= 1 + n
OBVIOUS

\* A step of the writer that announces no page.  It may drop requests that it
\* has not written, and with them the stage.
LEMMA CustodyWriterFrame ==
  ASSUME ReservedIDs, TypeInv, RingInv, Custody, Bounded, WriterStep, UNCHANGED used,
         faults' \in {faults, faults + 1},
         \A i \in 0 .. used - 1 : RingPage(i)' = RingPage(i),
         Top' \in Int, Top <= Top',
         \A d \in Data : history'[d] # history[d] =>
           /\ d > Top /\ d \in 1 .. Len(written)
           /\ history[d] = <<>> /\ history'[d] \in {<<"dropped">>, <<"unflushed">>},
         \A d \in Top + 1 .. Top' : history'[d] # <<>>
  PROVE  /\ WrittenOK' /\ SlotsOK' /\ FramesOK' /\ OrderOK' /\ SnapOK'
         /\ HistBehind' /\ HistHead' /\ HistOnRing' /\ Bounded'
<1>1. UNCHANGED <<now, written, rHead, spc, scan>>
  BY DEF WriterStep
<1>2. /\ used \in Nat /\ Top \in 0 .. Done /\ Done \in Nat /\ Len(written) \in 0 .. MaxRecs
      /\ Top <= Len(written)
  BY Counters DEF RingInv
<1>3. Slack \in Nat /\ Slack' \in Nat /\ Slack <= Slack'
  BY DEF Slack, TypeInv, TypeOK
<1>4. \A d \in Data : history[d] \in Seq(Outcomes)
  BY DEF TypeInv, TypeOK
<1>5. ASSUME NEW i \in 0 .. used - 1, NEW j \in Idx(RingPage(i))
      PROVE  /\ Known(RingPage(i).slots[j]) /\ RingPage(i).slots[j].data <= Top
             /\ RingPage(i).slots[j].data \in Data
             /\ history'[RingPage(i).slots[j].data] = history[RingPage(i).slots[j].data]
  <2>1. Known(RingPage(i).slots[j]) /\ RingPage(i).slots[j].data <= Top
    BY DEF Custody, SlotsOK
  <2>2. RingPage(i).slots[j].data \in Data /\ RingPage(i).slots[j].data \in Int
    BY <1>2, <2>1 DEF Known, Data
  <2> QED BY <1>2, <2>1, <2>2
<1>6. WrittenOK'
  BY <1>1 DEF Custody, WrittenOK
<1>7. SlotsOK'
  <2> SUFFICES ASSUME NEW i \in 0 .. used - 1, NEW j \in Idx(RingPage(i))'
               PROVE  (Known(RingPage(i).slots[j]) /\ RingPage(i).slots[j].data <= Top)'
    BY DEF SlotsOK
  <2>1. RingPage(i)' = RingPage(i)
    OBVIOUS
  <2>2. j \in Idx(RingPage(i))
    BY <2>1 DEF Idx
  <2>3. /\ Known(RingPage(i).slots[j]) /\ RingPage(i).slots[j].data <= Top
        /\ RingPage(i).slots[j].data \in Data
    BY <1>5, <2>2
  <2>4. RingPage(i).slots[j].data <= Top'
    BY <1>2, <2>3 DEF Data
  <2> QED BY <1>1, <2>1, <2>3, <2>4 DEF Known, Same
<1>8. FramesOK'
  <2> SUFFICES ASSUME NEW i \in 0 .. used - 1, LargeHead(RingPage(i))' PROVE Framed(i)'
    BY DEF FramesOK
  <2> DEFINE s == RingPage(i).slots[1]
             n == NumChunks(s.len)
  <2>1. RingPage(i)' = RingPage(i) /\ LargeHead(RingPage(i))
    BY DEF LargeHead
  <2>2. /\ Len(RingPage(i).slots) = 1 /\ i + n <= used
        /\ \A k \in 1 .. n - 1 : RingPage(i + k) = ChunkPage(s, k)
    BY <2>1 DEF Custody, FramesOK, Framed
  <2>3. n \in Nat
    <3>1. RingPage(i) \in Page
      BY RingPageType
    <3>2. s \in Slot
      BY <2>2, <3>1 DEF Page
    <3> QED BY <3>2, NumChunksType DEF Slot
  <2>4. s = RingPage(i)'.slots[1]
    BY <2>1
  <2> HIDE DEF s, n
  <2>5. \A k \in 1 .. n - 1 : RingPage(i + k)' = ChunkPage(s, k)
    <3> SUFFICES ASSUME NEW k \in 1 .. n - 1 PROVE RingPage(i + k)' = ChunkPage(s, k)
      OBVIOUS
    <3>1. i + k \in 0 .. used - 1
      BY <1>2, <2>2, <2>3
    <3> QED BY <2>2, <3>1
  <2> QED BY <2>1, <2>2, <2>4, <2>5 DEF Framed, n, NumChunks, ChunkPage, NoChunk
<1>9. OrderOK'
  <2> SUFFICES ASSUME NEW i \in 0 .. used - 1, NEW k \in 0 .. used - 1,
                      NEW j \in Idx(RingPage(i))', NEW l \in Idx(RingPage(k))',
                      i < k \/ (i = k /\ j < l)
               PROVE  RingPage(i)'.slots[j].data < RingPage(k)'.slots[l].data
    BY DEF OrderOK
  <2>1. RingPage(i)' = RingPage(i) /\ RingPage(k)' = RingPage(k)
    OBVIOUS
  <2>2. j \in Idx(RingPage(i)) /\ l \in Idx(RingPage(k))
    BY <2>1 DEF Idx
  <2> QED BY <2>1, <2>2 DEF Custody, OrderOK
<1>10. used > 0 => file'[rHead] = file[rHead] /\ 0 \in 0 .. used - 1 /\ RingPage(0) = file[rHead]
  <2> SUFFICES ASSUME used > 0
               PROVE  /\ file'[rHead] = file[rHead] /\ 0 \in 0 .. used - 1
                      /\ RingPage(0) = file[rHead]
    OBVIOUS
  <2>1. 0 \in 0 .. used - 1 /\ RingPage(0) = file[rHead] /\ RingPage(0)' = RingPage(0)
    BY <1>2, HeadPage
  <2>2. RingPage(0)' = file'[rHead]
    BY <1>1, AdvanceZero DEF RingPage, Advance, TypeInv, TypeOK
  <2> QED BY <2>1, <2>2
<1>11. SnapOK'
  <2> SUFFICES ASSUME Held PROVE CopyOK' /\ ResultOK'
    BY <1>1 DEF SnapOK, Held
  <2>1. used > 0 /\ CopyOK /\ ResultOK
    BY <1>2 DEF Held, RingInv, SweeperInv, Custody, SnapOK, TypeInv, TypeOK, Scan
  <2> QED BY <1>1, <1>10, <2>1 DEF CopyOK, ResultOK, Same, Idx, LargeHead
<1>12. used > 0 => HeadView' = HeadView
  BY <1>1, <1>10 DEF HeadView, Held
<1>13. HistBehind'
  <2> SUFFICES ASSUME NEW i \in 1 .. used - 1, NEW j \in Idx(RingPage(i))'
               PROVE  /\ history'[RingPage(i)'.slots[j].data] = <<>>
                      /\ \A d \in Data : d > RingPage(i)'.slots[j].data => Unmet(d)'
    BY DEF HistBehind, Unmet
  <2>1. i \in 0 .. used - 1 /\ RingPage(i)' = RingPage(i)
    BY <1>2
  <2>2. j \in Idx(RingPage(i))
    BY <2>1 DEF Idx
  <2>3. /\ history[RingPage(i).slots[j].data] = <<>>
        /\ \A d \in Data : d > RingPage(i).slots[j].data => Unmet(d)
    BY <2>2 DEF Custody, HistBehind
  <2>4. history'[RingPage(i).slots[j].data] = <<>>
    BY <1>5, <2>1, <2>2, <2>3
  <2> QED BY <2>1, <2>3, <2>4 DEF Unmet
<1>14. HistHead'
  <2> SUFFICES ASSUME used > 0, NEW j \in Idx(HeadView), HeadView.slots[j].tid # TombstoneID
               PROVE  Len(history'[HeadView.slots[j].data]) <= Slack'
    BY <1>12 DEF HistHead, Idx
  <2> DEFINE d == HeadView.slots[j].data
  <2>1. Len(history[d]) <= Slack
    BY DEF Custody, HistHead
  <2>2. d \in 1 .. Len(written) /\ d <= Top
    BY HeadRecords
  <2>3. d \in Data /\ d \in Int
    BY <1>2, <2>2 DEF Data
  <2> HIDE DEF d
  <2>4. history'[d] = history[d] /\ Len(history[d]) \in Nat
    BY <1>2, <1>4, <2>2, <2>3
  <2> QED BY <1>3, <2>1, <2>4 DEF d
<1>15. HistOnRing'
  <2> SUFFICES ASSUME NEW d \in 1 .. Top', history'[d] = <<>>
               PROVE  InHead(d)' \/ InBehind(d)'
    BY DEF HistOnRing
  <2>1. d \in 1 .. Top
    BY <1>2
  <2>2. d \in Data /\ history[d] = <<>>
    BY <1>2, <2>1 DEF Data
  <2>3. CASE InHead(d)
    BY <1>12, <2>3 DEF InHead, Idx
  <2>4. CASE InBehind(d)
    <3>1. PICK i \in 1 .. used - 1 : \E j \in Idx(RingPage(i)) : RingPage(i).slots[j].data = d
      BY <2>4 DEF InBehind
    <3>2. i \in 0 .. used - 1
      BY <1>2
    <3>3. RingPage(i)' = RingPage(i)
      BY <3>2
    <3> QED BY <3>1, <3>3 DEF InBehind, Idx
  <2> QED BY <2>1, <2>2, <2>3, <2>4 DEF Custody, HistOnRing
<1>16. Bounded'
  <2> SUFFICES ASSUME NEW d \in Data
               PROVE  /\ Len(history'[d]) <= 1 + Slack'
                      /\ d \notin 1 .. Len(written) => history'[d] = <<>>
    BY <1>1 DEF Bounded
  <2>1. Len(history[d]) <= 1 + Slack /\ (d \notin 1 .. Len(written) => history[d] = <<>>)
    BY DEF Bounded
  <2>2. Len(history[d]) \in Nat /\ Len(<<"dropped">>) = 1
    BY <1>4
  <2>3. CASE history'[d] = history[d]
    BY <1>3, <2>1, <2>2, <2>3
  <2>4. CASE history'[d] # history[d]
    <3>1. history'[d] \in {<<"dropped">>, <<"unflushed">>} /\ d \in 1 .. Len(written)
      BY <2>4
    <3>2. Len(history'[d]) = 1
      BY <3>1
    <3>3. 1 <= 1 + Slack'
      BY <1>3, OneMore
    <3> QED BY <3>1, <3>2, <3>3
  <2> QED BY <2>3, <2>4
<1> QED BY <1>6, <1>7, <1>8, <1>9, <1>11, <1>13, <1>14, <1>15, <1>16

\* A step of the writer that leaves the stage and the outcomes alone.
LEMMA CustodyWriterIdle ==
  ASSUME ReservedIDs, TypeInv, RingInv, Custody, Bounded, WriterStep,
         UNCHANGED <<used, stage, stageN, history>>, faults' \in {faults, faults + 1},
         \A i \in 0 .. used - 1 : RingPage(i)' = RingPage(i),
         Done' = Done, QueueOK', HandOK', InFlightOK'
  PROVE  Custody' /\ Bounded'
<1>1. Top' = Top /\ written' = written
  BY DEF Top, WriterStep
<1>2. Top \in Int
  BY Counters
<1>3. /\ WrittenOK' /\ SlotsOK' /\ FramesOK' /\ OrderOK' /\ SnapOK'
      /\ HistBehind' /\ HistHead' /\ HistOnRing' /\ Bounded'
  BY <1>1, <1>2, CustodyWriterFrame
<1>4. StageOK'
  BY <1>1 DEF Custody, StageOK, Idx
<1>5. HistWriter'
  BY <1>1 DEF Custody, HistWriter, Unmet, Idx
<1> QED BY <1>3, <1>4, <1>5 DEF Custody

\* The next request after those handle is done with.
LEMMA NextRecord ==
  ASSUME TypeInv, Custody, NEW r, NEW n \in Nat, n = Done + 1, n <= Len(written), r = written[n]
  PROVE  r \in Slot /\ r.data = n /\ n \in Data /\ r.tid \in TraceIDs
<1>1. Done \in Nat /\ Len(written) \in 0 .. MaxRecs
  BY Counters
<1>2. n \in 1 .. Len(written)
  BY <1>1
<1>3. r \in Slot
  BY <1>2, WrittenSlot
<1> QED BY <1>1, <1>2, <1>3 DEF Custody, WrittenOK, Data

\* handle puts the next request into the stage.
LEMMA CustodyStash ==
  ASSUME ReservedIDs, TypeInv, RingInv, Custody, Bounded, WriterStep,
         NEW r, Done + 1 <= Len(written), r = written[Done + 1], ~IsLarge(r.len),
         Stash(r, stageN, stage), wpc' # "panic",
         UNCHANGED <<used, file, history, chunksOut>>, faults' \in {faults, faults + 1},
         Done' = Done + 1, chunksOut = 0, wreq' = NoReq, QueueOK'
  PROVE  Custody' /\ Bounded'
<1>1. /\ wpc' = "select" /\ stage' = [stage EXCEPT !.slots = Append(stage.slots, r)]
      /\ stageN' = stageN + RecSize(r.len) /\ written' = written /\ rHead' = rHead
  BY DEF Stash, WriterStep, TypeInv, TypeOK, Page
<1>2. /\ Top \in 0 .. Done /\ Done \in Nat /\ Len(written) \in 0 .. MaxRecs
      /\ stage \in Page /\ stage.slots \in Seq(Slot) /\ Len(stage.slots) \in Nat /\ stageN \in Nat
  BY Counters DEF TypeInv, TypeOK, Page
<1> DEFINE n == Done + 1
<1>3. n \in Nat /\ n <= Len(written) /\ r = written[n] /\ n = Done + 1 /\ n > Done
  BY <1>2
<1>4. r \in Slot /\ r.data = n /\ n \in Data /\ r.tid \in TraceIDs
  <2> HIDE DEF n
  <2> QED BY <1>3, NextRecord
<1> HIDE DEF n
<1>5. stageN' \in Nat /\ stageN' # 0
  <2>1. RecSize(r.len) \in Nat /\ RecSize(r.len) > 0
    BY <1>4 DEF RecSize, Slot
  <2>2. stageN' = stageN + RecSize(r.len) /\ stageN \in Nat
    BY <1>1, <1>2
  <2> QED BY ONLY <2>1, <2>2
<1>6. /\ stage'.cont = stage.cont /\ Len(stage'.slots) = Len(stage.slots) + 1
      /\ stage'.slots[Len(stage.slots) + 1] = r
      /\ \A j \in Idx(stage) : stage'.slots[j] = stage.slots[j]
  <2>1. stage'.cont = stage.cont /\ stage'.slots = Append(stage.slots, r)
    BY <1>1, <1>2 DEF Page
  <2> QED BY <1>2, <1>4, <2>1, AppendProperties DEF Idx
<1>7. \A j \in Idx(stage)' : j \in Idx(stage) \/ j = Len(stage.slots) + 1
  BY <1>2, <1>6 DEF Idx
<1>8. Top' = Top
  <2>1. CASE Len(stage.slots) = 0
    <3>1. Top = Done /\ Len(stage'.slots) # 0 /\ stage'.slots[1] = r
      BY <1>6, <2>1 DEF Top
    <3> QED BY <1>2, <1>3, <1>4, <3>1 DEF Top
  <2>2. CASE Len(stage.slots) # 0
    <3>1. 1 \in Idx(stage)
      BY <1>2, <2>2 DEF Idx
    <3> QED BY <1>2, <1>6, <2>2, <3>1 DEF Top
  <2> QED BY <2>1, <2>2
<1>9. \A i \in 0 .. used - 1 : RingPage(i)' = RingPage(i)
  BY <1>1 DEF RingPage, Advance
<1>10. /\ WrittenOK' /\ SlotsOK' /\ FramesOK' /\ OrderOK' /\ SnapOK'
       /\ HistBehind' /\ HistHead' /\ HistOnRing' /\ Bounded'
  BY <1>2, <1>8, <1>9, CustodyWriterFrame
<1>11. HandOK' /\ InFlightOK'
  BY <1>1 DEF HandOK, InFlightOK
<1>12. ASSUME NEW j \in Idx(stage) PROVE stage.slots[j].data \in 1 .. Done
  BY DEF Custody, StageOK
<1>13. StageOK'
  <2>1. stageN' = 0 <=> Len(stage'.slots) = 0
    BY <1>2, <1>5, <1>6
  <2>2. stage'.cont = NoChunk
    BY <1>6 DEF Custody, StageOK
  <2>3. ASSUME NEW j \in Idx(stage)'
        PROVE  /\ stage'.slots[j].data \in 1 .. Done'
               /\ stage'.slots[j] = written'[stage'.slots[j].data]
               /\ ~IsLarge(stage'.slots[j].len)
    <3>1. CASE j \in Idx(stage)
      <4>1. /\ stage.slots[j].data \in 1 .. Done
            /\ stage.slots[j] = written[stage.slots[j].data]
            /\ ~IsLarge(stage.slots[j].len)
        BY <3>1 DEF Custody, StageOK
      <4>2. stage'.slots[j] = stage.slots[j]
        BY <1>6, <3>1
      <4>3. stage.slots[j].data \in 1 .. Done'
        BY <1>2, <4>1
      <4> QED BY <1>1, <4>1, <4>2, <4>3
    <3>2. CASE j = Len(stage.slots) + 1
      <4>1. stage'.slots[j] = r
        BY <1>6, <3>2
      <4>2. n \in 1 .. Done'
        BY <1>2, <1>3
      <4> QED BY <1>1, <1>3, <1>4, <4>1, <4>2
    <3> QED BY <1>7, <3>1, <3>2
  <2>4. ASSUME NEW j \in Idx(stage)', NEW k \in Idx(stage)', j < k
        PROVE  stage'.slots[j].data < stage'.slots[k].data
    <3>1. j \in Idx(stage) /\ j \in Int /\ k \in Int
      BY <1>2, <1>6, <2>4 DEF Idx
    <3>2. CASE k \in Idx(stage)
      BY <1>6, <2>4, <3>1, <3>2 DEF Custody, StageOK
    <3>3. CASE k = Len(stage.slots) + 1
      <4>1. stage'.slots[k] = r /\ stage'.slots[j] = stage.slots[j]
        BY <1>6, <3>1, <3>3
      <4>2. stage.slots[j].data \in 1 .. Done
        BY <1>12, <3>1
      <4> QED BY <1>2, <1>3, <1>4, <4>1, <4>2
    <3> QED BY <1>7, <3>2, <3>3
  <2> QED BY <2>1, <2>2, <2>3, <2>4 DEF StageOK, IsLarge, RecSize
<1>14. HistWriter'
  <2>1. \A d \in Data : d > Done => history[d] = <<>>
    BY DEF Custody, HistWriter
  <2>2. \A d \in Data : d > Done' => history[d] = <<>>
    BY <1>2, <2>1 DEF Data
  <2>3. \A d \in Data : d > Top => Unmet(d)
    BY DEF Custody, HistWriter
  <2>4. ASSUME NEW j \in Idx(stage)' PROVE history[stage'.slots[j].data] = <<>>
    <3>1. CASE j \in Idx(stage)
      BY <1>6, <3>1 DEF Custody, HistWriter
    <3>2. CASE j = Len(stage.slots) + 1
      BY <1>3, <1>4, <1>6, <2>1, <3>2
    <3> QED BY <1>7, <3>1, <3>2
  <2>5. ASSUME NEW d \in Top + 1 .. Done', history[d] = <<>>
        PROVE  \E j \in Idx(stage)' : stage'.slots[j].data = d
    <3>1. CASE d = n
      <4>1. Len(stage.slots) + 1 \in Idx(stage)'
        BY <1>2, <1>6 DEF Idx
      <4> QED BY <1>4, <1>6, <3>1, <4>1
    <3>2. CASE d # n
      <4>1. d \in Top + 1 .. Done
        BY <1>2, <1>3, <3>2
      <4>2. PICK j \in Idx(stage) : stage.slots[j].data = d
        BY <2>5, <4>1 DEF Custody, HistWriter
      <4>3. j \in Idx(stage)'
        BY <1>2, <1>6 DEF Idx
      <4> QED BY <1>6, <4>2, <4>3
    <3> QED BY <3>1, <3>2
  <2> QED BY <1>8, <2>2, <2>3, <2>4, <2>5 DEF HistWriter, Unmet
<1> QED BY <1>10, <1>11, <1>13, <1>14 DEF Custody

\* handle takes a request from the channel.
LEMMA CustodyRecv ==
  ASSUME ReservedIDs, TypeInv, RingInv, Custody, Bounded, WriterRecv, wpc' # "panic"
  PROVE  Custody' /\ Bounded'
<1> DEFINE r == Head(writeCh)
<1>1. /\ wpc = "select" /\ writeCh # <<>> /\ writeCh' = Tail(writeCh) /\ WriterStep
      /\ UNCHANGED <<used, file, chunksOut, faults, history>>
      /\ \/ ~IsLarge(r.len) /\ Stash(r, stageN, stage) /\ UNCHANGED wreq
         \/ wpc' = "flush" /\ wreq' = r /\ UNCHANGED stageVars
         \/ wpc' = "large" /\ wreq' = r /\ IsLarge(r.len) /\ UNCHANGED stageVars
  BY DEF WriterRecv
<1>2. /\ written' = written /\ rHead' = rHead
      /\ wreq = NoReq /\ chunksOut = 0 /\ ~Published
  BY <1>1 DEF WriterStep, Custody, HandOK, Published, RingInv, WriterInv, TypeInv, TypeOK
<1>3. /\ Received \in Nat /\ Received + Len(writeCh) = Len(written) /\ Len(writeCh) \in Nat
      /\ Len(written) \in Nat /\ Done = Received
  BY <1>2, Counters
<1>4. writeCh \in Seq(Slot)
  BY DEF TypeInv, TypeOK
<1>5. /\ Len(writeCh') = Len(writeCh) - 1 /\ Len(writeCh) >= 1
      /\ \A i \in 1 .. Len(writeCh') : writeCh'[i] = writeCh[i + 1]
      /\ r = writeCh[1] /\ r \in Slot
  BY <1>1, <1>4
<1> HIDE DEF r
<1>6. Received' = Received + 1 /\ Received + 1 <= Len(written)
  BY <1>2, <1>3, <1>5 DEF Received
<1>7. r = written[Received + 1]
  BY <1>3, <1>5 DEF Custody, QueueOK
<1>8. r # NoReq
  <2>1. r.tid \in TraceIDs
    <3>1. Received + 1 \in 1 .. Len(written)
      BY <1>3, <1>6
    <3> QED BY <1>7, <3>1 DEF Custody, WrittenOK
  <2> QED BY <2>1 DEF NoReq, ReservedIDs
<1>9. QueueOK'
  <2>1. Len(writeCh') <= Len(written')
    BY <1>2, <1>3, <1>5
  <2>2. ASSUME NEW i \in 1 .. Len(writeCh') PROVE writeCh'[i] = written'[Received' + i]
    <3>1. i + 1 \in 1 .. Len(writeCh) /\ Received + (i + 1) = Received' + i
      BY <1>3, <1>5, <1>6
    <3> QED BY <1>2, <1>5, <3>1 DEF Custody, QueueOK
  <2> QED BY <2>1, <2>2 DEF QueueOK
<1>10. CASE ~IsLarge(r.len) /\ Stash(r, stageN, stage) /\ UNCHANGED wreq
  <2>1. wpc' = "select"
    BY <1>10 DEF Stash
  <2>2. Done' = Done + 1 /\ wreq' = NoReq
    BY <1>2, <1>3, <1>6, <1>10 DEF Done
  <2> QED BY <1>1, <1>2, <1>3, <1>6, <1>7, <1>9, <1>10, <2>2, CustodyStash
<1>11. CASE wpc' \in {"flush", "large"} /\ wreq' = r /\ UNCHANGED stageVars
            /\ (wpc' = "large" => IsLarge(r.len))
  <2>1. Done' = Done
    BY <1>3, <1>6, <1>8, <1>11 DEF Done, Published
  <2>2. HandOK'
    BY <1>1, <1>2, <1>3, <1>6, <1>7, <1>8, <1>11 DEF HandOK
  <2>3. InFlightOK'
    BY <1>1, <1>2, <1>11 DEF InFlightOK
  <2>4. \A i \in 0 .. used - 1 : RingPage(i)' = RingPage(i)
    BY <1>1, <1>2 DEF RingPage, Advance
  <2> QED BY <1>1, <1>9, <1>11, <2>1, <2>2, <2>3, <2>4, CustodyWriterIdle
<1> QED BY <1>1, <1>10, <1>11 DEF r

\* Steps that only move the writer.
LEMMA CustodyWriterMoves ==
  ASSUME ReservedIDs, TypeInv, RingInv, Custody, Bounded,
         WriterTick \/ WriterClose \/ WriterFull \/ WriterFreed
  PROVE  Custody' /\ Bounded'
<1>1. /\ WriterStep /\ wpc \in {"select", "flush", "large", "flushWait", "largeWait"}
      /\ chunksOut = 0
      /\ UNCHANGED <<writeCh, used, file, wreq, chunksOut, stage, stageN, faults, history>>
      /\ wpc = "select" => wpc' \in {"select", "flush", "done"}
      /\ wpc \in {"flush", "flushWait"} => wpc' \in {"flush", "flushWait"}
      /\ wpc \in {"large", "largeWait"} => wpc' \in {"large", "largeWait"}
  BY DEF WriterTick, WriterClose, WriterFull, WriterFreed, RingInv, WriterInv, TypeInv, TypeOK
<1>2. written' = written /\ rHead' = rHead
  BY <1>1 DEF WriterStep
<1>3. Received' = Received /\ Done' = Done
  BY <1>1, <1>2 DEF Received, Done, Published
<1>4. QueueOK'
  BY <1>1, <1>2, <1>3 DEF Custody, QueueOK
<1>5. HandOK'
  BY <1>1, <1>2, <1>3 DEF Custody, HandOK
<1>6. InFlightOK'
  BY <1>1 DEF InFlightOK
<1>7. \A i \in 0 .. used - 1 : RingPage(i)' = RingPage(i)
  BY <1>1, <1>2 DEF RingPage, Advance
<1> QED BY <1>1, <1>3, <1>4, <1>5, <1>6, <1>7, CustodyWriterIdle

\* What handle does after a flush that failed, or that has been announced.
LEMMA CustodyAfterFlush ==
  ASSUME ReservedIDs, TypeInv, RingInv, Custody, Bounded, WriterStep,
         wpc \in {"flush", "wake"}, chunksOut = 0, AfterFlush(stageN, stage), wpc' # "panic",
         UNCHANGED <<writeCh, used, file, chunksOut, history>>, faults' \in {faults, faults + 1}
  PROVE  Custody' /\ Bounded'
<1>1. written' = written /\ rHead' = rHead
  BY DEF WriterStep
<1>2. Received' = Received /\ ~Published /\ Received \in Nat /\ Received <= Len(written)
      /\ Done \in Nat
  BY <1>1, Counters DEF Received, Published
<1>3. QueueOK'
  BY <1>1, <1>2 DEF Custody, QueueOK
<1>4. CASE wreq # NoReq /\ ~IsLarge(wreq.len)
  <2>1. Stash(wreq, stageN, stage) /\ wreq' = NoReq
    BY <1>4 DEF AfterFlush
  <2>2. Done + 1 = Received
    BY <1>2, <1>4, Counters
  <2>3. wreq = written[Done + 1]
    BY <1>4, <2>2 DEF Custody, HandOK
  <2>4. Done' = Done + 1
    BY <1>2, <2>1, <2>2 DEF Done
  <2> QED BY <1>2, <1>3, <1>4, <2>1, <2>2, <2>3, <2>4, CustodyStash
<1>5. CASE ~(wreq # NoReq /\ ~IsLarge(wreq.len))
  <2>1. /\ UNCHANGED <<stage, stageN, wreq>>
        /\ wpc' \in (IF wreq = NoReq THEN {"select", "done"} ELSE {"large"})
    BY <1>5 DEF AfterFlush, Over
  <2>2. Done' = Done
    BY <1>2, <2>1 DEF Done, Published
  <2>3. HandOK'
    BY <1>1, <1>2, <1>5, <2>1 DEF Custody, HandOK
  <2>4. InFlightOK'
    BY <2>1 DEF InFlightOK
  <2>5. \A i \in 0 .. used - 1 : RingPage(i)' = RingPage(i)
    BY <1>1 DEF RingPage, Advance
  <2> QED BY <1>3, <2>1, <2>2, <2>3, <2>4, <2>5, CustodyWriterIdle
<1> QED BY <1>4, <1>5

\* A stage without bytes is the empty page.
LEMMA EmptyStage == TypeInv /\ StageOK /\ stageN = 0 => stage = EmptyPage
<1> SUFFICES ASSUME TypeInv, StageOK, stageN = 0 PROVE stage = EmptyPage
  OBVIOUS
<1>1. stage \in Page /\ Len(stage.slots) = 0 /\ stage.cont = NoChunk
  BY DEF TypeInv, TypeOK, StageOK
<1>2. stage.slots = <<>>
  BY <1>1, EmptySeq DEF Page
<1> QED BY <1>1, <1>2 DEF Page, EmptyPage

\* The writer gives up the request in hand, and with it the stage or not.
LEMMA CustodyDrops ==
  ASSUME ReservedIDs, TypeInv, RingInv, Custody, Bounded, WriterStep,
         NEW o \in {"dropped", "unflushed"}, NEW all \in BOOLEAN,
         wpc \in {"flush", "flushWait", "largeWait"}, wpc' \in {"select", "done"},
         UNCHANGED <<writeCh, used, file, chunksOut>>, faults' \in {faults, faults + 1},
         history' = Meet((IF all THEN Staged ELSE {})
                           \union (IF wreq = NoReq THEN {} ELSE {wreq.data}), o),
         wreq' = NoReq, all => stageN' = 0 /\ stage' = EmptyPage,
         ~all => UNCHANGED <<stage, stageN>>
  PROVE  Custody' /\ Bounded'
<1> DEFINE lost == (IF all THEN Staged ELSE {})
                     \union (IF wreq = NoReq THEN {} ELSE {wreq.data})
           keep == ~all /\ stageN # 0
<1>1. /\ wpc \in {"flush", "flushWait", "largeWait"} /\ WriterStep
      /\ UNCHANGED <<writeCh, used, file, chunksOut>> /\ faults' \in {faults, faults + 1}
      /\ history' = Meet(lost, o) /\ wreq' = NoReq /\ wpc' \in {"select", "done"}
      /\ all => stageN' = 0 /\ stage' = EmptyPage
      /\ ~all => UNCHANGED <<stage, stageN>>
      /\ written' = written /\ rHead' = rHead
  BY DEF WriterStep
<1>2. /\ Received \in 0 .. Len(written) /\ Done \in 0 .. Received /\ Top \in 0 .. Done
      /\ wreq # NoReq => Done + 1 = Received
      /\ wreq = NoReq => Done = Received
      /\ Len(written) \in 0 .. MaxRecs /\ Received' = Received /\ Done' = Received
  BY <1>1, Counters DEF Published, Received, Done
<1>3. chunksOut = 0
  BY <1>1 DEF RingInv, WriterInv, TypeInv, TypeOK
<1>4. wreq # NoReq => wreq.data = Received /\ Received \in 1 .. Len(written)
  BY <1>2 DEF Custody, HandOK, WrittenOK
<1>5. QueueOK' /\ HandOK' /\ InFlightOK'
  BY SMTT(30), <1>1, <1>2, <1>3 DEF Custody, QueueOK, HandOK, InFlightOK
<1>6. Staged = {stage.slots[j].data : j \in Idx(stage)}
  BY DEF Staged, Custody, StageOK, Idx, TypeInv, TypeOK, Page
<1>7. ASSUME NEW j \in Idx(stage)
      PROVE  /\ stage.slots[j].data \in 1 .. Done /\ stage.slots[j].data > Top
             /\ history[stage.slots[j].data] = <<>>
  BY StageAbove DEF Custody, HistWriter
<1>8. ASSUME NEW d \in lost
      PROVE  d \in Data /\ d > Top /\ d \in 1 .. Len(written) /\ history[d] = <<>>
  <2>1. CASE wreq # NoReq /\ d = wreq.data
    <3>1. d \in Data /\ d > Done /\ d > Top /\ d \in 1 .. Len(written)
      BY <1>2, <1>4, <2>1 DEF Data
    <3> QED BY <3>1 DEF Custody, HistWriter
  <2>2. CASE d \in Staged
    <3>1. d \in 1 .. Done /\ d > Top /\ history[d] = <<>>
      BY <1>6, <1>7, <2>2
    <3> QED BY <1>2, <3>1 DEF Data
  <2> QED BY <1>8, <2>1, <2>2
<1>9. \A d \in Data : history'[d] = IF d \in lost THEN <<o>> ELSE history[d]
  <2> HIDE DEF lost
  <2>1. \A d \in lost : Append(history[d], o) = <<o>>
    <3>1. \A d \in lost : history[d] = <<>>
      BY <1>8
    <3>2. Append(<<>>, o) = <<o>>
      OBVIOUS
    <3> QED BY <3>1, <3>2
  <2> QED BY <1>1, <2>1 DEF Meet
<1>10. Top' = IF keep THEN Top ELSE Received
  <2>1. stageN # 0 <=> Len(stage.slots) # 0
    BY DEF Custody, StageOK
  <2> QED BY <1>1, <1>2, <2>1 DEF Top, EmptyPage
<1>11. ASSUME NEW d \in Top + 1 .. Received, history'[d] = <<>>
       PROVE  keep /\ \E j \in Idx(stage) : stage.slots[j].data = d
  <2>1. d \in Data /\ history[d] = <<>> /\ d \notin lost
    <3>1. d \in Data
      BY <1>2 DEF Data
    <3>2. <<o>> # <<>>
      OBVIOUS
    <3> HIDE DEF lost
    <3> QED BY <1>9, <1>11, <3>1, <3>2
  <2>2. d \in Top + 1 .. Done
    BY <1>2, <1>4, <2>1
  <2>3. PICK j \in Idx(stage) : stage.slots[j].data = d
    BY <2>1, <2>2 DEF Custody, HistWriter
  <2>4. d \in Staged /\ Len(stage.slots) # 0
    BY <1>6, <2>3 DEF Idx, TypeInv, TypeOK, Page
  <2>5. stageN # 0
    BY <2>4 DEF Custody, StageOK
  <2> QED BY <2>1, <2>3, <2>4, <2>5
<1> HIDE DEF lost, keep
<1>12. /\ WrittenOK' /\ SlotsOK' /\ FramesOK' /\ OrderOK' /\ SnapOK'
       /\ HistBehind' /\ HistHead' /\ HistOnRing' /\ Bounded'
  <2>1. \A i \in 0 .. used - 1 : RingPage(i)' = RingPage(i)
    BY <1>1 DEF RingPage, Advance
  <2>2. Top' \in Int /\ Top <= Top'
    BY <1>2, <1>10
  <2>3. \A d \in Data : history'[d] # history[d] =>
          /\ d > Top /\ d \in 1 .. Len(written)
          /\ history[d] = <<>> /\ history'[d] \in {<<"dropped">>, <<"unflushed">>}
    BY <1>8, <1>9
  <2>4. \A d \in Top + 1 .. Top' : history'[d] # <<>>
    <3> SUFFICES ASSUME NEW d \in Top + 1 .. Top', history'[d] = <<>> PROVE FALSE
      OBVIOUS
    <3>1. ~keep /\ d \in Top + 1 .. Received
      BY <1>2, <1>10
    <3> QED BY <1>11, <3>1
  <2> QED BY <1>1, <2>1, <2>2, <2>3, <2>4, CustodyWriterFrame
<1>13. CASE keep
  <2>1. UNCHANGED <<stage, stageN>> /\ Top' = Top /\ ~all
    BY <1>1, <1>10, <1>13 DEF keep
  <2>2. StageOK'
    <3>1. ASSUME NEW j \in Idx(stage)
          PROVE  /\ stage.slots[j].data \in 1 .. Done'
                 /\ stage.slots[j] = written[stage.slots[j].data]
                 /\ ~IsLarge(stage.slots[j].len)
      <4>1. stage.slots[j].data \in 1 .. Done
        BY <1>7
      <4>2. stage.slots[j].data \in 1 .. Done'
        BY <1>2, <4>1
      <4> QED BY <4>2 DEF Custody, StageOK
    <3> QED BY <1>1, <2>1, <3>1 DEF Custody, StageOK, Idx
  <2>3. HistWriter'
    <3>1. \A d \in Data : d > Done' => history'[d] = <<>>
      <4> SUFFICES ASSUME NEW d \in Data, d > Done' PROVE history'[d] = <<>>
        OBVIOUS
      <4>1. d > Done /\ d \notin lost
        BY <1>2, <1>4, <1>6, <1>7, <2>1 DEF lost, Data
      <4> QED BY <1>9, <4>1 DEF Custody, HistWriter
    <3>2. \A d \in Data : d > Top => Unmet(d)'
      <4> SUFFICES ASSUME NEW d \in Data, d > Top PROVE Unmet(d)'
        OBVIOUS
      <4>1. Unmet(d)
        BY DEF Custody, HistWriter
      <4> QED BY <1>9, <4>1 DEF Unmet
    <3>3. ASSUME NEW j \in Idx(stage) PROVE history'[stage.slots[j].data] = <<>>
      <4>1. /\ stage.slots[j].data \in Data /\ stage.slots[j].data \notin lost
            /\ history[stage.slots[j].data] = <<>>
        BY <1>2, <1>4, <1>7, <2>1 DEF lost, Data
      <4> QED BY <1>9, <4>1
    <3>4. \A d \in Top + 1 .. Received : history'[d] = <<>> =>
            \E j \in Idx(stage) : stage.slots[j].data = d
      BY <1>11
    <3> QED BY <1>2, <2>1, <3>1, <3>2, <3>3, <3>4 DEF HistWriter, Unmet, Idx
  <2> QED BY <1>5, <1>12, <2>2, <2>3 DEF Custody
<1>14. CASE ~keep
  <2>1. stageN' = 0 /\ stage' = EmptyPage /\ Top' = Received
    BY <1>1, <1>10, <1>14, EmptyStage DEF keep, Custody
  <2>2. StageOK'
    BY <2>1 DEF StageOK, Idx, EmptyPage
  <2>3. \A d \in Data : d > Received => history'[d] = <<>>
    <3> SUFFICES ASSUME NEW d \in Data, d > Received PROVE history'[d] = <<>>
      OBVIOUS
    <3>1. d > Done /\ d \notin lost
      BY <1>2, <1>4, <1>6, <1>7 DEF lost, Data
    <3> QED BY <1>9, <3>1 DEF Custody, HistWriter
  <2>4. Idx(stage)' = {} /\ Top' + 1 .. Done' = {}
    BY <1>2, <2>1 DEF Idx, EmptyPage
  <2>5. HistWriter'
    BY <1>2, <2>1, <2>3, <2>4 DEF HistWriter, Unmet
  <2> QED BY <1>5, <1>12, <2>2, <2>5 DEF Custody
<1> QED BY <1>13, <1>14

\* closeCh is closed while handle or flush waits for pages: what it holds is
\* dropped.
LEMMA CustodyGivesUp ==
  ASSUME ReservedIDs, TypeInv, RingInv, Custody, Bounded, WriterGivesUp
  PROVE  Custody' /\ Bounded'
<1> DEFINE all == wpc = "flushWait"
<1>1. /\ all \in BOOLEAN /\ WriterStep
      /\ wpc \in {"flush", "flushWait", "largeWait"} /\ wpc' \in {"select", "done"}
      /\ UNCHANGED <<writeCh, used, file, chunksOut>> /\ faults' \in {faults, faults + 1}
      /\ history' = Meet((IF all THEN Staged ELSE {})
                           \union (IF wreq = NoReq THEN {} ELSE {wreq.data}), "dropped")
      /\ wreq' = NoReq /\ (all => stageN' = 0 /\ stage' = EmptyPage)
      /\ ~all => UNCHANGED <<stage, stageN>>
  BY DEF WriterGivesUp, Over
<1> HIDE DEF all
<1> QED BY <1>1, CustodyDrops

\* The staged page is written, or it stays where it is, or it goes with the writer.
LEMMA CustodyFlush ==
  ASSUME ReservedIDs, TypeInv, RingInv, Custody, Bounded, FlushWrite, wpc' # "panic"
  PROVE  Custody' /\ Bounded'
<1>1. /\ wpc = "flush" /\ WriterStep /\ UNCHANGED <<writeCh, used, chunksOut>>
      /\ used + 1 <= Pages /\ chunksOut = 0
  BY DEF FlushWrite, RingInv, WriterInv, TypeInv, TypeOK
<1>2. CASE AfterFlush(stageN, stage) /\ UNCHANGED <<file, history>> /\ Failed
  BY <1>1, <1>2, CustodyAfterFlush DEF Failed
<1>4. CASE /\ wreq = NoReq /\ draining /\ AfterFlush(0, EmptyPage) /\ UNCHANGED file /\ Failed
           /\ history' = Meet(Staged, "unflushed")
  <2>1. /\ wreq' = NoReq /\ wpc' = "done" /\ stageN' = 0 /\ stage' = EmptyPage
        /\ faults' = faults + 1
    BY <1>4 DEF AfterFlush, Over, Failed
  <2>2. history' = Meet((IF TRUE THEN Staged ELSE {})
                          \union (IF wreq = NoReq THEN {} ELSE {wreq.data}), "unflushed")
    <3>1. (IF TRUE THEN Staged ELSE {}) \union (IF wreq = NoReq THEN {} ELSE {wreq.data}) = Staged
      BY <1>4
    <3> QED BY <1>4, <3>1
  <2> QED BY <1>1, <1>4, <2>1, <2>2, CustodyDrops
<1>3. CASE /\ file' = [file EXCEPT ![wHead] = stage] /\ wpc' = "publish"
           /\ UNCHANGED <<stage, stageN, wreq, faults, history>>
  <2>1. InFlight = 0 /\ used \in Nat /\ used + InFlight < Pages /\ stage \in Page
    BY <1>1 DEF InFlight, RingInv, TypeInv, TypeOK
  <2>2. written' = written /\ rHead' = rHead
    BY <1>1 DEF WriterStep
  <2>3. \A i \in 0 .. used : RingPage(i)' = IF i = used THEN stage ELSE RingPage(i)
    <3>1. \A i \in 0 .. used + InFlight :
            RingPage(i)' = IF i = used + InFlight THEN stage ELSE RingPage(i)
      BY <1>3, <2>1, <2>2, AppendedPage
    <3>2. used + InFlight = used
      BY <2>1
    <3> QED BY <3>1, <3>2
  <2>4. Received' = Received /\ Done' = Done
    BY <1>1, <1>3, <2>2 DEF Received, Done, Published
  <2>5. QueueOK'
    BY <1>1, <2>2, <2>4 DEF Custody, QueueOK
  <2>6. HandOK'
    BY <1>1, <1>3, <2>2, <2>4 DEF Custody, HandOK
  <2>7. RingPage(used)' = stage
    BY <1>1, <2>1, <2>3 DEF RingPage, Advance
  <2>8. InFlightOK'
    BY <1>1, <1>3, <2>7 DEF InFlightOK
  <2>9. \A i \in 0 .. used - 1 : RingPage(i)' = RingPage(i)
    BY <2>1, <2>3
  <2> QED BY <1>1, <1>3, <2>4, <2>5, <2>6, <2>8, <2>9, CustodyWriterIdle
<1> QED BY <1>2, <1>3, <1>4 DEF FlushWrite

\* Unless a large record is written over staged ones, there is nothing staged.
LEMMA NothingOverwritten ==
  ASSUME TypeInv, RingInv, Custody, LargeWrite, ~Torn'
  PROVE  stageN = 0 /\ stage = EmptyPage /\ Meet(Overwritten, "overwritten") = history
<1> DEFINE m == Meet(Overwritten, "overwritten")
<1>1. wpc = "large" /\ wreq # NoReq /\ wreq = written[Received] /\ ~Published
  BY DEF LargeWrite, Custody, HandOK, Published
<1>2. /\ Received \in 1 .. Len(written) /\ Done \in Nat /\ Done + 1 = Received
      /\ Len(written) \in 0 .. MaxRecs
  BY <1>1, Counters DEF Custody, HandOK
<1>3. wreq.data = Received
  BY <1>1, <1>2 DEF Custody, WrittenOK
<1>4. stageN = 0
  <2> SUFFICES ASSUME stageN # 0 PROVE FALSE
    OBVIOUS
  <2>1. chunksOut = 0
    BY DEF Custody, HandOK, TypeInv, TypeOK
  <2>2. 1 \in Idx(stage)
    BY DEF Custody, StageOK, Idx, TypeInv, TypeOK, Page
  <2> DEFINE d == stage.slots[1].data
  <2>3. d \in 1 .. Done /\ d \in Overwritten
    BY <2>1, <2>2 DEF Custody, StageOK, Overwritten, Staged, Idx
  <2>4. d \in Data /\ d # wreq.data
    BY <1>2, <1>3, <2>3 DEF Data
  <2> HIDE DEF d
  <2>5. history[d] \in Seq(Outcomes) /\ "overwritten" \in Outcomes
    BY <2>4 DEF TypeInv, TypeOK, Outcomes
  <2>6. m[d] = Append(history[d], "overwritten") /\ m \in [Data -> Seq(Outcomes)]
    BY <2>3, <2>4, <2>5, MeetType DEF Meet
  <2> HIDE DEF m
  <2>7. history'[d] = m[d]
    <3>1. \/ history' = m
          \/ history' = [m EXCEPT ![wreq.data] =
                           Append(@, IF chunksOut = 0 THEN "dropped" ELSE "torn")]
      BY DEF LargeWrite, m
    <3> QED BY <2>4, <2>6, <3>1
  <2>8. /\ Len(history'[d]) \in 1 .. Len(history'[d])
        /\ history'[d][Len(history'[d])] = "overwritten"
    BY <2>5, <2>6, <2>7, AppendProperties
  <2> QED BY <2>4, <2>8 DEF Torn
<1>5. Overwritten = {}
  BY <1>4 DEF Overwritten, Staged
<1>6. m = history
  BY <1>5 DEF Meet, TypeInv, TypeOK
<1> QED BY <1>4, <1>6, EmptyStage DEF Custody

\* One more chunk of a large record is written, or its first one fails and
\* the record is dropped.
LEMMA CustodyLarge ==
  ASSUME ReservedIDs, TypeInv, RingInv, Custody, Bounded, LargeWrite, ~Torn'
  PROVE  Custody' /\ Bounded'
<1> DEFINE N == NumChunks(wreq.len)
           q == ChunkPage(wreq, chunksOut)
<1>1. /\ wpc = "large" /\ WriterStep /\ UNCHANGED <<writeCh, used, stageN>>
      /\ chunksOut = 0 => used + N <= Pages
      /\ written' = written /\ rHead' = rHead
  BY DEF LargeWrite, Claim, WriterStep
<1>2. /\ stageN = 0 /\ stage = EmptyPage /\ stage' = stage
      /\ Meet(Overwritten, "overwritten") = history
  BY NothingOverwritten DEF LargeWrite
<1>3. /\ wreq # NoReq /\ wreq = written[Received] /\ IsLarge(wreq.len) /\ ~Published
      /\ wreq \in Slot /\ chunksOut \in Nat /\ used \in Nat /\ InFlight = chunksOut
  BY <1>1 DEF Custody, HandOK, Published, TypeInv, TypeOK, RingInv, InFlight
<1>4. /\ Received \in 1 .. Len(written) /\ Done \in Nat /\ Done + 1 = Received
      /\ Len(written) \in 0 .. MaxRecs
  BY <1>3, Counters DEF Custody, HandOK
<1>5. N \in Nat /\ N >= 1 /\ q \in Page
  BY <1>3, NumChunksType, NumChunksPositive, ChunkPageType DEF Slot
<1>6. Received' = Received
  BY <1>1 DEF Received
<1>7. QueueOK'
  BY <1>1, <1>6 DEF Custody, QueueOK
<1> HIDE DEF N
<1>8. CASE /\ file' = [file EXCEPT ![wHead] = q] /\ chunksOut' = chunksOut + 1
           /\ wpc' \in {"large", "publish"} /\ history' = history /\ UNCHANGED <<wreq, faults>>
  <2>1. used + InFlight < Pages
    <3>1. CASE chunksOut = 0
      BY <1>1, <1>3, <1>5, <3>1
    <3>2. CASE chunksOut > 0
      <4>1. used + N <= Pages /\ chunksOut < N
        BY <1>1, <3>2 DEF RingInv, WriterInv, N
      <4> QED BY <1>3, <1>5, <4>1
    <3> QED BY <1>3, <3>1, <3>2
  <2>2. \A i \in 0 .. used + InFlight :
          RingPage(i)' = IF i = used + InFlight THEN q ELSE RingPage(i)
    <3> HIDE DEF q
    <3> QED BY <1>1, <1>5, <1>8, <2>1, AppendedPage
  <2>3. Done' = Done
    BY <1>3, <1>6, <1>8 DEF Done, Published
  <2>4. HandOK'
    BY <1>1, <1>2, <1>3, <1>4, <1>6, <1>8 DEF HandOK
  <2>5. ASSUME NEW k \in 0 .. chunksOut' - 1
        PROVE  RingPage(used + k)' = ChunkPage(wreq, k)
    <3>0. RingPage(used + k)' = file'[Advance(rHead, used + k)]
      BY <1>1 DEF RingPage, Advance
    <3>1. used + k \in 0 .. used + InFlight /\ k \in 0 .. chunksOut
      BY <1>3, <1>8
    <3>2. CASE k = chunksOut
      BY <1>1, <1>3, <2>2, <3>1, <3>2 DEF RingPage, Advance
    <3>3. CASE k # chunksOut
      <4>1. k \in 0 .. chunksOut - 1 /\ used + k # used + InFlight
        BY <1>3, <3>1, <3>3
      <4>2. RingPage(used + k) = ChunkPage(wreq, k)
        BY <1>1, <4>1 DEF Custody, InFlightOK
      <4> QED BY <1>1, <2>2, <3>1, <4>1, <4>2 DEF RingPage, Advance
    <3> QED BY <3>2, <3>3
  <2>6. InFlightOK'
    <3>1. chunksOut' # 0
      BY <1>3, <1>8
    <3> QED BY <1>8, <2>5, <3>1 DEF InFlightOK, ChunkPage
  <2>7. \A i \in 0 .. used - 1 : RingPage(i)' = RingPage(i)
    BY <1>3, <2>2
  <2> QED BY <1>1, <1>2, <1>7, <1>8, <2>3, <2>4, <2>6, <2>7, CustodyWriterIdle
<1>9. CASE /\ history' = [history EXCEPT ![wreq.data] =
                            Append(@, IF chunksOut = 0 THEN "dropped" ELSE "torn")]
           /\ chunksOut' = 0 /\ wreq' = NoReq /\ wpc' = "select" /\ file' = file /\ Failed
  <2>1. chunksOut = 0
    BY <1>2, <1>9, FailedChunkTears
  <2>2. wreq.data = Received /\ Received \in Data /\ Received > Done
    BY <1>3, <1>4 DEF Custody, WrittenOK, Data
  <2>3. history[Received] = <<>>
    BY <2>2 DEF Custody, HistWriter
  <2>4. /\ history'[Received] = <<"dropped">>
        /\ \A d \in Data : d # Received => history'[d] = history[d]
    <3>1. history \in [Data -> Seq(Outcomes)] /\ Append(<<>>, "dropped") = <<"dropped">>
      BY DEF TypeInv, TypeOK
    <3> QED BY <1>9, <2>1, <2>2, <2>3, <3>1
  <2>5. Len(stage.slots) = 0 /\ Top = Done /\ Done' = Received /\ Top' = Received
    BY <1>2, <1>6, <1>9 DEF EmptyPage, Top, Done
  <2>6. \A i \in 0 .. used - 1 : RingPage(i)' = RingPage(i)
    BY <1>1, <1>9 DEF RingPage, Advance
  <2>7. /\ WrittenOK' /\ SlotsOK' /\ FramesOK' /\ OrderOK' /\ SnapOK'
        /\ HistBehind' /\ HistHead' /\ HistOnRing' /\ Bounded'
    <3>1. Top' \in Int /\ Top <= Top' /\ faults' \in {faults, faults + 1}
      BY <1>4, <1>9, <2>5 DEF Failed
    <3>2. \A d \in Data : history'[d] # history[d] =>
            /\ d > Top /\ d \in 1 .. Len(written)
            /\ history[d] = <<>> /\ history'[d] = <<"dropped">>
      BY <1>4, <2>2, <2>3, <2>4, <2>5
    <3>3. \A d \in Top + 1 .. Top' : d = Received /\ history'[d] # <<>>
      BY <1>4, <2>4, <2>5
    <3> QED BY <1>1, <2>6, <3>1, <3>2, <3>3, CustodyWriterFrame
  <2>8. HandOK' /\ InFlightOK'
    BY <1>1, <1>2, <1>9 DEF HandOK, InFlightOK
  <2>9. StageOK'
    BY <1>1, <1>2, <2>5 DEF StageOK, Idx, EmptyPage
  <2>10. HistWriter'
    <3>1. \A d \in Data : d > Received => history'[d] = <<>>
      <4>1. \A d \in Data : d > Received => d > Done /\ d # Received
        BY <1>4 DEF Data
      <4> QED BY <2>4, <4>1 DEF Custody, HistWriter
    <3>2. Idx(stage)' = {} /\ Top' + 1 .. Done' = {}
      BY <1>2, <1>4, <2>5 DEF Idx, EmptyPage
    <3> QED BY <2>5, <3>1, <3>2 DEF HistWriter, Unmet
  <2> QED BY <1>7, <2>7, <2>8, <2>9, <2>10 DEF Custody
<1> QED BY <1>2, <1>8, <1>9 DEF LargeWrite

\* The pages the writer has written are announced: the first of them holds
\* the records that follow those on the ring, the others hold none.
LEMMA CustodyAnnounced ==
  ASSUME ReservedIDs, TypeInv, RingInv, Custody, Bounded, WriterStep,
         NEW n \in Nat, n >= 1, used' = used + n, UNCHANGED <<file, faults, history>>,
         Top' \in Int, Top <= Top', Top' <= Len(written),
         \A k \in 1 .. n - 1 : Len(RingPage(used + k).slots) = 0,
         LargeHead(RingPage(used)) =>
           /\ Len(RingPage(used).slots) = 1 /\ n = NumChunks(RingPage(used).slots[1].len)
           /\ \A k \in 1 .. n - 1 : RingPage(used + k) = ChunkPage(RingPage(used).slots[1], k),
         \A j \in Idx(RingPage(used)) :
           /\ RingPage(used).slots[j].data \in Top + 1 .. Top'
           /\ RingPage(used).slots[j] = written[RingPage(used).slots[j].data]
           /\ history[RingPage(used).slots[j].data] = <<>>,
         \A j, k \in Idx(RingPage(used)) :
           j < k => RingPage(used).slots[j].data < RingPage(used).slots[k].data,
         \A d \in Top + 1 .. Top' : history[d] = <<>> =>
           \E j \in Idx(RingPage(used)) : RingPage(used).slots[j].data = d
  PROVE  /\ WrittenOK' /\ SlotsOK' /\ FramesOK' /\ OrderOK' /\ SnapOK'
         /\ HistBehind' /\ HistHead' /\ HistOnRing' /\ Bounded'
<1> DEFINE q == RingPage(used)
<1>1. UNCHANGED <<now, written, rHead, spc, scan>>
  BY DEF WriterStep
<1>2. /\ used \in Nat /\ Top \in 0 .. Done /\ Done \in Nat /\ Len(written) \in 0 .. MaxRecs
  BY Counters DEF RingInv
<1>3. Slack' = Slack /\ Slack \in Nat
  BY DEF Slack, TypeInv, TypeOK
<1>4. \A i \in Int : RingPage(i)' = RingPage(i)
  BY <1>1, SamePages
<1>5. ASSUME NEW i \in 0 .. used' - 1
      PROVE  /\ RingPage(i)' = RingPage(i) /\ i \in Int /\ used \in 0 .. used' - 1
             /\ \/ i \in 0 .. used - 1
                \/ i = used
                \/ i > used /\ Len(RingPage(i).slots) = 0
  <2>1. i \in Int /\ used \in 0 .. used' - 1
    BY <1>2
  <2>2. i > used => i - used \in 1 .. n - 1 /\ used + (i - used) = i
    BY <1>2
  <2>3. i > used => Len(RingPage(i).slots) = 0
    BY <2>2
  <2> QED BY <1>2, <1>4, <2>1, <2>3
<1>6. ASSUME NEW j \in Idx(q)
      PROVE  /\ q.slots[j].data \in Top + 1 .. Top' /\ q.slots[j].data \in 1 .. Len(written)
             /\ q.slots[j].data \in Data
             /\ Known(q.slots[j]) /\ q.slots[j].tid # TombstoneID
             /\ history[q.slots[j].data] = <<>>
  <2>1. /\ q.slots[j].data \in Top + 1 .. Top' /\ q.slots[j] = written[q.slots[j].data]
        /\ history[q.slots[j].data] = <<>>
    OBVIOUS
  <2>2. q.slots[j].data \in 1 .. Len(written) /\ q.slots[j].data \in Data
    BY <1>2, <2>1 DEF Data
  <2>3. written[q.slots[j].data].tid \in TraceIDs
    BY <2>2 DEF Custody, WrittenOK
  <2> QED BY <2>1, <2>2, <2>3 DEF Known, Same, ReservedIDs, ReservedUnused
<1>7. WrittenOK'
  BY <1>1 DEF Custody, WrittenOK
<1>8. SlotsOK'
  <2> SUFFICES ASSUME NEW i \in 0 .. used' - 1, NEW j \in Idx(RingPage(i))'
               PROVE  (Known(RingPage(i).slots[j]) /\ RingPage(i).slots[j].data <= Top)'
    BY DEF SlotsOK
  <2>1. RingPage(i)' = RingPage(i)
    BY <1>5
  <2>2. j \in Idx(RingPage(i))
    BY <2>1 DEF Idx
  <2>3. CASE i \in 0 .. used - 1
    <3>1. Known(RingPage(i).slots[j]) /\ RingPage(i).slots[j].data <= Top
      BY <2>2, <2>3 DEF Custody, SlotsOK
    <3>2. RingPage(i).slots[j].data <= Top'
      BY SMTT(30), <1>2, <3>1 DEF Known
    <3> QED BY <1>1, <2>1, <3>1, <3>2 DEF Known, Same
  <2>4. CASE i = used
    <3>1. Known(RingPage(i).slots[j]) /\ RingPage(i).slots[j].data <= Top'
      BY <1>6, <2>2, <2>4
    <3> QED BY <1>1, <2>1, <3>1 DEF Known, Same
  <2>5. CASE Len(RingPage(i).slots) = 0
    BY <2>2, <2>5 DEF Idx
  <2> QED BY <1>5, <2>3, <2>4, <2>5
<1>9. FramesOK'
  <2> SUFFICES ASSUME NEW i \in 0 .. used' - 1, LargeHead(RingPage(i))' PROVE Framed(i)'
    BY DEF FramesOK
  <2> DEFINE s == RingPage(i).slots[1]
             c == NumChunks(s.len)
  <2>1. RingPage(i)' = RingPage(i) /\ LargeHead(RingPage(i))
    BY <1>5 DEF LargeHead
  <2>2. RingPage(i) \in Page /\ i \in Int
    BY <1>5, RingPageType
  <2>3. /\ Len(RingPage(i).slots) = 1 /\ i + c <= used'
        /\ \A k \in 1 .. c - 1 : RingPage(i + k) = ChunkPage(s, k)
    <3>1. CASE i \in 0 .. used - 1
      <4>1. /\ Len(RingPage(i).slots) = 1 /\ i + c <= used
            /\ \A k \in 1 .. c - 1 : RingPage(i + k) = ChunkPage(s, k)
        BY <2>1, <3>1 DEF Custody, FramesOK, Framed
      <4>2. c \in Nat
        <5>1. s \in Slot
          BY <2>2, <4>1 DEF Page
        <5> QED BY <5>1, NumChunksType DEF Slot
      <4> HIDE DEF c
      <4>3. i + c <= used'
        BY <1>2, <2>2, <4>1, <4>2
      <4> QED BY <4>1, <4>3
    <3>2. CASE i = used
      <4>1. LargeHead(RingPage(used))
        BY <2>1, <3>2
      <4>2. /\ Len(RingPage(used).slots) = 1 /\ n = NumChunks(RingPage(used).slots[1].len)
            /\ \A k \in 1 .. n - 1 : RingPage(used + k) = ChunkPage(RingPage(used).slots[1], k)
        BY <4>1
      <4>3. c = n
        BY <3>2, <4>2
      <4>4. i + c <= used'
        <5> HIDE DEF c
        <5> QED BY <1>2, <3>2, <4>3
      <4> HIDE DEF c
      <4> QED BY <3>2, <4>2, <4>3, <4>4
    <3>3. CASE Len(RingPage(i).slots) = 0
      BY <2>1, <2>2, <3>3, EmptySeq DEF LargeHead, Page
    <3> QED BY <1>5, <3>1, <3>2, <3>3
  <2>4. c \in Nat
    <3>1. s \in Slot
      BY <2>2, <2>3 DEF Page
    <3> QED BY <3>1, NumChunksType DEF Slot
  <2>5. s = RingPage(i)'.slots[1]
    BY <2>1
  <2> HIDE DEF s, c
  <2>6. \A k \in 1 .. c - 1 : RingPage(i + k)' = ChunkPage(s, k)
    <3> SUFFICES ASSUME NEW k \in 1 .. c - 1 PROVE RingPage(i + k)' = ChunkPage(s, k)
      OBVIOUS
    <3>1. i + k \in Int
      BY <2>2, <2>4
    <3> QED BY <1>4, <2>3, <3>1
  <2> QED BY <2>1, <2>3, <2>5, <2>6 DEF Framed, c, NumChunks, ChunkPage, NoChunk
<1>10. OrderOK'
  <2> SUFFICES ASSUME NEW i \in 0 .. used' - 1, NEW k \in 0 .. used' - 1,
                      NEW j \in Idx(RingPage(i))', NEW l \in Idx(RingPage(k))',
                      i < k \/ (i = k /\ j < l)
               PROVE  RingPage(i)'.slots[j].data < RingPage(k)'.slots[l].data
    BY DEF OrderOK
  <2>1. /\ RingPage(i)' = RingPage(i) /\ RingPage(k)' = RingPage(k)
        /\ i \in Int /\ k \in Int
    BY <1>5
  <2>2. j \in Idx(RingPage(i)) /\ l \in Idx(RingPage(k))
    BY <2>1 DEF Idx
  <2>3. i \in 0 .. used /\ k \in 0 .. used
    <3>1. Len(RingPage(i).slots) # 0 /\ Len(RingPage(k).slots) # 0
      BY <2>2 DEF Idx
    <3> QED BY <1>2, <1>5, <3>1
  <2>4. CASE k \in 0 .. used - 1
    <3>1. i \in 0 .. used - 1
      BY <1>2, <2>3, <2>4
    <3> QED BY <2>1, <2>2, <2>4, <3>1 DEF Custody, OrderOK
  <2>5. CASE k = used /\ i \in 0 .. used - 1
    <3>1. Known(RingPage(i).slots[j]) /\ RingPage(i).slots[j].data <= Top
      BY <2>2, <2>5 DEF Custody, SlotsOK
    <3>2. RingPage(k).slots[l].data \in Top + 1 .. Top'
      BY <1>6, <2>2, <2>5
    <3> QED BY <1>2, <2>1, <3>1, <3>2 DEF Known
  <2>6. CASE k = used /\ i = used
    <3>1. j < l
      BY <1>2, <2>6
    <3> QED BY <2>1, <2>2, <2>6, <3>1
  <2> QED BY <1>2, <2>3, <2>4, <2>5, <2>6
<1>11. SnapOK' /\ (Held => used > 0)
  <2>1. Held => used > 0
    BY <1>2 DEF Held, RingInv, SweeperInv, TypeInv, TypeOK, Scan
  <2> QED BY <1>1, <2>1 DEF Custody, SnapOK, Held, CopyOK, ResultOK, Same, Idx, LargeHead
<1>12. HeadView' = HeadView
  BY <1>1 DEF HeadView, Held
<1>13. used = 0 => HeadView = q
  BY <1>11, HeadPage DEF HeadView
<1>14. \A d \in Data : d > Top => Unmet(d)
  BY DEF Custody, HistWriter
<1> HIDE DEF q
<1>15. HistBehind'
  <2> SUFFICES ASSUME NEW i \in 1 .. used' - 1, NEW j \in Idx(RingPage(i))'
               PROVE  /\ history[RingPage(i)'.slots[j].data] = <<>>
                      /\ \A d \in Data : d > RingPage(i)'.slots[j].data => Unmet(d)
    BY DEF HistBehind, Unmet
  <2>1. i \in 0 .. used' - 1 /\ i > 0
    BY <1>2
  <2>2. RingPage(i)' = RingPage(i)
    BY <1>5, <2>1
  <2>3. j \in Idx(RingPage(i))
    BY <2>2 DEF Idx
  <2>4. CASE i \in 0 .. used - 1
    <3>1. i \in 1 .. used - 1
      BY <1>2, <2>1, <2>4
    <3> QED BY <2>2, <2>3, <3>1 DEF Custody, HistBehind
  <2>5. CASE i = used
    <3>1. history[q.slots[j].data] = <<>> /\ q.slots[j].data > Top /\ q.slots[j].data \in Int
      BY <1>2, <1>6, <2>3, <2>5 DEF q
    <3>2. \A d \in Data : d > q.slots[j].data => d > Top
      BY <1>2, <3>1 DEF Data
    <3> QED BY <1>14, <2>2, <2>5, <3>1, <3>2 DEF q
  <2>6. CASE Len(RingPage(i).slots) = 0
    BY <2>3, <2>6 DEF Idx
  <2> QED BY <1>5, <2>1, <2>4, <2>5, <2>6
<1>16. HistHead'
  <2> SUFFICES ASSUME NEW j \in Idx(HeadView), HeadView.slots[j].tid # TombstoneID
               PROVE  Len(history[HeadView.slots[j].data]) <= Slack
    BY <1>3, <1>12 DEF HistHead, Idx
  <2>1. CASE used > 0
    BY <2>1 DEF Custody, HistHead
  <2>2. CASE used = 0
    <3>1. history[HeadView.slots[j].data] = <<>>
      BY <1>6, <1>13, <2>2
    <3> QED BY <1>3, <3>1
  <2> QED BY <1>2, <2>1, <2>2
<1>17. HistOnRing'
  <2> SUFFICES ASSUME NEW d \in 1 .. Top', history[d] = <<>>
               PROVE  InHead(d)' \/ InBehind(d)'
    BY DEF HistOnRing
  <2>1. used' > 0
    BY <1>2
  <2>2. CASE d \in 1 .. Top
    <3>1. CASE InHead(d)
      BY <1>12, <2>1, <3>1 DEF InHead, Idx
    <3>2. CASE InBehind(d)
      <4>1. PICK i \in 1 .. used - 1 : \E j \in Idx(RingPage(i)) : RingPage(i).slots[j].data = d
        BY <3>2 DEF InBehind
      <4>2. i \in 1 .. used' - 1 /\ i \in 0 .. used' - 1
        BY <1>2
      <4>3. RingPage(i)' = RingPage(i)
        BY <1>5, <4>2
      <4> QED BY <4>1, <4>2, <4>3 DEF InBehind, Idx
    <3> QED BY <2>2, <3>1, <3>2 DEF Custody, HistOnRing
  <2>3. CASE d \in Top + 1 .. Top'
    <3>1. PICK j \in Idx(q) : q.slots[j].data = d
      BY <2>3 DEF q
    <3>2. q.slots[j].tid # TombstoneID
      BY <1>6
    <3>3. CASE used = 0
      BY <1>12, <1>13, <2>1, <3>1, <3>2, <3>3 DEF InHead, Idx
    <3>4. CASE used # 0
      <4>1. used \in 1 .. used' - 1 /\ used \in Int
        BY <1>2, <3>4
      <4>2. PICK i \in 1 .. used' - 1 : \E l \in Idx(RingPage(i)) : RingPage(i).slots[l].data = d
        BY <3>1, <4>1 DEF q
      <4>3. RingPage(i)' = RingPage(i)
        BY <1>4
      <4> QED BY <4>2, <4>3 DEF InBehind, Idx
    <3> QED BY <3>3, <3>4
  <2> QED BY <1>2, <2>2, <2>3
<1>18. Bounded'
  BY <1>1, <1>3 DEF Bounded
<1> QED BY <1>7, <1>8, <1>9, <1>10, <1>11, <1>15, <1>16, <1>17, <1>18

\* A staged page, or all pages of a large record, are added to `used'.
LEMMA CustodyPublish ==
  ASSUME ReservedIDs, TypeInv, RingInv, Custody, Bounded, Publish
  PROVE  Custody' /\ Bounded'
<1>1. /\ wpc = "publish" /\ wpc' = "wake" /\ WriterStep
      /\ UNCHANGED <<writeCh, file, wreq, chunksOut, faults, history>>
      /\ written' = written /\ rHead' = rHead
  BY DEF Publish, WriterStep
<1>2. /\ Received \in 0 .. Len(written) /\ Done \in 0 .. Received /\ Top \in 0 .. Done
      /\ wreq # NoReq => Done + 1 = Received
      /\ Len(written) \in 0 .. MaxRecs /\ Received' = Received /\ used \in Nat
      /\ chunksOut \in Nat
  BY <1>1, Counters DEF Published, Received, RingInv, TypeInv, TypeOK
<1>3. QueueOK' /\ InFlightOK'
  BY <1>1, <1>2 DEF Custody, QueueOK, InFlightOK
<1>4. \A d \in Data : d > Done => history[d] = <<>>
  BY DEF Custody, HistWriter
<1>5. used + 0 = used /\ used \in Int
  BY <1>2
<1>6. CASE chunksOut = 0
  <2>1. used' = used + 1 /\ stageN' = 0 /\ stage' = EmptyPage
    BY <1>6 DEF Publish
  <2>2. RingPage(used) = stage
    BY <1>1, <1>6 DEF Custody, InFlightOK
  <2>3. Done' = Done /\ Top' = Done
    BY <1>1, <1>2, <1>6, <2>1 DEF Done, Published, Top, EmptyPage
  <2>4. HandOK'
    BY <1>1, <1>2, <1>6, <2>1 DEF Custody, HandOK
  <2>5. ASSUME NEW j \in Idx(stage)
        PROVE  /\ stage.slots[j].data \in Top + 1 .. Done
               /\ stage.slots[j] = written[stage.slots[j].data]
               /\ history[stage.slots[j].data] = <<>>
    <3>1. stage.slots[j].data \in 1 .. Done /\ stage.slots[j].data > Top
      BY StageAbove
    <3>2. stage.slots[j].data \in Top + 1 .. Done
      BY <1>2, <3>1
    <3> QED BY <3>2 DEF Custody, StageOK, HistWriter
  <2>6. ~LargeHead(stage)
    <3> SUFFICES ASSUME LargeHead(stage) PROVE FALSE
      OBVIOUS
    <3>1. 1 \in Idx(stage)
      BY DEF LargeHead, Idx, TypeInv, TypeOK, Page
    <3> QED BY <3>1 DEF LargeHead, Custody, StageOK
  <2>7. /\ WrittenOK' /\ SlotsOK' /\ FramesOK' /\ OrderOK' /\ SnapOK'
        /\ HistBehind' /\ HistHead' /\ HistOnRing' /\ Bounded'
    <3>1. Top' \in Int /\ Top <= Top' /\ Top' <= Len(written) /\ 1 \in Nat /\ 1 >= 1
      BY <1>2, <2>3
    <3>2. \A k \in 1 .. 1 - 1 : Len(RingPage(used + k).slots) = 0
      OBVIOUS
    <3>3. \A j, k \in Idx(stage) : j < k => stage.slots[j].data < stage.slots[k].data
      BY DEF Custody, StageOK
    <3>4. \A d \in Top + 1 .. Top' : history[d] = <<>> =>
            \E j \in Idx(stage) : stage.slots[j].data = d
      BY <2>3 DEF Custody, HistWriter
    <3> QED BY <1>1, <2>1, <2>2, <2>3, <2>5, <2>6, <3>1, <3>2, <3>3, <3>4, CustodyAnnounced
  <2>8. StageOK'
    BY <2>1 DEF StageOK, Idx, EmptyPage
  <2>9. HistWriter'
    <3>1. Idx(stage)' = {} /\ Top' + 1 .. Done' = {}
      BY <1>2, <2>1, <2>3 DEF Idx, EmptyPage
    <3> QED BY <1>1, <1>4, <2>3, <3>1 DEF HistWriter, Unmet
  <2> QED BY <1>3, <2>4, <2>7, <2>8, <2>9 DEF Custody
<1>7. CASE chunksOut # 0
  <2> DEFINE n == NumChunks(wreq.len)
  <2>1. used' = used + n /\ UNCHANGED <<stage, stageN>>
    BY <1>7 DEF Publish
  <2>2. /\ n = chunksOut /\ wreq # NoReq /\ IsLarge(wreq.len) /\ stageN = 0
        /\ wreq = written[Received]
    BY <1>1, <1>2, <1>7 DEF RingInv, WriterInv, Custody, HandOK
  <2>3. stage = EmptyPage
    BY <2>2, EmptyStage DEF Custody
  <2>4. /\ Done' = Received /\ Top' = Received /\ Top = Done /\ Done + 1 = Received
    BY <1>1, <1>2, <1>7, <2>1, <2>2, <2>3 DEF Done, Published, Top, EmptyPage
  <2>5. wreq.data = Received /\ wreq \in Slot /\ Received \in Data
    <3>1. Received \in 1 .. Len(written) /\ Received \in Data
      BY <1>2, <2>4 DEF Data
    <3>2. written[Received].data = Received
      BY <3>1 DEF Custody, WrittenOK
    <3> QED BY <2>2, <3>1, <3>2 DEF TypeInv, TypeOK
  <2>6. HandOK'
    BY <1>1, <1>2, <2>1, <2>2 DEF Custody, HandOK
  <2> HIDE DEF n
  <2>7. n \in Nat /\ n >= 1
    BY <1>2, <1>7, <2>2
  <2>8. ASSUME NEW m \in 0 .. n - 1 PROVE RingPage(used + m) = ChunkPage(wreq, m)
    BY <1>1, <2>2 DEF Custody, InFlightOK
  <2>9. /\ RingPage(used).slots = <<wreq>> /\ RingPage(used).slots[1] = wreq
        /\ Idx(RingPage(used)) = {1} /\ Len(RingPage(used).slots) = 1
    <3>1. 0 \in 0 .. n - 1
      BY <2>7
    <3>2. RingPage(used) = ChunkPage(wreq, 0)
      BY <1>5, <2>8, <3>1
    <3> QED BY <3>2 DEF ChunkPage, Idx
  <2>10. ASSUME NEW k \in 1 .. n - 1
         PROVE  RingPage(used + k) = ChunkPage(wreq, k) /\ Len(RingPage(used + k).slots) = 0
    <3>1. k \in 0 .. n - 1 /\ k # 0
      BY <2>7
    <3>2. RingPage(used + k) = ChunkPage(wreq, k)
      BY <2>8, <3>1
    <3> QED BY <3>1, <3>2 DEF ChunkPage
  <2>11. history[Received] = <<>>
    BY <1>2, <1>4, <2>4, <2>5
  <2>12. /\ WrittenOK' /\ SlotsOK' /\ FramesOK' /\ OrderOK' /\ SnapOK'
         /\ HistBehind' /\ HistHead' /\ HistOnRing' /\ Bounded'
    <3>1. Top' \in Int /\ Top <= Top' /\ Top' <= Len(written) /\ Received \in Top + 1 .. Top'
      BY <1>2, <2>4
    <3>2. LargeHead(RingPage(used)) =>
            /\ Len(RingPage(used).slots) = 1 /\ n = NumChunks(RingPage(used).slots[1].len)
            /\ \A k \in 1 .. n - 1 : RingPage(used + k) = ChunkPage(RingPage(used).slots[1], k)
      BY <2>9, <2>10 DEF n
    <3>3. \A j \in Idx(RingPage(used)) :
            /\ RingPage(used).slots[j].data \in Top + 1 .. Top'
            /\ RingPage(used).slots[j] = written[RingPage(used).slots[j].data]
            /\ history[RingPage(used).slots[j].data] = <<>>
      BY <2>2, <2>5, <2>9, <2>11, <3>1
    <3>4. \A j, k \in Idx(RingPage(used)) :
            j < k => RingPage(used).slots[j].data < RingPage(used).slots[k].data
      BY <2>9
    <3>5. \A d \in Top + 1 .. Top' : d = Received
      BY <1>2, <2>4
    <3>6. \A d \in Top + 1 .. Top' : history[d] = <<>> =>
            \E j \in Idx(RingPage(used)) : RingPage(used).slots[j].data = d
      BY <2>5, <2>9, <3>5
    <3>7. \A k \in 1 .. n - 1 : Len(RingPage(used + k).slots) = 0
      BY <2>10
    <3> QED BY <1>1, <2>1, <2>7, <3>1, <3>2, <3>3, <3>4, <3>6, <3>7, CustodyAnnounced
  <2>13. StageOK'
    BY <2>1, <2>2, <2>3 DEF StageOK, Idx, EmptyPage
  <2>14. HistWriter'
    <3>1. Idx(stage)' = {} /\ Top' + 1 .. Done' = {}
      BY <1>2, <2>1, <2>3, <2>4 DEF Idx, EmptyPage
    <3>2. \A d \in Data : d > Received => history[d] = <<>>
      <4>1. \A d \in Data : d > Received => d > Done
        BY <1>2, <2>4 DEF Data
      <4> QED BY <1>4, <4>1
    <3> QED BY <1>1, <2>4, <3>1, <3>2 DEF HistWriter, Unmet
  <2> QED BY <1>3, <2>6, <2>12, <2>13, <2>14 DEF Custody
<1> QED BY <1>6, <1>7

\* The sweeper is told, and handle goes on.
LEMMA CustodyWake ==
  ASSUME ReservedIDs, TypeInv, RingInv, Custody, Bounded, WakeSweeper, wpc' # "panic"
  PROVE  Custody' /\ Bounded'
<1>1. /\ wpc = "wake" /\ WriterStep /\ UNCHANGED <<writeCh, used, file, faults, history>>
      /\ stageN = 0 /\ written' = written /\ rHead' = rHead
  BY DEF WakeSweeper, WriterStep, Custody, HandOK
<1>2. stage = EmptyPage
  BY <1>1, EmptyStage DEF Custody
<1>3. CASE chunksOut = 0
  <2>1. AfterFlush(stageN, stage) /\ UNCHANGED chunksOut
    BY <1>1, <1>2, <1>3 DEF WakeSweeper
  <2> QED BY <1>1, <1>3, <2>1, CustodyAfterFlush
<1>4. CASE chunksOut # 0
  <2>1. wpc' = "select" /\ wreq' = NoReq /\ chunksOut' = 0 /\ UNCHANGED <<stage, stageN>>
    BY <1>4 DEF WakeSweeper
  <2>2. Received' = Received /\ Done' = Done
    BY <1>1, <1>4, <2>1 DEF Received, Done, Published, TypeInv, TypeOK
  <2>3. QueueOK' /\ HandOK' /\ InFlightOK'
    BY <1>1, <2>1, <2>2 DEF Custody, QueueOK, HandOK, InFlightOK
  <2>4. \A i \in 0 .. used - 1 : RingPage(i)' = RingPage(i)
    BY <1>1 DEF RingPage, Advance
  <2> QED BY <1>1, <2>1, <2>2, <2>3, <2>4, CustodyWriterIdle
<1> QED BY <1>3, <1>4

\* Every step of runWriter keeps the invariant, unless it leaves a large record
\* torn or ends the process.
LEMMA CustodyWriter ==
  ASSUME ReservedIDs, TypeInv, RingInv, Custody, Bounded, Writer, ~Torn', Alive'
  PROVE  Custody' /\ Bounded'
<1>1. wpc' # "panic"
  BY DEF Alive
<1> QED BY <1>1, CustodyRecv, CustodyWriterMoves, CustodyFlush, CustodyGivesUp, CustodyLarge,
           CustodyPublish, CustodyWake DEF Writer

\* Every step keeps the invariant, with the same exceptions.
LEMMA CustodyNext ==
  ASSUME ReservedIDs, TypeInv, RingInv, Custody, Bounded, [Next]_vars, ~ScanPayload,
         ~Torn', Alive'
  PROVE  Custody' /\ Bounded'
<1>1. CASE Writer
  BY <1>1, CustodyWriter
<1>2. CASE Sweeper
  BY <1>2, CustodySweeper
<1>3. CASE ~Writer /\ ~Sweeper
  <2>1. \/ \E tid \in TraceIDs, len \in Lens, lag \in 0 .. MaxLag : Write(tid, len, now - lag)
        \/ \E tid \in TraceIDs : AddInterest(tid)
        \/ AddInterestWake \/ Close \/ Tick
        \/ \E t \in timers : TimerFire(t)
        \/ UNCHANGED vars
    BY <1>3 DEF Next, Halted
  <2> QED BY <2>1, CustodyCallers
<1> QED BY <1>1, <1>2, <1>3
-----------------------------------------------------------------------------
(* Chunks follow their first page.                                         *)

\* A counted page that continues a large record has the record's first page
\* before it, at the distance its index says.
ContOK ==
  \A i \in 0 .. used - 1 : \A k \in Nat :
    RingPage(i).cont # NoChunk /\ RingPage(i).cont.index = k =>
      /\ k <= i
      /\ LargeHead(RingPage(i - k))
      /\ RingPage(i - k).slots[1].data = RingPage(i).cont.data
      /\ k < NumChunks(RingPage(i - k).slots[1].len)

\* Stamps and steps elsewhere do not matter.
LEMMA ContFrame ==
  ASSUME TypeInv, ContOK, used \in Nat, UNCHANGED used,
         \A i \in 0 .. used - 1 :
           RingPage(i)' \in Page /\ RingPage(i) \in Page /\ Alike(RingPage(i)', RingPage(i))
  PROVE  ContOK'
<1> SUFFICES ASSUME NEW i \in 0 .. used - 1, NEW k \in Nat,
                    RingPage(i)'.cont # NoChunk, RingPage(i)'.cont.index = k
             PROVE  /\ k <= i
                    /\ LargeHead(RingPage(i - k))'
                    /\ RingPage(i - k)'.slots[1].data = RingPage(i)'.cont.data
                    /\ k < NumChunks(RingPage(i - k)'.slots[1].len)
  BY DEF ContOK, NumChunks, NoChunk
<1>1. RingPage(i)'.cont = RingPage(i).cont
  BY DEF Alike
<1>2. /\ k <= i /\ LargeHead(RingPage(i - k))
      /\ RingPage(i - k).slots[1].data = RingPage(i).cont.data
      /\ k < NumChunks(RingPage(i - k).slots[1].len)
  BY <1>1 DEF ContOK
<1>3. i - k \in 0 .. used - 1
  BY <1>2
<1>4. PICK h \in 0 .. used - 1 : h = i - k
  BY <1>3
<1>5. /\ RingPage(h)'.cont = RingPage(h).cont
      /\ Len(RingPage(h)'.slots) = Len(RingPage(h).slots)
      /\ RingPage(h) \in Page /\ RingPage(h)' \in Page
  BY DEF Alike
<1>6. 1 \in Idx(RingPage(h)') /\ RingPage(h)'.slots # <<>>
  BY <1>2, <1>4, <1>5 DEF LargeHead, Idx, Page
<1>7. /\ RingPage(h)'.slots[1].data = RingPage(h).slots[1].data
      /\ RingPage(h)'.slots[1].len = RingPage(h).slots[1].len
  BY <1>6 DEF Alike
<1>8. LargeHead(RingPage(h))'
  BY <1>2, <1>4, <1>5, <1>6, <1>7 DEF LargeHead
<1> QED BY <1>1, <1>2, <1>4, <1>7, <1>8

\* Pages are announced: a staged page, or those of a large record.
LEMMA ContPublish ==
  ASSUME ReservedIDs, TypeInv, RingInv, Custody, ContOK, Publish
  PROVE  ContOK'
<1>1. /\ wpc = "publish" /\ UNCHANGED <<file, rHead>> /\ used \in Nat /\ chunksOut \in Nat
  BY DEF Publish, WriterStep, RingInv, TypeInv, TypeOK
<1>2. \A i \in Int : RingPage(i)' = RingPage(i)
  BY <1>1, SamePages
<1> SUFFICES ASSUME NEW i \in 0 .. used' - 1, NEW k \in Nat,
                    RingPage(i).cont # NoChunk, RingPage(i).cont.index = k
             PROVE  /\ k <= i
                    /\ LargeHead(RingPage(i - k))
                    /\ RingPage(i - k).slots[1].data = RingPage(i).cont.data
                    /\ k < NumChunks(RingPage(i - k).slots[1].len)
  <2> SUFFICES ASSUME NEW i \in 0 .. used' - 1, NEW k \in Nat,
                      RingPage(i)'.cont # NoChunk, RingPage(i)'.cont.index = k
               PROVE  /\ k <= i
                      /\ LargeHead(RingPage(i - k))'
                      /\ RingPage(i - k)'.slots[1].data = RingPage(i)'.cont.data
                      /\ k < NumChunks(RingPage(i - k)'.slots[1].len)
    BY DEF ContOK, NumChunks, NoChunk
  <2>1. i \in Int /\ i - k \in Int
    BY <1>1
  <2>2. RingPage(i)' = RingPage(i) /\ RingPage(i - k)' = RingPage(i - k)
    BY <1>2, <2>1
  <2>3. LargeHead(RingPage(i - k))' <=> LargeHead(RingPage(i - k))
    BY <2>2 DEF LargeHead, NoChunk, IsLarge, RecSize
  <2> QED BY <2>2, <2>3
<1>3. CASE i \in 0 .. used - 1
  BY <1>3 DEF ContOK
<1>4. CASE i \notin 0 .. used - 1 /\ chunksOut = 0
  <2>1. i = used
    BY <1>1, <1>4 DEF Publish
  <2> QED BY <1>1, <1>4, <2>1 DEF Custody, InFlightOK, StageOK
<1>5. CASE i \notin 0 .. used - 1 /\ chunksOut # 0
  <2>1. chunksOut = NumChunks(wreq.len) /\ IsLarge(wreq.len) /\ used' = used + chunksOut
    BY <1>1, <1>5 DEF Publish, RingInv, WriterInv, Custody, HandOK
  <2>2. PICK m \in 0 .. chunksOut - 1 : m = i - used
    BY <1>1, <1>5, <2>1
  <2>3. i = used + m /\ 0 \in 0 .. chunksOut - 1 /\ used + 0 = used
    BY <1>1, <2>2
  <2>4. RingPage(i) = ChunkPage(wreq, m) /\ RingPage(used) = ChunkPage(wreq, 0)
    BY <1>1, <2>3 DEF Custody, InFlightOK
  <2>5. m # 0 /\ RingPage(i).cont = [data |-> wreq.data, index |-> m]
    BY <2>4 DEF ChunkPage
  <2>6. k = m /\ i - k = used /\ RingPage(i).cont.data = wreq.data
    BY <1>1, <2>2, <2>5
  <2>7. RingPage(used).slots = <<wreq>> /\ RingPage(used).cont = NoChunk
    BY <2>4 DEF ChunkPage
  <2>8. LargeHead(RingPage(used)) /\ RingPage(used).slots[1] = wreq
    BY <2>1, <2>7 DEF LargeHead
  <2>9. k <= i /\ k < NumChunks(wreq.len)
    BY <1>1, <2>1, <2>3, <2>6
  <2> QED BY <2>6, <2>8, <2>9
<1> QED BY <1>3, <1>4, <1>5

\* Pages are given back: those of the large record the page under the sweeper
\* starts, or that page alone, so no chunk is left without its first page.
LEMMA ContFreed ==
  ASSUME TypeInv, RingInv, Custody, ContOK, NEW c \in 1 .. used,
         rHead' = Advance(rHead, c), used' = used - c, UNCHANGED file,
         LargeHead(RingPage(0)) => c = NumChunks(RingPage(0).slots[1].len),
         ~LargeHead(RingPage(0)) => c = 1
  PROVE  ContOK'
<1>1. used' = used - c
  OBVIOUS
<1>2. c \in 1 .. used /\ c \in Int /\ used \in Nat /\ InFlight \in Nat
  BY InFlightType DEF RingInv
<1>5. LargeHead(RingPage(0)) => c = NumChunks(RingPage(0).slots[1].len)
  OBVIOUS
<1>6. ~LargeHead(RingPage(0)) => c = 1
  OBVIOUS
<1>7. ASSUME NEW h \in 0 .. c - 1, LargeHead(RingPage(h)) PROVE h = 0
  <2> SUFFICES ASSUME h # 0 PROVE FALSE
    OBVIOUS
  <2>1. LargeHead(RingPage(0)) /\ c = NumChunks(RingPage(0).slots[1].len)
    BY <1>2, <1>5, <1>6
  <2>2. 0 \in 0 .. used - 1 /\ h \in 1 .. c - 1 /\ 0 + h = h
    BY <1>2
  <2>3. RingPage(h) = ChunkPage(RingPage(0).slots[1], h)
    <3>1. \A k \in 1 .. c - 1 : RingPage(0 + k) = ChunkPage(RingPage(0).slots[1], k)
      BY <2>1, <2>2 DEF Custody, FramesOK, Framed
    <3> QED BY <2>2, <3>1
  <2>4. ChunkPage(RingPage(0).slots[1], h).slots = <<>>
    BY <2>2 DEF ChunkPage
  <2> QED BY <1>7, <2>3, <2>4 DEF LargeHead
<1>8. \A i \in 0 .. used' - 1 : RingPage(i)' = RingPage(c + i)
  <2>1. \A i \in 0 .. used + InFlight - c : RingPage(i)' = RingPage(c + i)
    BY <1>1, <1>2, RemainingPages
  <2> QED BY <1>1, <1>2, <2>1
<1> SUFFICES ASSUME NEW i \in 0 .. used' - 1, NEW k \in Nat,
                    RingPage(i)'.cont # NoChunk, RingPage(i)'.cont.index = k
             PROVE  /\ k <= i
                    /\ LargeHead(RingPage(i - k))'
                    /\ RingPage(i - k)'.slots[1].data = RingPage(i)'.cont.data
                    /\ k < NumChunks(RingPage(i - k)'.slots[1].len)
  BY DEF ContOK, NumChunks, NoChunk
<1>9. c + i \in 0 .. used - 1 /\ RingPage(i)' = RingPage(c + i)
  BY <1>1, <1>2, <1>8
<1>10. /\ k <= c + i /\ LargeHead(RingPage((c + i) - k))
       /\ RingPage((c + i) - k).slots[1].data = RingPage(c + i).cont.data
       /\ k < NumChunks(RingPage((c + i) - k).slots[1].len)
  BY <1>9 DEF ContOK
<1>11. k <= i
  <2> SUFFICES ASSUME k > i PROVE FALSE
    BY <1>1, <1>2
  <2>1. (c + i) - k \in 0 .. c - 1
    BY <1>1, <1>2, <1>10
  <2>2. (c + i) - k = 0
    BY <1>7, <1>10, <2>1
  <2>3. k < c
    BY <1>5, <1>10, <2>2
  <2> QED BY <1>1, <1>2, <2>2, <2>3
<1>12. PICK h \in 0 .. used' - 1 : h = i - k
  BY <1>1, <1>2, <1>11
<1>13. RingPage(h)' = RingPage(c + h) /\ c + h = (c + i) - k
  BY <1>1, <1>2, <1>8, <1>12
<1>14. LargeHead(RingPage(h))'
  BY <1>10, <1>13 DEF LargeHead, NoChunk, IsLarge, RecSize
<1> QED BY <1>9, <1>10, <1>11, <1>12, <1>13, <1>14

\* The page under the sweeper is given back with its chunks.
LEMMA ContFree ==
  ASSUME ReservedIDs, TypeInv, RingInv, Custody, ContOK, Free
  PROVE  ContOK'
<1> DEFINE c == scan.chunks
<1>1. /\ spc = "free" /\ Held /\ rHead' = Advance(rHead, c) /\ used' = used - c /\ UNCHANGED file
  BY DEF Free, Held
<1>2. c \in 1 .. used /\ used \in Nat /\ InFlight \in Nat
  BY <1>1, InFlightType DEF RingInv, SweeperInv, TypeInv, TypeOK, Scan
<1>3. CopyOK /\ ResultOK
  BY <1>1 DEF Custody, SnapOK
<1>4. /\ RingPage(0) = file[rHead] /\ file[rHead] \in Page /\ scan.page \in Page
      /\ \A j \in Idx(scan.page) :
           j \in Idx(file[rHead]) /\ scan.page.slots[j].len = file[rHead].slots[j].len
  BY <1>1, HeldPage
<1>5. LargeHead(RingPage(0)) => c = NumChunks(RingPage(0).slots[1].len)
  <2> SUFFICES ASSUME LargeHead(RingPage(0)) PROVE c = NumChunks(RingPage(0).slots[1].len)
    OBVIOUS
  <2>1. 1 \in Idx(scan.page) /\ scan.page.slots # <<>> /\ scan.page.cont = NoChunk
    BY <1>3, <1>4 DEF CopyOK, LargeHead, Idx, Page
  <2>2. RingPage(0).slots[1].len = scan.page.slots[1].len
    BY <1>4, <2>1
  <2>3. LargeHead(scan.page)
    BY <2>1, <2>2 DEF LargeHead
  <2> QED BY <1>1, <1>3, <2>2, <2>3 DEF ResultOK
<1>6. ~LargeHead(RingPage(0)) => c = 1
  <2> SUFFICES ASSUME LargeHead(scan.page) PROVE LargeHead(RingPage(0))
    BY <1>3 DEF ResultOK
  <2>1. 1 \in Idx(scan.page) /\ RingPage(0).cont = NoChunk
    BY <1>3, <1>4 DEF CopyOK, LargeHead, Idx, Page
  <2>2. RingPage(0).slots[1].len = scan.page.slots[1].len /\ RingPage(0).slots # <<>>
    BY <1>4, <2>1 DEF Idx
  <2> QED BY <2>1, <2>2 DEF LargeHead
<1> HIDE DEF c
<1> QED BY <1>1, <1>2, <1>5, <1>6, ContFreed

\* An unreadable page is given back, and it starts no large record.
LEMMA ContReadFail ==
  ASSUME TypeInv, RingInv, Custody, ContOK, SweepReadFail, ~LargeHead(file[rHead])
  PROVE  ContOK'
<1>1. /\ used # 0 /\ rHead' = Advance(rHead, 1) /\ used' = used - 1 /\ UNCHANGED file
  BY DEF SweepReadFail
<1>2. 1 \in 1 .. used /\ RingPage(0) = file[rHead]
  BY <1>1, HeadPage DEF RingInv
<1> QED BY <1>1, <1>2, ContFreed

\* Every step of the writer but Publish leaves the counted pages alone.
LEMMA WriterPages ==
  ASSUME TypeInv, RingInv, Writer, ~Publish
  PROVE  /\ UNCHANGED <<used, rHead>>
         /\ \A i \in 0 .. used - 1 : RingPage(i)' = RingPage(i)
<1>1. UNCHANGED <<used, rHead>>
  BY DEF Writer, WriterRecv, WriterTick, WriterClose, FlushWrite, WriterFull, WriterFreed,
         WriterGivesUp, LargeWrite, WakeSweeper, WriterStep
<1>2. used \in Nat /\ InFlight \in Nat
  BY InFlightType DEF RingInv
<1>3. CASE UNCHANGED file
  BY <1>1, <1>2, <1>3, SamePages
<1>4. ASSUME NEW q \in Page, file' = [file EXCEPT ![wHead] = q], used + InFlight < Pages
      PROVE  \A i \in 0 .. used - 1 : RingPage(i)' = RingPage(i)
  <2>1. \A i \in 0 .. used + InFlight :
          RingPage(i)' = IF i = used + InFlight THEN q ELSE RingPage(i)
    BY <1>1, <1>4, AppendedPage
  <2>2. \A i \in 0 .. used - 1 : i \in 0 .. used + InFlight /\ i # used + InFlight
    BY <1>2
  <2> QED BY <2>1, <2>2
<1>5. CASE FlushWrite /\ file' # file
  <2>1. wpc = "flush" /\ file' = [file EXCEPT ![wHead] = stage] /\ used + 1 <= Pages
    BY <1>5 DEF FlushWrite
  <2>2. stage \in Page /\ used + InFlight < Pages
    BY <1>2, <2>1 DEF TypeInv, TypeOK, InFlight
  <2> QED BY <1>1, <1>4, <2>1, <2>2
<1>6. CASE LargeWrite /\ file' # file
  <2>1. /\ wpc = "large" /\ file' = [file EXCEPT ![wHead] = ChunkPage(wreq, chunksOut)]
        /\ chunksOut = 0 => used + NumChunks(wreq.len) <= Pages
    BY <1>6 DEF LargeWrite, Claim
  <2>2. wreq \in Slot /\ chunksOut \in Nat /\ InFlight = chunksOut
    BY <2>1 DEF TypeInv, TypeOK, InFlight
  <2>3. NumChunks(wreq.len) \in Nat /\ NumChunks(wreq.len) >= 1
    BY <2>2, NumChunksType, NumChunksPositive DEF Slot
  <2>4. chunksOut > 0 => used + NumChunks(wreq.len) <= Pages /\ chunksOut < NumChunks(wreq.len)
    BY <2>1 DEF RingInv, WriterInv
  <2>5. used + InFlight < Pages
    BY <1>2, <2>1, <2>2, <2>3, <2>4
  <2>6. ChunkPage(wreq, chunksOut) \in Page
    BY <2>2, ChunkPageType
  <2> QED BY <1>1, <1>4, <2>1, <2>5, <2>6
<1>7. file' = file \/ FlushWrite \/ LargeWrite
  BY DEF Writer, WriterRecv, WriterTick, WriterClose, WriterFull, WriterFreed,
         WriterGivesUp, WakeSweeper
<1> QED BY <1>1, <1>3, <1>5, <1>6, <1>7

\* Every step keeps chunks and first pages together, unless it skips an
\* unreadable first page.
LEMMA ContNext ==
  ASSUME ReservedIDs, TypeInv, TypeInv', RingInv, Custody, ContOK, [Next]_vars,
         SweepReadFail => ~LargeHead(file[rHead])
  PROVE  ContOK'
<1>1. used \in Nat /\ \A i \in 0 .. used - 1 : RingPage(i) \in Page /\ RingPage(i)' \in Page
  <2>1. used \in Nat
    BY DEF RingInv
  <2> SUFFICES ASSUME NEW i \in 0 .. used - 1 PROVE RingPage(i) \in Page /\ RingPage(i)' \in Page
    BY <2>1
  <2>2. rHead' \in Int /\ i \in Int /\ file' \in [0 .. Pages - 1 -> Page]
    BY <2>1 DEF TypeInv, TypeOK
  <2>3. Advance(rHead', i) \in 0 .. Pages - 1
    BY ONLY <2>2, AdvanceType
  <2>4. RingPage(i)' = file'[Advance(rHead', i)]
    BY DEF RingPage, Advance
  <2> QED BY <2>1, <2>2, <2>3, <2>4, RingPageType
<1>2. ASSUME UNCHANGED used, \A i \in 0 .. used - 1 : RingPage(i)' = RingPage(i) PROVE ContOK'
  BY <1>1, <1>2, ContFrame DEF Alike
<1>3. CASE Publish
  BY <1>3, ContPublish
<1>4. CASE Writer /\ ~Publish
  BY <1>2, <1>4, WriterPages
<1>5. CASE Free
  BY <1>5, ContFree
<1>6. CASE Writeback
  <2>1. Held /\ CopyOK /\ UNCHANGED <<used, rHead>>
    BY <1>6 DEF Writeback, Held, Custody, SnapOK
  <2>2. /\ RingPage(0) = file[rHead] /\ used >= 1
        /\ \A j \in Idx(scan.page) :
              /\ scan.page.slots[j].data = file[rHead].slots[j].data
              /\ scan.page.slots[j].len = file[rHead].slots[j].len
    BY <2>1, HeldPage
  <2>3. Alike(scan.page, file[rHead]) /\ Alike(file[rHead], file[rHead])
    BY <2>1, <2>2 DEF Alike, CopyOK
  <2>4. file' \in {file, [file EXCEPT ![rHead] = scan.page]}
    BY <1>6 DEF Writeback
  <2>5. \A i \in 1 .. used + InFlight - 1 : RingPage(i)' = RingPage(i)
    BY <2>1, <2>4, OtherPages
  <2>6. InFlight \in Nat
    BY InFlightType
  <2>7. RingPage(0)' \in {scan.page, file[rHead]}
    <3>1. RingPage(0)' = file'[Advance(rHead, 0)]
      BY <2>1 DEF RingPage, Advance
    <3>2. Advance(rHead, 0) = rHead /\ rHead \in 0 .. Pages - 1 /\ file \in [0 .. Pages - 1 -> Page]
      BY AdvanceZero DEF TypeInv, TypeOK
    <3> QED BY <2>4, <3>1, <3>2
  <2>8. ASSUME NEW i \in 0 .. used - 1 PROVE Alike(RingPage(i)', RingPage(i))
    <3>1. CASE i = 0
      BY <2>2, <2>3, <2>7, <3>1
    <3>2. CASE i # 0
      <4>1. RingPage(i)' = RingPage(i)
        BY <1>1, <2>5, <2>6, <3>2
      <4> QED BY <4>1 DEF Alike
    <3> QED BY <3>1, <3>2
  <2> QED BY <1>1, <2>1, <2>8, ContFrame
<1>9. CASE SweepReadFail
  BY <1>9, ContReadFail
<1>7. CASE Sweeper /\ ~Free /\ ~Writeback /\ ~SweepReadFail
  <2>1. UNCHANGED <<used, file, rHead>>
    BY <1>7 DEF Sweeper, SweepEmpty, SweepRead, SweepWake, SweepWriterDone,
         ScanEnd, ScanPayload, ScanTombstone, ScanPartial, ScanMatch, ScanUndecided, AgeEvict, AgeKeep,
         Signal, ScanStep
  <2> QED BY <1>1, <1>2, <2>1, SamePages
<1>8. CASE ~Writer /\ ~Sweeper
  <2>1. UNCHANGED <<used, file, rHead>>
    BY <1>8 DEF Next, Write, AddInterest, AddInterestWake, Close, Tick, TimerFire, Halted, vars
  <2> QED BY <1>1, <1>2, <2>1, SamePages
<1> QED BY <1>3, <1>4, <1>5, <1>6, <1>7, <1>8, <1>9

\* The page under the sweeper starts a record: it is no chunk of a payload.
LEMMA NoPayload ==
  ASSUME ReservedIDs, TypeInv, RingInv, Custody, ContOK
  PROVE  ~ScanPayload
<1> SUFFICES ASSUME ScanPayload PROVE FALSE
  OBVIOUS
<1>1. spc = "scan" /\ Held /\ scan.page.cont # NoChunk
  BY DEF ScanPayload, Held
<1>2. used >= 1 /\ used \in Nat /\ RingPage(0) = file[rHead] /\ file[rHead] \in Page
  BY <1>1, HeldPage
<1>3. RingPage(0).cont # NoChunk
  BY <1>1, <1>2 DEF Custody, SnapOK, CopyOK
<1>4. RingPage(0).cont.index \in Nat /\ 0 \in 0 .. used - 1
  BY <1>2 DEF Page, Chunk
<1>5. PICK k \in Nat : k = RingPage(0).cont.index
  BY <1>4
<1>6. k <= 0 /\ LargeHead(RingPage(0 - k))
  BY <1>3, <1>4, <1>5 DEF ContOK
<1>7. 0 - k = 0
  BY <1>6
<1> QED BY <1>3, <1>6, <1>7 DEF LargeHead

\* Skipping an unreadable first page is on record: the record is split.
LEMMA SplitTears ==
  ASSUME TypeInv, RingInv, SweepReadFail, LargeHead(file[rHead])
  PROVE  Torn'
<1>1. /\ spc = "top" /\ used # 0
      /\ history' = Meet(Unconsumed(file[rHead]), "split")
  BY DEF SweepReadFail
<1>2. /\ file[rHead] \in Page /\ RingPage(0) = file[rHead]
      /\ 0 \in 0 .. used + InFlight - 1
  BY <1>1, HeadPage, InFlightType DEF TypeInv, TypeOK, RingInv
<1>3. ~LargeTomb(file[rHead])
  BY <1>1, <1>2 DEF RingInv, FileInv
<1>4. 1 \in 1 .. Len(file[rHead].slots) /\ file[rHead].slots[1] \in Slot
  BY <1>2 DEF LargeHead, Page
<1>5. file[rHead].slots[1].tid # TombstoneID
  BY <1>3 DEF LargeTomb
<1> DEFINE d == file[rHead].slots[1].data
<1>6. d \in Unconsumed(file[rHead]) /\ d \in Data
  BY <1>4, <1>5 DEF Unconsumed, Slot
<1> HIDE DEF d
<1>7. history[d] \in Seq(Outcomes) /\ "split" \in Outcomes
  BY <1>6 DEF TypeInv, TypeOK, Outcomes
<1>8. history'[d] = Append(history[d], "split")
  BY <1>1, <1>6 DEF Meet
<1>9. Len(history'[d]) \in 1 .. Len(history'[d]) /\ history'[d][Len(history'[d])] = "split"
  BY <1>7, <1>8, AppendProperties
<1> QED BY <1>6, <1>9 DEF Torn
-----------------------------------------------------------------------------
(* What the steps add to the outcomes.                                     *)

Intended == {"delivered", "evicted", "early", "dropped"}

\* Without a failed operation a record meets only an end that is intended.
OutcomesOK ==
  faults = 0 => \A d \in Data : \A i \in 1 .. Len(history[d]) : history[d][i] \in Intended

\* Failed operations are counted one by one.
LEMMA FaultsCount == TypeInv /\ [Next]_vars => faults' \in {faults, faults + 1}
<1> SUFFICES ASSUME TypeInv, [Next]_vars PROVE faults' \in {faults, faults + 1}
  OBVIOUS
<1>1. CASE Writer
  BY <1>1 DEF Writer, WriterRecv, WriterTick, WriterClose, FlushWrite, WriterFull,
       WriterFreed, WriterGivesUp, LargeWrite, Publish, WakeSweeper, Failed
<1>2. CASE Sweeper
  BY <1>2 DEF Sweeper, SweepEmpty, SweepRead, SweepReadFail, SweepWake, SweepWriterDone,
       ScanEnd, ScanPayload, ScanTombstone, ScanPartial, ScanMatch, ScanUndecided, AgeEvict, AgeKeep,
       Writeback, Free, Signal, Failed
<1>3. CASE ~Writer /\ ~Sweeper
  BY <1>3 DEF Next, Write, AddInterest, AddInterestWake, Close, Tick, TimerFire, Halted, vars
<1> QED BY <1>1, <1>2, <1>3

\* A step adds at most one outcome to a record.
LEMMA StepOutcome ==
  ASSUME TypeInv, [Next]_vars, LargeWrite => Meet(Overwritten, "overwritten") = history,
         NEW d \in Data
  PROVE  \E o \in Outcomes :
           /\ history'[d] \in {history[d], Append(history[d], o)}
           /\ o # "overwritten" /\ (o = "torn" => "large" \in Faults)
           /\ o = "split" => "read" \in Faults
           /\ o \in Intended \/ faults' = faults + 1 \/ (ScanMatch /\ LargeRec /\ ~ChunksIntact)
<1> USE DEF Outcomes, Intended
<1>0. history \in [Data -> Seq(Outcomes)] /\ history[d] \in Seq(Outcomes)
  BY DEF TypeInv, TypeOK
<1>1. CASE WriterGivesUp
  <2>1. PICK ds : history' = Meet(ds, "dropped")
    BY <1>1 DEF WriterGivesUp
  <2>2. history'[d] \in {history[d], Append(history[d], "dropped")}
    BY <2>1 DEF Meet
  <2> QED BY <2>2
<1>2. CASE LargeWrite
  <2> DEFINE o == IF chunksOut = 0 THEN "dropped" ELSE "torn"
  <2>1. \/ history' = history
        \/ /\ history' = [history EXCEPT ![wreq.data] = Append(history[wreq.data], o)]
           /\ CanFail("large") /\ Failed
    BY <1>2 DEF LargeWrite
  <2>2. history' = history \/ ("large" \in Faults /\ faults' = faults + 1)
    BY <2>1 DEF CanFail, Failed
  <2>3. history'[d] \in {history[d], Append(history[d], o)}
    <3> HIDE DEF o
    <3> QED BY <1>0, <2>1
  <2>4. CASE history' = history
    BY <2>4
  <2>5. CASE "large" \in Faults /\ faults' = faults + 1
    BY <2>3, <2>5
  <2> QED BY <2>2, <2>4, <2>5
<1>3. CASE SweepReadFail
  <2>1. PICK o \in {"split", "unreadable"} : history' = Meet(Unconsumed(file[rHead]), o)
    BY <1>3 DEF SweepReadFail
  <2>2. history'[d] \in {history[d], Append(history[d], o)}
    BY <2>1 DEF Meet
  <2>3. faults' = faults + 1 /\ "read" \in Faults
    BY <1>3 DEF SweepReadFail, CanFail, Failed
  <2> QED BY <2>2, <2>3
<1>7. CASE FlushWrite
  <2>1. \/ history' = history
        \/ history' = Meet(Staged, "unflushed") /\ faults' = faults + 1
    BY <1>7 DEF FlushWrite, Failed
  <2>2. CASE history' = history
    BY <2>2
  <2>3. CASE history' = Meet(Staged, "unflushed") /\ faults' = faults + 1
    <3>1. history'[d] \in {history[d], Append(history[d], "unflushed")}
      BY <2>3 DEF Meet
    <3> QED BY <2>3, <3>1
  <2> QED BY <2>1, <2>2, <2>3
<1>4. CASE ScanMatch
  <2>1. PICK o \in {"corrupt", "delivered"} :
          /\ Consume(o)
          /\ o = "delivered" \/ faults' = faults + 1 \/ (LargeRec /\ ~ChunksIntact)
    BY <1>4 DEF ScanMatch, Failed
  <2>2. history'[d] \in {history[d], Append(history[d], o)}
    BY <1>0, <2>1 DEF Consume
  <2> QED BY <1>4, <2>1, <2>2
<1>5. CASE AgeEvict
  <2>1. PICK o \in {"evicted", "early"} : Consume(o)
    BY <1>5 DEF AgeEvict
  <2>2. history'[d] \in {history[d], Append(history[d], o)}
    BY <1>0, <2>1 DEF Consume
  <2> QED BY <2>1, <2>2
<1>6. CASE /\ ~WriterGivesUp /\ ~LargeWrite /\ ~FlushWrite
           /\ ~SweepReadFail /\ ~ScanMatch /\ ~AgeEvict
  <2>1. history' = history
    <3>1. CASE Writer
      BY <1>6, <3>1 DEF Writer, WriterRecv, WriterTick, WriterClose, WriterFull,
           WriterFreed, Publish, WakeSweeper
    <3>2. CASE Sweeper
      BY <1>6, <3>2 DEF Sweeper, SweepEmpty, SweepRead, SweepWake, SweepWriterDone,
           ScanEnd, ScanPayload, ScanTombstone, ScanPartial, ScanUndecided, AgeKeep, Writeback, Free, Signal
    <3>3. CASE ~Writer /\ ~Sweeper
      BY <3>3 DEF Next, Write, AddInterest, AddInterestWake, Close, Tick, TimerFire, Halted,
                  SweeperStep, vars
    <3> QED BY <3>1, <3>2, <3>3
  <2> QED BY <2>1
<1> QED BY <1>1, <1>2, <1>3, <1>4, <1>5, <1>6, <1>7

\* A large record that processPage looks up is whole in the file.
LEMMA LargeIsIntact ==
  ASSUME ReservedIDs, TypeInv, RingInv, Custody, AtRecord, LargeRec
  PROVE  ChunksIntact
<1>1. /\ Held /\ scan.pos = 1 /\ Rec = scan.page.slots[1] /\ LargeHead(scan.page)
      /\ 1 \in Idx(scan.page)
  BY CursorRecord DEF LargeRec
<1>2. /\ used >= 1 /\ used \in Nat /\ RingPage(0) = file[rHead] /\ 1 \in Idx(file[rHead])
      /\ Rec.data = file[rHead].slots[1].data /\ Rec.len = file[rHead].slots[1].len
      /\ file[rHead].cont = scan.page.cont /\ file[rHead] \in Page /\ Rec \in Slot
  BY <1>1, HeldPage DEF Custody, SnapOK, CopyOK
<1>3. LargeHead(RingPage(0)) /\ 0 \in 0 .. used - 1
  <2>1. file[rHead].slots # <<>>
    BY <1>2 DEF Idx
  <2> QED BY <1>1, <1>2, <2>1 DEF LargeHead
<1>4. \A k \in 1 .. NumChunks(Rec.len) - 1 : RingPage(0 + k) = ChunkPage(file[rHead].slots[1], k)
  BY <1>2, <1>3 DEF Custody, FramesOK, Framed
<1> SUFFICES ASSUME NEW k \in 1 .. NumChunks(Rec.len) - 1
             PROVE  file[Advance(rHead, k)] = ChunkPage(Rec, k)
  BY DEF ChunksIntact
<1>5. NumChunks(Rec.len) \in Nat
  BY <1>2, NumChunksType DEF Slot
<1>6. 0 + k = k /\ k # 0
  BY <1>5
<1>7. RingPage(k) = ChunkPage(file[rHead].slots[1], k)
  BY <1>4, <1>6
<1> QED BY <1>2, <1>6, <1>7 DEF ChunkPage, RingPage

\* Only intended outcomes are added as long as no operation has failed.
LEMMA OutcomesNext ==
  ASSUME ReservedIDs, TypeInv, RingInv, Custody, OutcomesOK, [Next]_vars, ~Torn'
  PROVE  OutcomesOK'
<1> SUFFICES ASSUME faults' = 0, NEW d \in Data, NEW i \in 1 .. Len(history'[d])
             PROVE  history'[d][i] \in Intended
  BY DEF OutcomesOK
<1>1. faults = 0 /\ faults' # faults + 1
  BY FaultsCount DEF TypeInv, TypeOK
<1>2. PICK o \in Outcomes :
        /\ history'[d] \in {history[d], Append(history[d], o)}
        /\ o \in Intended \/ faults' = faults + 1 \/ (ScanMatch /\ LargeRec /\ ~ChunksIntact)
  BY NothingOverwritten, StepOutcome
<1>3. o \in Intended
  BY <1>1, <1>2, LargeIsIntact DEF ScanMatch, Decidable
<1>4. \A k \in 1 .. Len(history[d]) : history[d][k] \in Intended
  BY <1>1 DEF OutcomesOK
<1>5. history[d] \in Seq(Outcomes)
  BY DEF TypeInv, TypeOK
<1>6. CASE history'[d] = history[d]
  BY <1>4, <1>6
<1>7. CASE history'[d] = Append(history[d], o)
  <2>1. /\ Len(history'[d]) = Len(history[d]) + 1 /\ history'[d][Len(history[d]) + 1] = o
        /\ \A k \in 1 .. Len(history[d]) : history'[d][k] = history[d][k]
        /\ Len(history[d]) \in Nat
    BY <1>5, <1>7, AppendProperties
  <2> QED BY <1>3, <1>4, <2>1
<1> QED BY <1>2, <1>6, <1>7

\* A process that has died takes no step.
LEMMA DeadStays == ~Alive /\ [Next]_vars => UNCHANGED vars
<1> SUFFICES ASSUME ~Alive, Next PROVE UNCHANGED vars
  OBVIOUS
<1>1. ~Writer
  BY DEF Alive, Writer, WriterRecv, WriterTick, WriterClose, FlushWrite, WriterFull,
         WriterFreed, WriterGivesUp, LargeWrite, Publish, WakeSweeper
<1>2. ~Sweeper
  BY DEF Sweeper, SweepEmpty, SweepRead, SweepReadFail, SweepWake, SweepWriterDone,
         ScanEnd, ScanPayload, ScanTombstone, ScanPartial, ScanMatch, ScanUndecided, AgeEvict, AgeKeep,
         Writeback, Free, Signal, ScanStep, SweeperStep
<1> QED BY <1>1, <1>2 DEF Next, Write, AddInterest, AddInterestWake, Close, Tick, TimerFire,
                          SweeperStep, Halted

\* A step in which the process dies touches no page, count or record.
LEMMA DyingStep ==
  ASSUME Alive, ~Alive', [Next]_vars
  PROVE  /\ Writer /\ wpc' = "panic" /\ wpc # "publish"
         /\ UNCHANGED <<used, file, rHead, written, history, spc, scan, now, interest, waking>>
<1>1. CASE Writer
  <2>1. wpc' = "panic"
    BY DEF Alive
  <2>2. WriterRecv \/ FlushWrite \/ WakeSweeper
    BY <1>1, <2>1 DEF Writer, WriterTick, WriterClose, WriterFull, WriterFreed, WriterGivesUp,
         LargeWrite, Publish, Over, Alive
  <2>3. WriterStep
    BY <2>2 DEF WriterRecv, FlushWrite, WakeSweeper
  <2>4. UNCHANGED <<used, file, history>> /\ wpc # "publish"
    BY <2>1, <2>2 DEF WriterRecv, FlushWrite, WakeSweeper, AfterFlush, Over
  <2> QED BY <1>1, <2>1, <2>3, <2>4 DEF WriterStep
<1>2. CASE Sweeper
  <2>1. SweeperStep
    BY <1>2 DEF Sweeper, SweepEmpty, SweepRead, SweepReadFail, SweepWake, SweepWriterDone,
         ScanEnd, ScanPayload, ScanTombstone, ScanPartial, ScanMatch, ScanUndecided, AgeEvict, AgeKeep,
         Writeback, Free, Signal, ScanStep
  <2> QED BY <2>1 DEF SweeperStep, Alive
<1>3. CASE ~Writer /\ ~Sweeper
  BY <1>3 DEF Next, Write, AddInterest, AddInterestWake, Close, Tick, TimerFire, Halted,
              SweeperStep, vars, Alive
<1> QED BY <1>1, <1>2, <1>3
-----------------------------------------------------------------------------
(* Nothing is lost silently.                                               *)

\* A record of the head page that has not been consumed is not stamped in the
\* file either.
LEMMA HeadInFile ==
  ASSUME ReservedIDs, TypeInv, RingInv, Custody, NEW d \in 1 .. Len(written), InHead(d)
  PROVE  /\ used > 0 /\ 0 \in 0 .. used - 1 /\ RingPage(0) = file[rHead]
         /\ \E j \in Idx(file[rHead]) :
              file[rHead].slots[j] = written[d] /\ file[rHead].slots[j].tid # TombstoneID
<1>1. PICK j \in Idx(HeadView) : HeadView.slots[j].data = d /\ HeadView.slots[j].tid # TombstoneID
  BY DEF InHead
<1>2. used > 0 /\ used \in Nat /\ 0 \in 0 .. used - 1 /\ RingPage(0) = file[rHead]
      /\ file[rHead] \in Page
  BY HeadPage DEF InHead, RingInv, TypeInv, TypeOK
<1>3. /\ j \in Idx(file[rHead]) /\ file[rHead].slots[j].data = d
      /\ file[rHead].slots[j].tid # TombstoneID
  <2>1. CASE Held
    <3>1. HeadView = scan.page /\ CopyOK
      BY <2>1 DEF HeadView, Custody, SnapOK
    <3>2. Same(scan.page.slots[j], file[rHead].slots[j]) /\ j \in Idx(file[rHead])
      BY <1>1, <3>1 DEF CopyOK, Idx
    <3> QED BY <1>1, <3>1, <3>2 DEF Same
  <2>2. CASE ~Held
    BY <1>1, <2>2 DEF HeadView
  <2> QED BY <2>1, <2>2
<1>4. Known(file[rHead].slots[j])
  BY <1>2, <1>3 DEF Custody, SlotsOK
<1>5. file[rHead].slots[j] \in Slot /\ written[d] \in Slot
  BY <1>2, <1>3, WrittenSlot DEF Idx, Page
<1>6. file[rHead].slots[j] = written[d]
  BY <1>3, <1>4, <1>5 DEF Known, Same, Slot
<1> QED BY <1>2, <1>3, <1>6

\* Every record that Write accepted is on its way or has met an end.
LEMMA OnItsWay ==
  ASSUME ReservedIDs, TypeInv, RingInv, Custody, NEW d \in 1 .. Len(written), history[d] = <<>>
  PROVE  Queued(d) \/ InHand(d) \/ InStage(d) \/ InRing(d)
<1>1. /\ Received \in Nat /\ Received + Len(writeCh) = Len(written) /\ Len(writeCh) \in Nat
      /\ Done \in 0 .. Received /\ Top \in 0 .. Done
      /\ wreq # NoReq /\ ~Published => Done + 1 = Received
      /\ wreq = NoReq \/ Published => Done = Received
  BY Counters
<1>2. written[d].data = d
  BY DEF Custody, WrittenOK
<1>3. CASE d > Received
  <2>1. d - Received \in 1 .. Len(writeCh) /\ Received + (d - Received) = d
    BY <1>1, <1>3
  <2>2. writeCh[d - Received] = written[d]
    BY <2>1 DEF Custody, QueueOK
  <2> QED BY <1>2, <2>1, <2>2 DEF Queued
<1>4. CASE d = Received /\ d > Done
  <2>1. wreq # NoReq
    BY <1>1, <1>4
  <2> QED BY <1>2, <1>4, <2>1 DEF InHand, Custody, HandOK
<1>5. CASE d \in Top + 1 .. Done
  <2>1. PICK j \in Idx(stage) : stage.slots[j].data = d
    BY <1>5 DEF Custody, HistWriter
  <2>2. Len(stage.slots) # 0 /\ stageN \in Nat
    BY <2>1 DEF Idx, TypeInv, TypeOK, Page
  <2>3. stageN # 0 /\ stageN > 0
    BY <2>2 DEF Custody, StageOK
  <2> QED BY <2>1, <2>3 DEF InStage, Staged, Idx
<1>6. CASE d \in 1 .. Top
  <2>1. CASE InHead(d)
    BY <1>2, <2>1, HeadInFile DEF InRing, Idx
  <2>2. CASE InBehind(d)
    <3>1. PICK i \in 1 .. used - 1 : \E j \in Idx(RingPage(i)) : RingPage(i).slots[j].data = d
      BY <2>2 DEF InBehind
    <3>2. i \in 0 .. used - 1 /\ i \in 0 .. used + InFlight - 1 /\ i > 0
      BY InFlightType DEF RingInv
    <3>3. Unmarked(RingPage(i))
      BY <3>2 DEF RingInv, FileInv
    <3> QED BY <3>1, <3>2, <3>3 DEF InRing, Unmarked, Idx
  <2> QED BY <1>6, <2>1, <2>2 DEF Custody, HistOnRing
<1> QED BY <1>1, <1>3, <1>4, <1>5, <1>6

\* Records are consumed in the order of insertion, page by page.
LEMMA InOrder ==
  ASSUME ReservedIDs, TypeInv, RingInv, Custody
  PROVE  InsertionOrder
<1> SUFFICES ASSUME NEW r \in Pending, NEW d \in r.data + 1 .. Len(written),
                    history[d] # <<>>, history[d][1] \notin {"dropped", "unflushed"}
             PROVE  r \in AtHead
  BY DEF InsertionOrder
<1>1. PICK e \in 1 .. Len(written) : r = written[e]
  BY DEF Pending
<1>2. r.data = e /\ history[e] = <<>>
  BY <1>1 DEF Pending, Custody, WrittenOK
<1>3. Top \in Nat /\ Len(written) \in 0 .. MaxRecs
  BY Counters
<1>4. d \in Data /\ e \in Data /\ d > e /\ e \in Int /\ d \in Int
  BY <1>2, <1>3 DEF Data
<1>5. ~Unmet(d)
  BY DEF Unmet
<1>6. e \in 1 .. Top
  <2>1. ~(d > Top)
    BY <1>4, <1>5 DEF Custody, HistWriter
  <2> QED BY <1>3, <1>4, <2>1
<1>7. ~InBehind(e)
  <2> SUFFICES ASSUME InBehind(e) PROVE FALSE
    OBVIOUS
  <2>1. PICK i \in 1 .. used - 1 : \E j \in Idx(RingPage(i)) : RingPage(i).slots[j].data = e
    BY DEF InBehind
  <2> QED BY <1>4, <1>5, <2>1 DEF Custody, HistBehind
<1>8. InHead(e)
  BY <1>2, <1>6, <1>7 DEF Custody, HistOnRing
<1>9. used > 0 /\ \E j \in Idx(file[rHead]) :
        file[rHead].slots[j] = r /\ file[rHead].slots[j].tid # TombstoneID
  BY <1>1, <1>8, HeadInFile
<1> QED BY <1>9 DEF AtHead, Idx

\* The invariant of the buffer: all of the above as long as no record is torn.
Whole == RingInv /\ Bounded /\ OutcomesOK /\ InsertionOrder /\ (Alive => Custody /\ ContOK)
RecordInv == TypeInv /\ (~Torn => Whole)

\* The invariant of the records holds initially.
LEMMA RecordInit == ReservedIDs /\ Init => RecordInv
<1> SUFFICES ASSUME ReservedIDs, Init PROVE RecordInv
  OBVIOUS
<1>1. TypeInv /\ RingInv /\ Custody /\ Bounded
  BY TypeInit, RingInit, CustodyInit DEF ReservedIDs
<1>2. OutcomesOK /\ ContOK
  <2>1. 0 .. used - 1 = {}
    BY DEF Init
  <2> QED BY <2>1 DEF Init, OutcomesOK, ContOK
<1> QED BY <1>1, <1>2, InOrder DEF RecordInv, Whole

\* Every step keeps the invariant of the records.
LEMMA RecordNext == ReservedIDs /\ RecordInv /\ [Next]_vars => RecordInv'
<1> SUFFICES ASSUME ReservedIDs, RecordInv, [Next]_vars PROVE RecordInv'
  OBVIOUS
<1>1. TypeInv /\ TypeInv'
  BY TypeNext DEF RecordInv
<1> SUFFICES ASSUME ~Torn' PROVE Whole'
  BY <1>1 DEF RecordInv
<1>2. ~Torn /\ Whole
  BY <1>1, TornStays DEF RecordInv
<1>3. RingInv'
  BY <1>1, <1>2, RingNext DEF Whole, ReservedIDs
<1>4. CASE Alive /\ Alive'
  <2>1. Custody' /\ Bounded'
    BY <1>1, <1>2, <1>4, NoPayload, CustodyNext DEF Whole
  <2>4. ContOK'
    BY <1>1, <1>2, <1>4, SplitTears, ContNext DEF Whole
  <2>2. OutcomesOK'
    BY <1>1, <1>2, <1>4, OutcomesNext DEF Whole
  <2>3. InsertionOrder'
    <3>1. ReservedIDs /\ TypeInv' /\ RingInv' /\ Custody'
      BY <1>1, <1>3, <2>1
    <3>2. (ReservedIDs /\ TypeInv /\ RingInv /\ Custody => InsertionOrder)'
      BY InOrder, PTL
    <3> QED BY <3>1, <3>2 DEF ReservedIDs, ReservedUnused
  <2> QED BY <1>3, <2>1, <2>2, <2>3, <2>4 DEF Whole
<1>5. CASE Alive /\ ~Alive'
  <2>1. UNCHANGED <<used, file, rHead, written, history>>
    BY <1>5, DyingStep
  <2>2. Slack \in Nat /\ Slack' \in Nat /\ Slack <= Slack'
    <3>1. faults' \in {faults, faults + 1}
      BY <1>1, FaultsCount
    <3>2. faults \in Nat
      BY <1>1 DEF TypeInv, TypeOK
    <3>3. faults' \in Nat /\ faults <= faults'
      BY <3>1, <3>2
    <3> QED BY <3>2, <3>3 DEF Slack
  <2>3. Bounded'
    <3> SUFFICES ASSUME NEW d \in Data
                 PROVE  /\ Len(history[d]) <= 1 + Slack'
                        /\ d \notin 1 .. Len(written) => history[d] = <<>>
      BY <2>1 DEF Bounded
    <3>1. Len(history[d]) <= 1 + Slack /\ (d \notin 1 .. Len(written) => history[d] = <<>>)
      BY <1>2 DEF Whole, Bounded
    <3>2. Len(history[d]) \in Nat
      BY <1>1 DEF TypeInv, TypeOK
    <3> QED BY <2>2, <3>1, <3>2
  <2>4. OutcomesOK'
    BY <1>1, <1>2, <1>5, OutcomesNext DEF Whole
  <2>5. InsertionOrder'
    BY <1>2, <2>1 DEF Whole, InsertionOrder, Pending, AtHead
  <2> QED BY <1>3, <1>5, <2>3, <2>4, <2>5 DEF Whole
<1>6. CASE ~Alive
  <2>1. UNCHANGED vars
    BY <1>6, DeadStays
  <2>2. Bounded' /\ OutcomesOK' /\ InsertionOrder' /\ ~Alive'
    BY <1>2, <1>6, <2>1 DEF vars, Whole, Bounded, OutcomesOK, InsertionOrder, Pending, AtHead,
         Slack, Alive
  <2> QED BY <1>3, <2>2 DEF Whole
<1> QED BY <1>4, <1>5, <1>6

(* Whichever file operations fail, and also when the process dies of a      *)
(* stage overfull after a failed flush: as long as no large record reaches  *)
(* the file in part or on top of staged records, or loses its first page to *)
(* a failed read, ring positions and count agree, no more pages are given   *)
(* back than are counted, and every record Write accepted is in the         *)
(* channel, in hand, in the stage of a writer that runs, in a counted page, *)
(* or has met an end; with no failed operation that end is a delivery, an   *)
(* eviction or a drop at Close.                                             *)
THEOREM FaultsAreContained ==
  ASSUME ReservedIDs
  PROVE  Spec => []FaultsContained
<1>1. Init => RecordInv
  BY RecordInit
<1>2. RecordInv /\ [Next]_vars => RecordInv'
  BY RecordNext
<1>3. RecordInv => FaultsContained
  <2> SUFFICES ASSUME RecordInv, ~Torn PROVE RingAligned /\ UsedInRing /\ NoSilentLoss
    BY DEF FaultsContained
  <2>1. TypeInv /\ Whole /\ Len(written) \in 0 .. MaxRecs
    BY DEF RecordInv, TypeInv, TypeOK
  <2>2. RingAligned
    BY <2>1 DEF Whole, RingInv
  <2>3. \A d \in 1 .. Len(written) : d \in Data
    BY <2>1 DEF Data
  <2>5. UsedInRing
    BY <2>1 DEF Whole, RingInv, SweeperInv, UsedInRing, TypeInv, TypeOK, Scan
  <2>4. NoSilentLoss
    BY <2>1, <2>3, OnItsWay DEF Whole, NoSilentLoss, OutcomesOK, Intended
  <2> QED BY <2>2, <2>4, <2>5
<1> QED BY <1>1, <1>2, <1>3, PTL DEF Spec

(* A record whose tombstone does not reach the file is handed over again,   *)
(* but no more often than file operations have failed: processPage stamps   *)
(* its copy, and the copy is written back before the sweeper reads the page *)
(* again.                                                                   *)
THEOREM RedeliveriesBounded ==
  ASSUME ReservedIDs
  PROVE  Spec => []RedeliveryBounded
<1>1. Init => RecordInv
  BY RecordInit
<1>2. RecordInv /\ [Next]_vars => RecordInv'
  BY RecordNext
<1>3. RecordInv => RedeliveryBounded
  <2> SUFFICES ASSUME RecordInv, ~Torn, NEW d \in Data PROVE Len(history[d]) <= 1 + faults
    BY DEF RedeliveryBounded
  <2>1. TypeInv /\ Bounded
    BY DEF RecordInv, Whole
  <2>2. faults \in Nat /\ Slack \in {0, faults} /\ Len(history[d]) \in Nat
    BY <2>1 DEF Slack, TypeInv, TypeOK
  <2>3. Len(history[d]) <= 1 + Slack
    BY <2>1 DEF Bounded
  <2> QED BY <2>2, <2>3
<1> QED BY <1>1, <1>2, <1>3, PTL DEF Spec
=============================================================================
