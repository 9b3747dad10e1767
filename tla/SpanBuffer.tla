----------------------------- MODULE SpanBuffer -----------------------------
(***************************************************************************)
(* The file-backed ring buffer of the retroactive_sampling processor       *)
(* (processor/retroactivesampling/internal/buffer/buffer.go).              *)
(*                                                                         *)
(* Callers enqueue span records (Write) and mark traces as interesting     *)
(* (AddInterest).  Two goroutines share the file: the writer packs records *)
(* into pages and appends them at wHead, the sweeper consumes the page at  *)
(* rHead and hands every record to onMatch or to evictObs.  They meet only *)
(* in the atomic counter `used', in two one-slot notification channels and *)
(* in the pages of the file.                                               *)
(*                                                                         *)
(* Sizes are in abstract units (HdrSize stands for the 28-byte header),    *)
(* `used' and the ring positions in pages, times in ticks of one clock.    *)
(* A payload is the number of the Write call that brought it in.           *)
(***************************************************************************)
EXTENDS Integers, Sequences

CONSTANTS
  TraceIDs,      \* the trace IDs callers use
  ZeroID,        \* the all-zero trace ID, which ends a page's record list
  TombstoneID,   \* the ID stamped on a record that has been consumed
  Lens,          \* the payload lengths callers use
  HdrSize,       \* length of a record header
  PageSize,      \* length of a page
  Pages,         \* pages in the ring: maxBytes / pageSize
  DecisionWait,  \* decisionWait
  StalePages,    \* pages a previous process may have left in the file
  Faults,        \* the file operations that may fail
  MaxFaults,     \* bound: how often they fail
  MaxRecs,       \* bound: number of accepted writes
  MaxLag,        \* bound: how much older than the clock insertedAt may be
  MaxCallers,    \* bound: AddInterest calls between unlock and wakeup
  LastInput,     \* bound: last tick at which callers call
  MaxTime        \* bound: where the clock stops; it stands for "or later"

ASSUME SizeAssumption ==
  /\ HdrSize \in Nat \ {0}
  /\ PageSize \in Nat
  /\ PageSize > HdrSize
  /\ Lens \subseteq Nat \ {0}
  /\ Pages \in Nat
  /\ Pages >= 2                       \* New: maxBytes >= 2*pageSize
ASSUME TimeAssumption ==
  /\ DecisionWait \in Nat \ {0}       \* New: decisionWait > 0
  /\ LastInput \in Nat
  /\ MaxTime \in Nat
  /\ MaxTime >= LastInput + DecisionWait
  /\ MaxLag \in Nat
ASSUME BoundAssumption ==
  /\ MaxRecs \in Nat
  /\ MaxFaults \in Nat
  /\ MaxCallers \in Nat
  /\ Faults \subseteq {"flush", "large", "read", "chunk", "writeback"}

VARIABLES
  now,        \* the clock
  closed,     \* closeCh has been closed
  writeCh,    \* channel of requests, capacity Pages
  wakeup,     \* channel of capacity 1: a token is pending
  pageFreed,  \* channel of capacity 1: a token is pending
  used,       \* atomic: occupied pages
  file,       \* the ring file, by page
  interest,   \* interestList, front first; interestEntries indexes it
  waking,     \* AddInterest calls that have unlocked and not yet sent
  wpc,        \* writer: where runWriter stands
  wreq,       \* writer: the request handle works on, or NoReq
  chunksOut,  \* writer: chunks of a large wreq already written
  draining,   \* writer: in the drain loop after closeCh
  stage,      \* writer: the staged page
  stageN,     \* writer: bytes staged
  wHead,      \* writer: next page to write
  spc,        \* sweeper: where runSweeper stands
  rHead,      \* sweeper: page to consume
  closing,    \* sweeper: writerDone was observed
  scan,       \* sweeper: the locals of processPage
  timers,     \* deadlines of pending time.AfterFunc calls
  faults,     \* history: failed file operations so far
  written,    \* history: accepted requests, in order
  history     \* history: what became of each payload

\* The groups of variables that actions leave alone.
callerVars  == <<closed, writeCh, interest, waking>>
tokens      == <<wakeup, pageFreed>>
ring        == <<used, file>>
stageVars   == <<stage, stageN>>
writerVars  == <<wpc, wreq, chunksOut, draining, stageVars, wHead>>
sweeperVars == <<spc, rHead, closing, scan, timers>>
ghostVars   == <<faults, written, history>>
vars == <<now, callerVars, tokens, ring, writerVars, sweeperVars, ghostVars>>
-----------------------------------------------------------------------------
(* Records and pages.                                                      *)

Data   == 0 .. MaxRecs          \* 0: a payload of a previous process
AnyID  == TraceIDs \union {ZeroID, TombstoneID}
Times  == 0 .. MaxTime
Slot   == [tid : AnyID, data : Data, len : Nat, at : Int]
Chunk  == [data : Data, index : Nat]
Page   == [slots : Seq(Slot), cont : Chunk]

NoReq     == [tid |-> ZeroID, data |-> 0, len |-> 0, at |-> 0]
NoChunk   == [data |-> 0, index |-> 0]
EmptyPage == [slots |-> <<>>, cont |-> NoChunk]

ASSUME StaleAssumption == StalePages \subseteq Page

RecSize(len)   == HdrSize + len
IsLarge(len)   == RecSize(len) > PageSize
\* Mutant: the header of a large record is not counted.
NumChunksNoHdr(len) == (len + PageSize - 1) \div PageSize

NumChunks(len) == (HdrSize + len + PageSize - 1) \div PageSize

(* The chunk that starts k pages into a large record, and whether the      *)
(* payload extends beyond its first k chunks (off < len(req.data)).        *)
ChunkPage(r, k) ==
  IF k = 0 THEN [slots |-> <<r>>, cont |-> NoChunk]
           ELSE [slots |-> <<>>, cont |-> [data |-> r.data, index |-> k]]
MoreChunks(r, k) == k * PageSize - HdrSize < r.len

\* Mutant: positions do not wrap around.
AdvanceNoWrap(head, n) == head + n

Advance(head, n) == (head + n) % Pages

\* A panic in the writer goroutine ends the process.
Alive == wpc # "panic"

CanFail(op) == op \in Faults /\ faults < MaxFaults
Failed      == faults' = faults + 1
-----------------------------------------------------------------------------
(* The interest set.                                                       *)

Young(e) == now - e.addedAt < 2 * DecisionWait

\* pruneInterestLocked drops entries from the back up to the first young one:
\* n entries stay.
PrunedTo(n) ==
  /\ n > 0 => Young(interest[n])
  /\ \A i \in n + 1 .. Len(interest) : ~Young(interest[i])

\* MoveToFront with a fresh addedAt, or PushFront of a new entry.
Renewed(list, tid) ==
  LET entry == [id |-> tid, addedAt |-> now]
      found == {i \in 1 .. Len(list) : list[i].id = tid}
      i     == CHOOSE i \in found : TRUE
  IN  IF found = {} THEN <<entry>> \o list
      ELSE <<entry>> \o SubSeq(list, 1, i - 1) \o SubSeq(list, i + 1, Len(list))

HasInterestForSpan(tid, at) ==
  \E i \in 1 .. Len(interest) :
    interest[i].id = tid /\ interest[i].addedAt < at + DecisionWait
-----------------------------------------------------------------------------
(* Callers.                                                                *)

(* Write accepts a record that can ever fit while the channel has room;    *)
(* otherwise it returns ErrFull and changes nothing.  Callers stop writing *)
(* before they call Close.  insertedAt was read by this process before the *)
(* call.                                                                   *)
Write(tid, len, at) ==
  /\ Alive /\ ~closed /\ now <= LastInput /\ Len(written) < MaxRecs
  /\ at >= 0
  /\ IsLarge(len) => NumChunks(len) <= Pages
  /\ Len(writeCh) < Pages
  /\ LET r == [tid |-> tid, data |-> Len(written) + 1, len |-> len, at |-> at]
     IN  writeCh' = Append(writeCh, r) /\ written' = Append(written, r)
  /\ UNCHANGED <<now, closed, interest, waking, tokens, ring, writerVars,
                 sweeperVars, faults, history>>

\* The locked part of AddInterest; the wakeup is sent after the unlock.
AddInterest(tid) ==
  /\ Alive /\ now <= LastInput /\ waking < MaxCallers
  /\ \E n \in 0 .. Len(interest) :
       PrunedTo(n) /\ interest' = Renewed(SubSeq(interest, 1, n), tid)
  /\ waking' = waking + 1
  /\ UNCHANGED <<now, closed, writeCh, tokens, ring, writerVars, sweeperVars, ghostVars>>

\* Mutant: AddInterest does not wake the sweeper.
AddInterestSilent ==
  /\ Alive /\ waking > 0
  /\ waking' = waking - 1
  /\ UNCHANGED <<now, closed, writeCh, interest, tokens, ring, writerVars,
                 sweeperVars, ghostVars>>

AddInterestWake ==
  /\ Alive /\ waking > 0
  /\ waking' = waking - 1
  /\ wakeup' = TRUE
  /\ UNCHANGED <<now, closed, writeCh, interest, pageFreed, ring, writerVars,
                 sweeperVars, ghostVars>>

\* Close; its wait for both goroutines ends when spc and wpc are "done".
Close ==
  /\ Alive /\ ~closed
  /\ closed' = TRUE
  /\ UNCHANGED <<now, writeCh, interest, waking, tokens, ring, writerVars,
                 sweeperVars, ghostVars>>
-----------------------------------------------------------------------------
(* The writer.  A flush that handle asked for resumes handle, so wreq says *)
(* what follows it: the ticker and the end of the drain loop have none.    *)

WriterStep == UNCHANGED <<now, closed, interest, waking, sweeperVars, written>>

\* Where the writer goes when handle or a flush without a request is over.
Over == IF wreq = NoReq /\ draining THEN "done" ELSE "select"

(* handle copies a small record into a stage of n bytes.  A failed flush   *)
(* may leave the stage full: writing the header is then out of range.      *)
Stash(r, n, page) ==
  IF n + HdrSize > PageSize
    THEN wpc' = "panic" /\ UNCHANGED stageVars
    ELSE /\ wpc' = "select"
         /\ stage' = [page EXCEPT !.slots = Append(@, r)]
         /\ stageN' = n + RecSize(r.len)

\* Mutant: handle returns after the flush without staging its record.
AfterFlushForgets(n, page) ==
  /\ wpc' = IF wreq # NoReq /\ IsLarge(wreq.len) THEN "large" ELSE Over
  /\ wreq' = IF wreq # NoReq /\ IsLarge(wreq.len) THEN wreq ELSE NoReq
  /\ stageN' = n /\ stage' = page

\* The rest of handle(wreq), if any, after a flush that leaves n bytes staged.
AfterFlush(n, page) ==
  IF wreq # NoReq /\ ~IsLarge(wreq.len)
    THEN Stash(wreq, n, page) /\ wreq' = NoReq
    ELSE /\ wpc' = IF wreq = NoReq THEN Over ELSE "large"
         /\ stageN' = n /\ stage' = page /\ UNCHANGED wreq

\* case req := <-b.writeCh: handle, up to its first flush or large write.
WriterRecv ==
  /\ wpc = "select" /\ writeCh # <<>>
  /\ writeCh' = Tail(writeCh)
  /\ LET r     == Head(writeCh)
         large == IsLarge(r.len)
         flush == IF large THEN stageN > 0 ELSE stageN + RecSize(r.len) > PageSize
     IN  IF ~large /\ ~flush
           THEN Stash(r, stageN, stage) /\ UNCHANGED wreq
           ELSE /\ wpc' = IF flush THEN "flush" ELSE "large"
                /\ wreq' = r
                /\ UNCHANGED stageVars
  /\ UNCHANGED <<tokens, ring, chunksOut, draining, wHead, faults, history>>
  /\ WriterStep

\* case <-ticker.C, and the drain loop's last flush when writeCh is empty.
WriterTick ==
  /\ wpc = "select"
  /\ draining => writeCh = <<>>
  /\ draining \/ stageN > 0
  /\ wpc' = IF stageN > 0 THEN "flush" ELSE "done"
  /\ UNCHANGED <<writeCh, tokens, ring, wreq, chunksOut, draining, stageVars, wHead,
                 faults, history>>
  /\ WriterStep

\* case <-b.closeCh
WriterClose ==
  /\ wpc = "select" /\ ~draining /\ closed
  /\ draining' = TRUE
  /\ UNCHANGED <<writeCh, tokens, ring, wpc, wreq, chunksOut, stageVars, wHead,
                 faults, history>>
  /\ WriterStep

\* The payloads of the stage, and history' when the payloads ds meet an end.
Staged == IF stageN = 0 THEN {} ELSE {stage.slots[i].data : i \in 1 .. Len(stage.slots)}
Meet(ds, outcome) ==
  [d \in Data |-> IF d \in ds THEN Append(history[d], outcome) ELSE history[d]]

(* flush: clear(stage[stageN:]) panics on a stage overfull after a failed  *)
(* flush; otherwise WriteAt, whose error both callers ignore.  When the    *)
(* last flush of the drain loop fails, the stage goes with the writer.     *)
FlushWrite ==
  /\ wpc = "flush"
  /\ \/ /\ stageN > PageSize
        /\ wpc' = "panic"
        /\ UNCHANGED <<file, wHead, stageVars, wreq, faults, history>>
     \/ /\ stageN <= PageSize /\ used + 1 <= Pages
        /\ file' = [file EXCEPT ![wHead] = stage]
        /\ wHead' = Advance(wHead, 1)
        /\ wpc' = "publish"
        /\ UNCHANGED <<stageVars, wreq, faults, history>>
     \/ /\ stageN <= PageSize /\ used + 1 <= Pages
        /\ CanFail("flush") /\ Failed
        /\ IF wreq = NoReq /\ draining
             THEN AfterFlush(0, EmptyPage) /\ history' = Meet(Staged, "unflushed")
             ELSE AfterFlush(stageN, stage) /\ UNCHANGED history
        /\ UNCHANGED <<file, wHead>>
  /\ UNCHANGED <<writeCh, tokens, used, chunksOut, draining>>
  /\ WriterStep

\* Mutant: handle waits for the first page of a large record only.
ClaimOne == 1

\* The pages flush or handle needs before it may write.
Claim == IF wpc \in {"flush", "flushWait"} THEN 1 ELSE NumChunks(wreq.len)

\* The check of used fails: the writer blocks until a token or closeCh.
WriterFull ==
  /\ \/ wpc = "flush" /\ stageN <= PageSize
     \/ wpc = "large" /\ chunksOut = 0
  /\ used + Claim > Pages
  /\ wpc' = IF wpc = "flush" THEN "flushWait" ELSE "largeWait"
  /\ UNCHANGED <<writeCh, tokens, ring, wreq, chunksOut, draining, stageVars, wHead,
                 faults, history>>
  /\ WriterStep

\* case <-b.pageFreed: check again.
WriterFreed ==
  /\ wpc \in {"flushWait", "largeWait"} /\ pageFreed
  /\ pageFreed' = FALSE
  /\ wpc' = IF wpc = "flushWait" THEN "flush" ELSE "large"
  /\ UNCHANGED <<writeCh, wakeup, ring, wreq, chunksOut, draining, stageVars, wHead,
                 faults, history>>
  /\ WriterStep

(* case <-b.closeCh while blocked: the request in hand is dropped, and a   *)
(* flush drops the stage as well.                                          *)
WriterGivesUp ==
  /\ wpc \in {"flushWait", "largeWait"} /\ closed
  /\ LET lost == IF wpc = "flushWait" THEN Staged ELSE {}
     IN  history' = Meet(lost \union (IF wreq = NoReq THEN {} ELSE {wreq.data}), "dropped")
  /\ stageN' = IF wpc = "flushWait" THEN 0 ELSE stageN
  /\ stage' = IF wpc = "flushWait" THEN EmptyPage ELSE stage
  /\ wreq' = NoReq
  /\ wpc' = Over
  /\ UNCHANGED <<writeCh, tokens, ring, chunksOut, draining, wHead, faults>>
  /\ WriterStep

\* The records a failed flush left in the stage, which the first chunk replaces.
Overwritten == IF chunksOut = 0 THEN Staged ELSE {}

(* One WriteAt of a large record.  The chunk is built in the stage buffer, *)
(* which matters only if a failed flush left stageN > 0.  A failed WriteAt *)
(* abandons the record with wHead where it is.                             *)
LargeWrite ==
  /\ wpc = "large"
  /\ chunksOut = 0 => used + Claim <= Pages
  /\ stage' = IF stageN = 0 THEN EmptyPage ELSE ChunkPage(wreq, chunksOut)
  /\ \/ /\ file' = [file EXCEPT ![wHead] = ChunkPage(wreq, chunksOut)]
        /\ wHead' = Advance(wHead, 1)
        /\ chunksOut' = chunksOut + 1
        /\ wpc' = IF MoreChunks(wreq, chunksOut + 1) THEN "large" ELSE "publish"
        /\ history' = Meet(Overwritten, "overwritten")
        /\ UNCHANGED <<wreq, faults>>
     \/ /\ CanFail("large") /\ Failed
        /\ history' = [Meet(Overwritten, "overwritten") EXCEPT
                         ![wreq.data] = Append(@, IF chunksOut = 0 THEN "dropped" ELSE "torn")]
        /\ chunksOut' = 0
        /\ wreq' = NoReq
        /\ wpc' = "select"
        /\ UNCHANGED <<file, wHead>>
  /\ UNCHANGED <<writeCh, tokens, used, draining, stageN>>
  /\ WriterStep

\* b.used.Add makes one staged page, or all pages of a large record, visible.
Publish ==
  /\ wpc = "publish"
  /\ IF chunksOut = 0
       THEN used' = used + 1 /\ stageN' = 0 /\ stage' = EmptyPage
       ELSE used' = used + NumChunks(wreq.len) /\ UNCHANGED stageVars
  /\ wpc' = "wake"
  /\ UNCHANGED <<writeCh, tokens, file, wreq, chunksOut, draining, wHead, faults, history>>
  /\ WriterStep

WakeSweeper ==
  /\ wpc = "wake"
  /\ wakeup' = TRUE
  /\ IF chunksOut = 0
       THEN AfterFlush(0, EmptyPage) /\ UNCHANGED chunksOut
       ELSE /\ wpc' = "select" /\ wreq' = NoReq /\ chunksOut' = 0
            /\ UNCHANGED stageVars
  /\ UNCHANGED <<writeCh, pageFreed, ring, draining, wHead, faults, history>>
  /\ WriterStep

Writer ==
  \/ WriterRecv \/ WriterTick \/ WriterClose
  \/ FlushWrite \/ WriterFull \/ WriterFreed \/ WriterGivesUp
  \/ LargeWrite \/ Publish \/ WakeSweeper
-----------------------------------------------------------------------------
(* The sweeper.  scan holds the locals of processPage: the scratch page,   *)
(* the record under the cursor, the value of used loaded on entry, and the *)
(* three results.                                                          *)

NoScan == [page |-> EmptyPage, pos |-> 0, used |-> 0, fully |-> TRUE,
           chunks |-> 1, dirty |-> FALSE, minRem |-> 0]

SweeperStep == Alive /\ UNCHANGED <<now, callerVars, writerVars, written>>
\* processPage itself changes only the sweeper's locals and what it hands over.
ScanStep    == SweeperStep /\ UNCHANGED <<tokens, ring, rHead, closing, timers>>

\* used == 0: return if closing, otherwise wait for either channel.
SweepEmpty ==
  /\ spc = "top" /\ used = 0
  /\ spc' = IF closing THEN "done" ELSE "wait"
  /\ UNCHANGED <<scan, faults, history>> /\ ScanStep

(* ReadAt of the head page and the load of used on entry to processPage.   *)
(* Between the two only the writer runs, and it adds pages elsewhere.      *)
SweepRead ==
  /\ spc = "top" /\ used # 0
  /\ spc' = "scan"
  /\ scan' = [NoScan EXCEPT !.page = file[rHead], !.pos = 1, !.used = used]
  /\ UNCHANGED <<faults, history>> /\ ScanStep

\* The payloads a page holds that have not been consumed.
Unconsumed(p) ==
  {p.slots[i].data : i \in {j \in 1 .. Len(p.slots) : p.slots[j].tid # TombstoneID}}

\* Mutant: the skipped page stays counted.
SweepReadFailCounted ==
  /\ spc = "top" /\ used # 0
  /\ CanFail("read") /\ Failed
  /\ rHead' = Advance(rHead, 1)
  /\ spc' = "signal"
  /\ UNCHANGED <<tokens, ring, closing, scan, timers, history>> /\ SweeperStep

\* A page that starts a large record.
LargeHead(p) == p.cont = NoChunk /\ p.slots # <<>> /\ IsLarge(p.slots[1].len)

(* An unreadable page is skipped; what it held is lost.  One page is freed  *)
(* also of a large record: its chunks are then under rHead without a head.  *)
SweepReadFail ==
  /\ spc = "top" /\ used # 0
  /\ CanFail("read") /\ Failed
  /\ rHead' = Advance(rHead, 1)
  /\ used' = used - 1
  /\ spc' = "signal"
  /\ history' = Meet(Unconsumed(file[rHead]),
                     IF LargeHead(file[rHead]) THEN "split" ELSE "unreadable")
  /\ UNCHANGED <<tokens, file, closing, scan, timers>> /\ SweeperStep

\* case <-b.wakeup
SweepWake ==
  /\ spc = "wait" /\ wakeup
  /\ wakeup' = FALSE
  /\ spc' = "top"
  /\ UNCHANGED <<pageFreed, ring, rHead, closing, scan, timers, faults, history>>
  /\ SweeperStep

\* Mutant: the sweeper does not remember that the writer is gone.
SweepWriterDoneForgets ==
  /\ spc = "wait" /\ wpc = "done"
  /\ spc' = "top"
  /\ UNCHANGED <<tokens, ring, rHead, closing, scan, timers, faults, history>>
  /\ SweeperStep

\* case <-b.writerDone
SweepWriterDone ==
  /\ spc = "wait" /\ wpc = "done"
  /\ closing' = TRUE
  /\ spc' = "top"
  /\ UNCHANGED <<tokens, ring, rHead, scan, timers, faults, history>>
  /\ SweeperStep

Rec      == scan.page.slots[scan.pos]
AtRecord == /\ spc = "scan"
            /\ scan.page.cont = NoChunk
            /\ scan.pos <= Len(scan.page.slots)
            /\ Rec.tid # ZeroID
LargeRec == scan.pos = 1 /\ IsLarge(Rec.len)

\* The loop ends: no room for another header, or an all-zero trace ID.
ScanEnd ==
  /\ spc = "scan" /\ scan.page.cont = NoChunk /\ ~AtRecord
  /\ spc' = "writeback"
  /\ UNCHANGED <<scan, faults, history>> /\ ScanStep

ScanTombstone ==
  /\ AtRecord /\ Rec.tid = TombstoneID
  /\ IF LargeRec
       THEN scan' = [scan EXCEPT !.chunks = NumChunks(Rec.len)] /\ spc' = "writeback"
       ELSE scan' = [scan EXCEPT !.pos = @ + 1] /\ UNCHANGED spc
  /\ UNCHANGED <<faults, history>> /\ ScanStep

\* The pages of the large record are not all counted in used yet.
Partial    == LargeRec /\ NumChunks(Rec.len) > scan.used
Decidable  == AtRecord /\ Rec.tid # TombstoneID /\ ~Partial

ScanPartial ==
  /\ AtRecord /\ Rec.tid # TombstoneID /\ Partial
  /\ scan' = [scan EXCEPT !.fully = FALSE]
  /\ spc' = "writeback"
  /\ UNCHANGED <<faults, history>> /\ ScanStep

\* Mutant: the record is not stamped as consumed.
ConsumeNoTombstone(outcome) ==
  /\ scan' = [scan EXCEPT !.chunks = IF LargeRec THEN NumChunks(Rec.len) ELSE @,
                          !.pos    = IF LargeRec THEN @ ELSE @ + 1]
  /\ spc' = IF LargeRec THEN "writeback" ELSE "scan"
  /\ history' = [history EXCEPT ![Rec.data] = Append(@, outcome)]

\* The record is consumed: tombstone it in scratch; a large one ends the loop.
Consume(outcome) ==
  /\ scan' = [scan EXCEPT !.page.slots[scan.pos].tid = TombstoneID,
                          !.dirty  = TRUE,
                          !.chunks = IF LargeRec THEN NumChunks(Rec.len) ELSE @,
                          !.pos    = IF LargeRec THEN @ ELSE @ + 1]
  /\ spc' = IF LargeRec THEN "writeback" ELSE "scan"
  /\ history' = [history EXCEPT ![Rec.data] = Append(@, outcome)]

\* The continuation chunks of the large record at rHead are in the file.
ChunksIntact ==
  \A k \in 1 .. NumChunks(Rec.len) - 1 : file[Advance(rHead, k)] = ChunkPage(Rec, k)

(* The record matches: onMatch.  A large payload is reassembled from the   *)
(* file first, and a failed ReadAt leaves zeros in it.                     *)
ScanMatch ==
  /\ Decidable /\ HasInterestForSpan(Rec.tid, Rec.at)
  /\ \/ /\ Consume(IF LargeRec /\ ~ChunksIntact THEN "corrupt" ELSE "delivered")
        /\ UNCHANGED faults
     \/ /\ LargeRec /\ CanFail("chunk") /\ Failed
        /\ Consume("corrupt")
  /\ ScanStep

\* Mutant: the age is looked at without a lookup of the decision.
ScanUndecidedAlways ==
  /\ Decidable
  /\ spc' = "age"
  /\ UNCHANGED <<scan, faults, history>> /\ ScanStep

\* The lookup found no decision; the age is read after the lock is released.
ScanUndecided ==
  /\ Decidable /\ ~HasInterestForSpan(Rec.tid, Rec.at)
  /\ spc' = "age"
  /\ UNCHANGED <<scan, faults, history>> /\ ScanStep

Age      == now - Rec.at
\* Mutant: the ring counts as nearly full when it is half full.
PressureHalf == 4 * scan.used > 2 * Pages \/ closing

Pressure == 4 * scan.used > 3 * Pages \/ closing

(* A continuation chunk is under rHead: the bytes of a payload are parsed   *)
(* as headers, and what they spell decides the result.  The page, or as     *)
(* many pages as a length says and used allows, are freed; or the page is   *)
(* kept, until a time that the bytes spell, or with no timer at all for a   *)
(* length beyond used.  No accepted record is handed over.                  *)
ScanPayload ==
  /\ spc = "scan" /\ scan.page.cont # NoChunk
  /\ \/ \E n \in {1} \union 1 .. scan.used, dirty \in BOOLEAN :
          scan' = [scan EXCEPT !.chunks = n, !.dirty = dirty]
     \/ \E rem \in Times :
          /\ rem > 0 => ~Pressure
          /\ scan' = [scan EXCEPT !.fully = FALSE, !.minRem = rem]
  /\ spc' = "writeback"
  /\ UNCHANGED <<faults, history>> /\ ScanStep

\* Mutant: the time until a record ages out is not taken over.
MinRemNever(a, b) == a

MinRem(a, b) == IF a = 0 \/ b < a THEN b ELSE a

AgeEvict ==
  /\ spc = "age"
  /\ Age >= DecisionWait \/ Pressure
  /\ Consume(IF Age >= DecisionWait THEN "evicted" ELSE "early")
  /\ UNCHANGED faults /\ ScanStep

\* Mutant: a record that is kept does not keep its page.
AgeKeepFrees ==
  /\ spc = "age"
  /\ ~(Age >= DecisionWait \/ Pressure)
  /\ scan' = [scan EXCEPT !.minRem = MinRem(@, DecisionWait - Age),
                          !.pos    = @ + 1]
  /\ spc' = IF LargeRec THEN "writeback" ELSE "scan"
  /\ UNCHANGED <<faults, history>> /\ ScanStep

AgeKeep ==
  /\ spc = "age"
  /\ ~(Age >= DecisionWait \/ Pressure)
  /\ scan' = [scan EXCEPT !.fully  = FALSE,
                          !.minRem = MinRem(@, DecisionWait - Age),
                          !.pos    = @ + 1]
  /\ spc' = IF LargeRec THEN "writeback" ELSE "scan"
  /\ UNCHANGED <<faults, history>> /\ ScanStep

\* The clock saturates at MaxTime, by when everything has aged out.
Deadline(rem) == IF now + rem > MaxTime THEN MaxTime ELSE now + rem

(* processPage returns: tombstones go to the file.  A page that still      *)
(* holds records arms a timer for the first of them to age out.            *)
Writeback ==
  /\ spc = "writeback"
  /\ \/ /\ file' = IF scan.dirty THEN [file EXCEPT ![rHead] = scan.page] ELSE file
        /\ UNCHANGED faults
     \/ /\ scan.dirty /\ CanFail("writeback") /\ Failed
        /\ UNCHANGED file
  /\ IF scan.fully
       THEN spc' = "free" /\ UNCHANGED <<scan, timers>>
       ELSE /\ spc' = "wait"
            /\ scan' = NoScan
            /\ timers' = IF scan.minRem > 0 THEN timers \union {Deadline(scan.minRem)}
                                            ELSE timers
  /\ UNCHANGED <<tokens, used, rHead, closing, history>> /\ SweeperStep

\* Mutant: one page is freed whatever the record's length.
FreeOne ==
  /\ spc = "free"
  /\ rHead' = Advance(rHead, 1)
  /\ used' = used - 1
  /\ scan' = NoScan
  /\ spc' = "signal"
  /\ UNCHANGED <<tokens, file, closing, timers, faults, history>> /\ SweeperStep

Free ==
  /\ spc = "free"
  /\ rHead' = Advance(rHead, scan.chunks)
  /\ used' = used - scan.chunks
  /\ scan' = NoScan
  /\ spc' = "signal"
  /\ UNCHANGED <<tokens, file, closing, timers, faults, history>> /\ SweeperStep

\* Mutant: the writer is not told of the freed pages.
SignalLost ==
  /\ spc = "signal"
  /\ spc' = "top"
  /\ UNCHANGED <<tokens, ring, rHead, closing, scan, timers, faults, history>>
  /\ SweeperStep

Signal ==
  /\ spc = "signal"
  /\ pageFreed' = TRUE
  /\ spc' = "top"
  /\ UNCHANGED <<wakeup, ring, rHead, closing, scan, timers, faults, history>>
  /\ SweeperStep

\* Mutant: the callback does not wake the sweeper.
TimerFireSilent(t) ==
  /\ now >= t
  /\ timers' = timers \ {t}
  /\ UNCHANGED <<tokens, ring, spc, rHead, closing, scan, faults, history>>
  /\ SweeperStep

\* The callback of time.AfterFunc.
TimerFire(t) ==
  /\ now >= t
  /\ wakeup' = TRUE
  /\ timers' = timers \ {t}
  /\ UNCHANGED <<pageFreed, ring, spc, rHead, closing, scan, faults, history>>
  /\ SweeperStep

Sweeper ==
  \/ SweepEmpty \/ SweepRead \/ SweepReadFail \/ SweepWake \/ SweepWriterDone
  \/ ScanEnd \/ ScanPayload \/ ScanTombstone \/ ScanPartial \/ ScanMatch \/ ScanUndecided
  \/ AgeEvict \/ AgeKeep \/ Writeback \/ Free \/ Signal
-----------------------------------------------------------------------------
(* New: an empty ring over a file that is new (zero pages) or was left by a *)
(* previous process.                                                        *)
Init ==
  /\ now = 0 /\ closed = FALSE /\ writeCh = <<>>
  /\ wakeup = FALSE /\ pageFreed = FALSE
  /\ used = 0 /\ file \in [0 .. Pages - 1 -> {EmptyPage} \union StalePages]
  /\ interest = <<>> /\ waking = 0
  /\ wpc = "select" /\ wreq = NoReq /\ chunksOut = 0 /\ draining = FALSE
  /\ stage = EmptyPage /\ stageN = 0 /\ wHead = 0
  /\ spc = "top" /\ rHead = 0 /\ closing = FALSE /\ scan = NoScan /\ timers = {}
  /\ faults = 0 /\ written = <<>> /\ history = [d \in Data |-> <<>>]

Tick ==
  /\ Alive /\ now < MaxTime
  /\ now' = now + 1
  /\ UNCHANGED <<callerVars, tokens, ring, writerVars, sweeperVars, ghostVars>>

\* Close has returned, or the process has died.
Halted ==
  /\ ~Alive \/ (wpc = "done" /\ spc = "done")
  /\ UNCHANGED vars

Next ==
  \/ \E tid \in TraceIDs, len \in Lens, lag \in 0 .. MaxLag :
       Write(tid, len, now - lag)
  \/ \E tid \in TraceIDs : AddInterest(tid)
  \/ AddInterestWake
  \/ Close
  \/ Writer
  \/ Sweeper
  \/ \E t \in timers : TimerFire(t)
  \/ Tick
  \/ Halted

(* Goroutines and timer callbacks that can run do run, and time passes;     *)
(* nothing obliges callers to write, to decide or to close.                 *)
Fairness ==
  /\ WF_vars(Writer)
  /\ WF_vars(Sweeper)
  /\ WF_vars(AddInterestWake)
  /\ WF_vars(\E t \in timers : TimerFire(t))
  /\ WF_vars(Tick)

Spec     == Init /\ [][Next]_vars
FairSpec == Spec /\ Fairness
-----------------------------------------------------------------------------
(* Properties.                                                             *)

WriterPcs  == {"select", "flush", "flushWait", "large", "largeWait", "publish",
               "wake", "done", "panic"}
SweeperPcs == {"top", "wait", "scan", "age", "writeback", "free", "signal", "done"}
Outcomes   == {"delivered", "corrupt", "evicted", "early", "dropped", "unflushed",
               "unreadable", "split", "overwritten", "torn"}
Entry      == [id : TraceIDs, addedAt : Times]
Scan       == [page : Page, pos : Nat, used : Int, fully : BOOLEAN,
               chunks : Nat, dirty : BOOLEAN, minRem : Int]

\* Types of everything SpanBuffer and its two goroutines keep.
TypeOK ==
  /\ now \in Times
  /\ closed \in BOOLEAN /\ wakeup \in BOOLEAN /\ pageFreed \in BOOLEAN
  /\ writeCh \in Seq(Slot) /\ Len(writeCh) <= Pages
  /\ used \in Int
  /\ file \in [0 .. Pages - 1 -> Page]
  /\ interest \in Seq(Entry)
  /\ waking \in 0 .. MaxCallers
  /\ wpc \in WriterPcs /\ wreq \in Slot /\ chunksOut \in Nat
  /\ draining \in BOOLEAN
  /\ stage \in Page /\ stageN \in Nat
  /\ wHead \in 0 .. Pages - 1
  /\ spc \in SweeperPcs
  /\ rHead \in 0 .. Pages - 1
  /\ closing \in BOOLEAN
  /\ scan \in Scan
  /\ timers \subseteq Times
  /\ faults \in 0 .. MaxFaults
  /\ written \in Seq(Slot) /\ Len(written) <= MaxRecs
  /\ history \in [Data -> Seq(Outcomes)]

\* The page i pages after the one the sweeper consumes.
RingPage(i) == file[Advance(rHead, i)]

(* `used' counts pages of the ring: the sweeper never gives back more than  *)
(* the writer claimed (a negative count would let the writer lap it), and   *)
(* what the writer claimed is really free.                                  *)
UsedInRing ==
  /\ used \in 0 .. Pages
  /\ spc = "free" => scan.chunks <= used

\* Pages the writer has written and not yet added to `used'.
InFlight ==
  IF wpc = "publish" THEN (IF chunksOut = 0 THEN 1 ELSE chunksOut)
  ELSE IF wpc = "large" THEN chunksOut ELSE 0

(* The two goroutines keep their positions privately and agree only on the  *)
(* count: the writer's position is always where the sweeper's position plus *)
(* the counted and the in-flight pages leads, so page counts and positions  *)
(* never drift apart, and in-flight pages lie outside the counted ones.     *)
RingAligned ==
  /\ wHead = Advance(rHead, used + InFlight)
  /\ used + InFlight <= Pages

(* The counted pages are whole records: the page at rHead starts a record,  *)
(* each large record is followed by exactly its own continuation chunks,    *)
(* and no counted page is a remnant of an earlier lap or process.           *)
RingFramed ==
  \A i \in 0 .. used - 1 :
    /\ LET p == RingPage(i) IN
       LargeHead(p) =>
         /\ i + NumChunks(p.slots[1].len) <= used
         /\ \A k \in 1 .. NumChunks(p.slots[1].len) - 1 :
              RingPage(i + k) = ChunkPage(p.slots[1], k)
    /\ LET c == RingPage(i).cont IN
       c # NoChunk =>
         /\ c.index <= i
         /\ LET h == RingPage(i - c.index) IN
            /\ LargeHead(h)
            /\ h.slots[1].data = c.data
            /\ c.index < NumChunks(h.slots[1].len)
    /\ \A j \in 1 .. Len(RingPage(i).slots) : RingPage(i).slots[j].data # 0

(* No record that Write accepted is handed to a callback twice, and none a  *)
(* previous process left in the file is handed to a callback at all.        *)
AtMostOnce ==
  /\ \A d \in 1 .. Len(written) : Len(history[d]) <= 1
  /\ \A d \in Data \ (1 .. Len(written)) : history[d] = <<>>

\* Where a record that has met no end may be.
Queued(d)  == \E i \in 1 .. Len(writeCh) : writeCh[i].data = d
InHand(d)  == wreq # NoReq /\ wreq.data = d
InStage(d) == stageN > 0 /\ d \in Staged
InRing(d)  == \E i \in 0 .. used - 1 : \E j \in 1 .. Len(RingPage(i).slots) :
                RingPage(i).slots[j].data = d /\ RingPage(i).slots[j].tid # TombstoneID

(* A record that Write accepted is somewhere on its way, or it has met an   *)
(* end that the code intends: no hand-over between channel, stage, file and *)
(* sweeper loses it, and it is damaged only if a file operation failed.     *)
NoSilentLoss ==
  \A d \in 1 .. Len(written) :
    /\ Alive /\ history[d] = <<>> => Queued(d) \/ InHand(d) \/ InStage(d) \/ InRing(d)
    /\ faults = 0 => \A i \in 1 .. Len(history[d]) :
                       history[d][i] \in {"delivered", "evicted", "early", "dropped"}

(* A large record did not reach the file whole, was built on top of staged  *)
(* records that a flush had failed to write, or lost its first page to a    *)
(* failed read.                                                             *)
Torn == \E d \in Data : \E i \in 1 .. Len(history[d]) :
          history[d][i] \in {"torn", "overwritten", "split"}

(* Other file operations that fail cost no page and no record silently:     *)
(* positions and count agree, no more pages are given back than are         *)
(* counted, and every record is on its way or has met an end that has a     *)
(* name.                                                                    *)
FaultsContained == ~Torn => RingAligned /\ UsedInRing /\ NoSilentLoss

(* A tombstone that does not reach the file has the records of its page     *)
(* handed over again, but at most once for each failed operation.           *)
RedeliveryBounded == ~Torn => \A d \in Data : Len(history[d]) <= 1 + faults
-----------------------------------------------------------------------------
\* The records on their way, and those of them in the page under the sweeper.
Pending == {r \in {written[d] : d \in 1 .. Len(written)} : history[r.data] = <<>>}
AtHead  == IF used = 0 THEN {} ELSE
             {r \in {file[rHead].slots[j] : j \in 1 .. Len(file[rHead].slots)} :
                r.tid # TombstoneID}

(* Records are consumed in insertion order, page by page: one that is still *)
(* on its way while a later one has been delivered or evicted shares the    *)
(* page under the sweeper with it.                                          *)
InsertionOrder ==
  \A r \in Pending : \A d \in r.data + 1 .. Len(written) :
    history[d] # <<>> /\ history[d][1] \notin {"dropped", "unflushed"} => r \in AtHead

(* A writer that blocks for pages is never forgotten: when enough pages are *)
(* free a token is pending or the sweeper is about to send it.              *)
WriterArmed ==
  wpc \in {"flushWait", "largeWait"} /\ used + Claim <= Pages
    => pageFreed \/ spc = "signal"

(* A sweeper that waits while pages are counted has been told, is about to  *)
(* be told, or has a timer that goes off within decisionWait.               *)
SweeperArmed ==
  spc = "wait" /\ used > 0 /\ ~wakeup /\ wpc \notin {"wake", "done", "panic"}
    => \E t \in timers : t <= now + DecisionWait

(* A decision for a record of the page under a waiting sweeper wakes it,    *)
(* whichever record it is scanning when the decision is made: the record is *)
(* delivered without waiting for a timer.                                   *)
DecisionWakes ==
  spc = "wait" /\ waking = 0 /\ ~wakeup /\ wpc # "wake"
    => \A r \in AtHead : ~HasInterestForSpan(r.tid, r.at)

(* A record is evicted before decisionWait only while the ring is more than *)
(* three quarters full or the writer is gone, although the sweeper looked   *)
(* at `used' when it read the page and may act on it much later.            *)
EarlyOnlyUnderPressure ==
  [][\A d \in Data : history'[d] # history[d] /\ history'[d][Len(history'[d])] = "early"
       => 4 * used > 3 * Pages \/ wpc = "done"]_vars

(* A decision that came while a record was buffered is kept for it until    *)
(* the record is two decisionWaits old: pruning on behalf of another trace  *)
(* does not take it, only a newer decision for the same trace replaces it.  *)
DecisionKept ==
  [][\A r \in Pending : \A i \in 1 .. Len(interest) :
       LET e == interest[i] IN
       /\ e.id = r.tid
       /\ r.at <= e.addedAt /\ e.addedAt < r.at + DecisionWait
       /\ now < r.at + 2 * DecisionWait
       => \E j \in 1 .. Len(interest') :
            interest'[j].id = r.tid /\ interest'[j].addedAt \in {e.addedAt, now}]_vars

(* Every record that Write accepted meets an end.                           *)
EverySettled ==
  \A d \in 1 .. MaxRecs : Len(written) >= d ~> history[d] # <<>>

(* Close returns: both goroutines stop after closeCh is closed.             *)
CloseReturns == closed ~> (wpc = "done" /\ spc = "done")
-----------------------------------------------------------------------------
(* What comments and design documents say and the code does not do.        *)

(* "It checks whether the decision arrived before the span's own retention  *)
(* window closed, which correctly handles the case where the sweeper is     *)
(* delayed": a decision that arrived in time keeps matching the record.     *)
DecisionInTimeMatches ==
  [][\A r \in Pending :
       /\ \E i \in 1 .. Len(interest) :
            /\ interest[i].id = r.tid
            /\ r.at <= interest[i].addedAt
            /\ interest[i].addedAt < r.at + DecisionWait
       /\ now < r.at + 2 * DecisionWait
       => HasInterestForSpan(r.tid, r.at)']_vars
=============================================================================
