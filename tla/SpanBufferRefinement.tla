------------------------ MODULE SpanBufferRefinement -----------------------
(* The buffer implements the queue: every step of SpanBuffer is, through   *)
(* the mapping of SpanBufferImpl, a step of SpanQueue or none, for every   *)
(* number of pages, page size, set of trace IDs and lengths, decision wait *)
(* and bound.  The promise is made for file operations that succeed        *)
(* (Faults is empty).                                                      *)
EXTENDS SpanBufferImpl, SpanBufferReliable

USE SizeAssumption, TimeAssumption, BoundAssumption
USE DEF callerVars, tokens, ring, stageVars, writerVars, sweeperVars, ghostVars
-----------------------------------------------------------------------------
(* The interest list.                                                      *)

\* interestList names a trace once, and its entries get older from the front.
ListOK(list) ==
  /\ \A i \in 1 .. Len(list) : list[i].addedAt <= now
  /\ \A i, j \in 1 .. Len(list) :
       i < j => list[i].id # list[j].id /\ list[i].addedAt >= list[j].addedAt
ListInv == ListOK(interest)

\* Renewed puts the entry in front and takes the old one, at place i, out: i is
\* one beyond the list if there is none.
LEMMA RenewedAt ==
  ASSUME TypeInv, NEW list \in Seq(Entry), NEW tid \in TraceIDs
  PROVE  \E i \in 1 .. Len(list) + 1 :
           /\ i <= Len(list) => list[i].id = tid
           /\ i = Len(list) + 1 => \A k \in 1 .. Len(list) : list[k].id # tid
           /\ Renewed(list, tid) \in Seq(Entry)
           /\ Len(Renewed(list, tid)) = IF i <= Len(list) THEN Len(list) ELSE Len(list) + 1
           /\ Renewed(list, tid)[1] = [id |-> tid, addedAt |-> now]
           /\ \A j \in 2 .. Len(Renewed(list, tid)) :
                Renewed(list, tid)[j] = list[IF j <= i THEN j - 1 ELSE j]
<1> DEFINE entry == [id |-> tid, addedAt |-> now]
           R == Renewed(list, tid)
           found == {i \in 1 .. Len(list) : list[i].id = tid}
<1>1. entry \in Entry
  BY DEF TypeInv, TypeOK, Entry
<1>2. CASE found = {}
  <2>1. R = <<entry>> \o list
    BY <1>2 DEF Renewed
  <2>2. /\ R \in Seq(Entry) /\ Len(R) = Len(list) + 1 /\ R[1] = entry
        /\ \A j \in 2 .. Len(list) + 1 : R[j] = list[j - 1]
    <3>1. <<entry>> \in Seq(Entry) /\ Len(<<entry>>) = 1 /\ <<entry>>[1] = entry
      BY <1>1
    <3> HIDE DEF entry, R
    <3> QED BY <2>1, <3>1, ConcatProperties
  <2>3. Len(list) + 1 \in 1 .. Len(list) + 1 /\ ~(Len(list) + 1 <= Len(list))
    OBVIOUS
  <2>4. \A j \in 2 .. Len(R) : R[j] = list[IF j <= Len(list) + 1 THEN j - 1 ELSE j]
    BY <2>2
  <2> QED BY <1>2, <2>2, <2>3, <2>4
<1>3. CASE found # {}
  <2>1. PICK i \in found :
          R = <<entry>> \o SubSeq(list, 1, i - 1) \o SubSeq(list, i + 1, Len(list))
    BY <1>3 DEF Renewed
  <2>2. i \in 1 .. Len(list) /\ list[i].id = tid /\ Len(list) \in Nat
    BY <2>1
  <2>3. PICK a \in Seq(Entry), b \in Seq(Entry) :
          /\ R = <<entry>> \o a \o b
          /\ Len(a) = i - 1 /\ \A m \in 1 .. i - 1 : a[m] = list[m]
          /\ Len(b) = Len(list) - i /\ \A m \in 1 .. Len(list) - i : b[m] = list[i + m]
    <3>1. /\ SubSeq(list, 1, i - 1) \in Seq(Entry) /\ Len(SubSeq(list, 1, i - 1)) = i - 1
          /\ \A m \in 1 .. i - 1 : SubSeq(list, 1, i - 1)[m] = list[m]
      BY <2>2
    <3>2. /\ SubSeq(list, i + 1, Len(list)) \in Seq(Entry)
          /\ Len(SubSeq(list, i + 1, Len(list))) = Len(list) - i
          /\ \A m \in 1 .. Len(list) - i : SubSeq(list, i + 1, Len(list))[m] = list[i + m]
      BY <2>2
    <3> QED BY <2>1, <3>1, <3>2
  <2>4. PICK ea \in Seq(Entry) :
          /\ R = ea \o b /\ Len(ea) = i /\ ea[1] = entry
          /\ \A m \in 1 .. i - 1 : ea[1 + m] = list[m]
    <3>1. <<entry>> \in Seq(Entry) /\ Len(<<entry>>) = 1 /\ <<entry>>[1] = entry
      BY <1>1
    <3> HIDE DEF entry, R
    <3>2. /\ <<entry>> \o a \in Seq(Entry) /\ Len(<<entry>> \o a) = i
          /\ (<<entry>> \o a)[1] = entry
      BY <2>2, <2>3, <3>1, ConcatProperties
    <3>3. \A m \in 1 .. i - 1 : (<<entry>> \o a)[1 + m] = list[m]
      <4>1. \A m \in 1 .. Len(a) : (<<entry>> \o a)[Len(<<entry>>) + m] = a[m]
        BY <3>1, ConcatParts
      <4> QED BY <2>3, <3>1, <4>1
    <3> QED BY <2>3, <3>2, <3>3
  <2>5. /\ R \in Seq(Entry) /\ Len(R) = Len(list)
        /\ \A m \in 1 .. i : R[m] = ea[m]
        /\ \A m \in 1 .. Len(list) - i : R[i + m] = b[m]
    <3>1. /\ Len(ea \o b) = Len(ea) + Len(b) /\ ea \o b \in Seq(Entry)
          /\ \A m \in 1 .. Len(ea) : (ea \o b)[m] = ea[m]
          /\ \A m \in 1 .. Len(b) : (ea \o b)[Len(ea) + m] = b[m]
      BY ConcatParts, ConcatProperties
    <3>2. i + (Len(list) - i) = Len(list)
      BY <2>2
    <3> HIDE DEF R
    <3> QED BY <2>3, <2>4, <3>1, <3>2
  <2> HIDE DEF R, entry
  <2>6. R[1] = entry
    BY <2>2, <2>4, <2>5
  <2>7. ASSUME NEW j \in 2 .. Len(R) PROVE R[j] = list[IF j <= i THEN j - 1 ELSE j]
    <3>1. CASE j <= i
      <4>1. j \in 1 .. i /\ j - 1 \in 1 .. i - 1 /\ 1 + (j - 1) = j
        BY <2>2, <3>1
      <4>2. ea[1 + (j - 1)] = list[j - 1]
        BY <2>4, <4>1
      <4> QED BY <2>5, <3>1, <4>1, <4>2
    <3>2. CASE ~(j <= i)
      <4>1. j - i \in 1 .. Len(list) - i /\ i + (j - i) = j
        BY <2>2, <2>5, <3>2
      <4>2. R[i + (j - i)] = b[j - i] /\ b[j - i] = list[i + (j - i)]
        BY <2>3, <2>5, <4>1
      <4> QED BY <3>2, <4>1, <4>2
    <3> QED BY <3>1, <3>2
  <2>8. i \in 1 .. Len(list) + 1 /\ i # Len(list) + 1 /\ i <= Len(list)
    BY <2>2
  <2> QED BY <2>2, <2>5, <2>6, <2>7, <2>8 DEF R, entry
<1> QED BY <1>2, <1>3

\* The list stays in order, and holds what it held of the other traces.
LEMMA RenewedList ==
  ASSUME TypeInv, NEW list \in Seq(Entry), ListOK(list), NEW tid \in TraceIDs
  PROVE  /\ Renewed(list, tid) \in Seq(Entry) /\ Len(Renewed(list, tid)) >= 1
         /\ Renewed(list, tid)[1] = [id |-> tid, addedAt |-> now]
         /\ ListOK(Renewed(list, tid))
         /\ \A j \in 2 .. Len(Renewed(list, tid)) :
              /\ Renewed(list, tid)[j].id # tid
              /\ \E k \in 1 .. Len(list) : Renewed(list, tid)[j] = list[k]
         /\ \A k \in 1 .. Len(list) : list[k].id # tid =>
              \E j \in 2 .. Len(Renewed(list, tid)) : Renewed(list, tid)[j] = list[k]
<1> DEFINE R == Renewed(list, tid)
<1> HIDE DEF R
<1>1. PICK i \in 1 .. Len(list) + 1 :
        /\ i <= Len(list) => list[i].id = tid
        /\ i = Len(list) + 1 => \A k \in 1 .. Len(list) : list[k].id # tid
        /\ R \in Seq(Entry)
        /\ Len(R) = IF i <= Len(list) THEN Len(list) ELSE Len(list) + 1
        /\ R[1] = [id |-> tid, addedAt |-> now]
        /\ \A j \in 2 .. Len(R) : R[j] = list[IF j <= i THEN j - 1 ELSE j]
  BY RenewedAt DEF R
<1> DEFINE f(j) == IF j <= i THEN j - 1 ELSE j
<1>2. Len(list) \in Nat /\ i \in Nat /\ i <= Len(list) + 1 /\ 1 <= i
  OBVIOUS
<1>3. ASSUME NEW j \in 2 .. Len(R)
      PROVE  f(j) \in 1 .. Len(list) /\ f(j) # i /\ R[j] = list[f(j)]
  BY <1>1, <1>2
<1>4. ASSUME NEW j \in 2 .. Len(R) PROVE R[j].id # tid
  <2>1. CASE i = Len(list) + 1
    BY <1>1, <1>3, <2>1
  <2>2. CASE i <= Len(list)
    <3>1. list[i].id = tid /\ i \in 1 .. Len(list)
      BY <1>1, <1>2, <2>2
    <3>2. f(j) < i \/ i < f(j)
      BY <1>2, <1>3
    <3> HIDE DEF f
    <3>3. list[f(j)].id # list[i].id
      BY <1>3, <3>1, <3>2 DEF ListOK
    <3> QED BY <1>3, <3>1, <3>3
  <2> QED BY <1>2, <2>1, <2>2
<1>5. ASSUME NEW k \in 1 .. Len(list), list[k].id # tid
      PROVE  \E j \in 2 .. Len(R) : R[j] = list[k]
  <2>1. k # i
    BY <1>1, <1>2, <1>5
  <2> DEFINE j == IF k < i THEN k + 1 ELSE k
  <2>2. j \in 2 .. Len(R) /\ f(j) = k
    BY <1>1, <1>2, <2>1
  <2> HIDE DEF j, f
  <2> QED BY <1>3, <2>2
<1>6. Len(R) >= 1 /\ Len(R) \in Nat
  BY <1>1, <1>2
<1>7. ASSUME NEW j \in 2 .. Len(R), NEW k \in 2 .. Len(R), j < k PROVE f(j) < f(k)
  <2>1. j \in Int /\ k \in Int
    BY <1>6
  <2> QED BY ONLY <1>2, <1>7, <2>1
<1> HIDE DEF f
<1>8. ASSUME NEW j \in 1 .. Len(R) PROVE R[j].addedAt <= now
  <2>1. CASE j = 1
    BY <1>1, <2>1 DEF TypeInv, TypeOK, Times
  <2>2. CASE j # 1
    <3>1. j \in 2 .. Len(R)
      BY <1>6, <2>2
    <3> QED BY <1>3, <3>1 DEF ListOK
  <2> QED BY <2>1, <2>2
<1>9. ASSUME NEW j \in 1 .. Len(R), NEW k \in 1 .. Len(R), j < k
      PROVE  R[j].id # R[k].id /\ R[j].addedAt >= R[k].addedAt
  <2>1. k \in 2 .. Len(R)
    BY <1>6, <1>9
  <2>2. CASE j = 1
    <3>1. R[j].id = tid /\ R[j].addedAt = now
      BY <1>1, <2>2
    <3>2. R[k].addedAt <= now /\ R[k].id # tid
      BY <1>4, <1>8, <2>1
    <3>3. R[k].addedAt \in Int /\ now \in Int
      <4>1. R[k] \in Entry
        BY <1>1
      <4> QED BY <4>1 DEF Entry, Times, TypeInv, TypeOK
    <3> QED BY <3>1, <3>2, <3>3
  <2>3. CASE j # 1
    <3>1. j \in 2 .. Len(R)
      BY <1>6, <2>3
    <3>2. f(j) < f(k)
      BY <1>7, <1>9, <2>1, <3>1
    <3> QED BY <1>3, <2>1, <3>1, <3>2 DEF ListOK
  <2> QED BY <2>2, <2>3
<1>10. ListOK(R)
  BY <1>8, <1>9 DEF ListOK
<1>11. ASSUME NEW j \in 2 .. Len(R) PROVE \E k \in 1 .. Len(list) : R[j] = list[k]
  BY <1>3
<1> QED BY <1>1, <1>4, <1>5, <1>6, <1>10, <1>11 DEF R

\* What pruning leaves are exactly the young entries.
LEMMA PrunedList ==
  ASSUME TypeInv, ListInv, NEW n \in 0 .. Len(interest), PrunedTo(n)
  PROVE  /\ SubSeq(interest, 1, n) \in Seq(Entry) /\ Len(SubSeq(interest, 1, n)) = n
         /\ \A k \in 1 .. n : SubSeq(interest, 1, n)[k] = interest[k]
         /\ ListOK(SubSeq(interest, 1, n))
         /\ \A k \in 1 .. Len(interest) : k <= n <=> Young(interest[k])
<1>1. interest \in Seq(Entry) /\ Len(interest) \in Nat /\ now \in Nat
  BY DEF TypeInv, TypeOK, Times
<1>2. /\ SubSeq(interest, 1, n) \in Seq(Entry) /\ Len(SubSeq(interest, 1, n)) = n
      /\ \A k \in 1 .. n : SubSeq(interest, 1, n)[k] = interest[k]
  BY <1>1
<1>3. \A k \in 1 .. n : k \in 1 .. Len(interest)
  BY <1>1
<1>4. ListOK(SubSeq(interest, 1, n))
  BY <1>2, <1>3 DEF ListInv, ListOK
<1>5. ASSUME NEW k \in 1 .. Len(interest) PROVE k <= n <=> Young(interest[k])
  <2>1. CASE k <= n
    <3>1. n > 0 /\ n \in 1 .. Len(interest) /\ (k < n \/ k = n)
      BY <1>1, <2>1
    <3>2. Young(interest[n])
      BY <3>1 DEF PrunedTo
    <3>3. interest[k].addedAt \in Int /\ interest[n].addedAt \in Int
      <4>1. interest[k] \in Entry /\ interest[n] \in Entry
        BY <1>1, <3>1
      <4> QED BY <4>1 DEF Entry, Times
    <3>4. interest[k].addedAt >= interest[n].addedAt
      <4>1. CASE k < n
        BY <3>1, <4>1 DEF ListInv, ListOK
      <4>2. CASE k = n
        BY <3>3, <4>2
      <4> QED BY <3>1, <4>1, <4>2
    <3> QED BY <1>1, <2>1, <3>2, <3>3, <3>4 DEF Young
  <2>2. CASE ~(k <= n)
    <3>1. k \in n + 1 .. Len(interest)
      BY <1>1, <2>2
    <3> QED BY <2>2, <3>1 DEF PrunedTo
  <2> QED BY <2>1, <2>2
<1> QED BY <1>2, <1>4, <1>5

\* The list stays in order.
LEMMA ListNext == TypeInv /\ ListInv /\ [Next]_vars => ListInv'
<1> SUFFICES ASSUME TypeInv, ListInv, [Next]_vars PROVE ListInv'
  OBVIOUS
<1>1. CASE \E tid \in TraceIDs : AddInterest(tid)
  <2>1. PICK tid \in TraceIDs, n \in 0 .. Len(interest) :
          /\ PrunedTo(n) /\ interest' = Renewed(SubSeq(interest, 1, n), tid)
          /\ now' = now
    BY <1>1 DEF AddInterest
  <2> DEFINE list == SubSeq(interest, 1, n)
  <2>2. list \in Seq(Entry) /\ ListOK(list)
    BY <2>1, PrunedList
  <2> HIDE DEF list
  <2>3. interest' = Renewed(list, tid)
    BY <2>1 DEF list
  <2>4. ListOK(Renewed(list, tid))
    BY <2>2, RenewedList
  <2> QED BY <2>1, <2>3, <2>4 DEF ListInv, ListOK
<1>2. CASE ~\E tid \in TraceIDs : AddInterest(tid)
  <2>1. interest' = interest /\ (now' = now \/ now' = now + 1)
    <3>1. CASE Writer
      <4>1. WriterStep
        BY <3>1 DEF Writer, WriterRecv, WriterTick, WriterClose, FlushWrite, WriterFull,
             WriterFreed, WriterGivesUp, LargeWrite, Publish, WakeSweeper
      <4> QED BY <4>1 DEF WriterStep
    <3>2. CASE Sweeper
      <4>1. SweeperStep
        BY <3>2 DEF Sweeper, SweepEmpty, SweepRead, SweepReadFail, SweepWake, SweepWriterDone,
             ScanEnd, ScanPayload, ScanTombstone, ScanPartial, ScanMatch, ScanUndecided, AgeEvict, AgeKeep,
             Writeback, Free, Signal, ScanStep
      <4> QED BY <4>1 DEF SweeperStep
    <3>3. CASE ~Writer /\ ~Sweeper
      BY <1>2, <3>3 DEF Next, Write, AddInterestWake, Close, Tick, TimerFire, Halted,
           SweeperStep, vars
    <3> QED BY <3>1, <3>2, <3>3
  <2>2. \A i \in 1 .. Len(interest) : interest[i].addedAt \in Int
    <3>1. interest \in Seq(Entry)
      BY DEF TypeInv, TypeOK
    <3>2. \A i \in 1 .. Len(interest) : interest[i] \in Entry
      BY <3>1
    <3> QED BY <3>2 DEF Entry, Times
  <2>3. now \in Int
    BY DEF TypeInv, TypeOK, Times
  <2> QED BY <2>1, <2>2, <2>3 DEF ListInv, ListOK
<1> QED BY <1>1, <1>2

\* The mapping of a list that names each trace once.
MarksOf(list) ==
  [t \in {list[i].id : i \in 1 .. Len(list)} |->
     list[CHOOSE i \in 1 .. Len(list) : list[i].id = t].addedAt]

\* Looking a trace up finds its entry.
LEMMA Lookup ==
  ASSUME NEW list, Len(list) \in Nat,
         \A i, j \in 1 .. Len(list) : i < j => list[i].id # list[j].id,
         NEW k \in 1 .. Len(list)
  PROVE  list[k].id \in DOMAIN MarksOf(list) /\ MarksOf(list)[list[k].id] = list[k].addedAt
<1> DEFINE i == CHOOSE i \in 1 .. Len(list) : list[i].id = list[k].id
<1>1. i \in 1 .. Len(list) /\ list[i].id = list[k].id
  OBVIOUS
<1>2. list[k].id \in {list[j].id : j \in 1 .. Len(list)}
  OBVIOUS
<1>3. MarksOf(list)[list[k].id] = list[i].addedAt
  BY <1>2 DEF MarksOf
<1> HIDE DEF i
<1>4. i = k
  <2>1. i < k \/ k < i \/ i = k
    BY <1>1
  <2> QED BY <1>1, <2>1
<1> QED BY <1>2, <1>3, <1>4 DEF MarksOf

\* The marked traces are those the list names.
LEMMA MarkedTraces ==
  ASSUME NEW list, NEW t \in DOMAIN MarksOf(list)
  PROVE  \E k \in 1 .. Len(list) :
           list[k].id = t /\ MarksOf(list)[t] = list[k].addedAt
<1>1. t \in {list[j].id : j \in 1 .. Len(list)}
  BY DEF MarksOf
<1> DEFINE i == CHOOSE i \in 1 .. Len(list) : list[i].id = t
<1>2. i \in 1 .. Len(list) /\ list[i].id = t
  BY <1>1
<1>3. MarksOf(list)[t] = list[i].addedAt
  BY <1>1 DEF MarksOf
<1> HIDE DEF i
<1> QED BY <1>2, <1>3

\* The map after AddInterest: pruning and renewing do what Marked says.
LEMMA MarksRenewed ==
  ASSUME TypeInv, ListInv, NEW tid \in TraceIDs, NEW n \in 0 .. Len(interest), PrunedTo(n),
         NEW new, new = Renewed(SubSeq(interest, 1, n), tid)
  PROVE  MarksOf(new) =
           [t \in {s \in DOMAIN Marks : now - Marks[s] < 2 * DecisionWait} \union {tid} |->
              IF t = tid THEN now ELSE Marks[t]]
<1> DEFINE list == SubSeq(interest, 1, n)
           kept == {s \in DOMAIN Marks : now - Marks[s] < 2 * DecisionWait}
           old  == MarksOf(interest)
<1>1. /\ list \in Seq(Entry) /\ Len(list) = n /\ ListOK(list)
      /\ \A k \in 1 .. n : list[k] = interest[k]
      /\ \A k \in 1 .. Len(interest) : k <= n <=> Young(interest[k])
  BY PrunedList
<1> HIDE DEF list
<1>2. /\ new \in Seq(Entry) /\ Len(new) >= 1 /\ new[1] = [id |-> tid, addedAt |-> now]
      /\ ListOK(new)
      /\ \A j \in 2 .. Len(new) : new[j].id # tid /\ \E k \in 1 .. Len(list) : new[j] = list[k]
      /\ \A k \in 1 .. Len(list) : list[k].id # tid => \E j \in 2 .. Len(new) : new[j] = list[k]
  <2>1. new = Renewed(list, tid)
    BY DEF list
  <2>2. /\ Renewed(list, tid) \in Seq(Entry) /\ Len(Renewed(list, tid)) >= 1
        /\ Renewed(list, tid)[1] = [id |-> tid, addedAt |-> now]
        /\ ListOK(Renewed(list, tid))
        /\ \A j \in 2 .. Len(Renewed(list, tid)) :
             /\ Renewed(list, tid)[j].id # tid
             /\ \E k \in 1 .. Len(list) : Renewed(list, tid)[j] = list[k]
        /\ \A k \in 1 .. Len(list) : list[k].id # tid =>
             \E j \in 2 .. Len(Renewed(list, tid)) : Renewed(list, tid)[j] = list[k]
    BY <1>1, RenewedList
  <2> QED BY ONLY <2>1, <2>2
<1>3. Marks = old
  BY DEF Marks, MarksOf
<1>4. ASSUME NEW k \in 1 .. Len(interest)
      PROVE  interest[k].id \in DOMAIN old /\ old[interest[k].id] = interest[k].addedAt
  <2>1. Len(interest) \in Nat
    BY DEF TypeInv, TypeOK
  <2> QED BY <2>1, Lookup DEF ListInv, ListOK
<1>5. ASSUME NEW t \in DOMAIN old
      PROVE  \E k \in 1 .. Len(interest) : interest[k].id = t /\ old[t] = interest[k].addedAt
  BY MarkedTraces
<1>6. ASSUME NEW j \in 1 .. Len(new)
      PROVE  new[j].id \in DOMAIN MarksOf(new) /\ MarksOf(new)[new[j].id] = new[j].addedAt
  <2>1. Len(new) \in Nat
    BY <1>2
  <2> QED BY <1>2, <2>1, Lookup DEF ListOK
<1>7. DOMAIN MarksOf(new) = {new[j].id : j \in 1 .. Len(new)}
  BY DEF MarksOf
<1> HIDE DEF old
<1>8. 1 \in 1 .. Len(new) /\ n \in Nat /\ Len(interest) \in Nat /\ n <= Len(interest)
  BY <1>2 DEF TypeInv, TypeOK
<1>9. ASSUME NEW j \in 2 .. Len(new)
      PROVE  new[j].id \in kept /\ new[j].id # tid /\ old[new[j].id] = new[j].addedAt
  <2>1. PICK k \in 1 .. n : new[j] = interest[k] /\ new[j].id # tid
    BY <1>1, <1>2
  <2>2. k \in 1 .. Len(interest) /\ k <= n
    BY <1>8
  <2>3. Young(interest[k])
    BY <1>1, <2>2
  <2> QED BY <1>3, <1>4, <2>1, <2>2, <2>3 DEF Young
<1>10. ASSUME NEW t \in kept, t # tid
       PROVE  \E j \in 2 .. Len(new) : new[j].id = t /\ new[j].addedAt = old[t]
  <2>1. PICK k \in 1 .. Len(interest) : interest[k].id = t /\ old[t] = interest[k].addedAt
    BY <1>3, <1>5
  <2>2. Young(interest[k])
    BY <1>3, <2>1 DEF Young
  <2>3. k \in 1 .. n
    BY <1>1, <1>8, <2>2
  <2> QED BY <1>1, <1>2, <1>10, <2>1, <2>3
<1>11. DOMAIN MarksOf(new) = kept \union {tid}
  <2>1. ASSUME NEW t \in DOMAIN MarksOf(new) PROVE t \in kept \union {tid}
    <3>1. PICK j \in 1 .. Len(new) : t = new[j].id
      BY <1>7
    <3>2. j = 1 \/ j \in 2 .. Len(new)
      BY <1>2
    <3> HIDE DEF kept
    <3> QED BY <1>2, <1>9, <3>1, <3>2
  <2>2. ASSUME NEW t \in kept \union {tid} PROVE t \in DOMAIN MarksOf(new)
    <3>1. CASE t = tid
      BY <1>2, <1>6, <1>8, <3>1
    <3>2. CASE t # tid
      <4>1. PICK j \in 2 .. Len(new) : new[j].id = t
        BY <1>10, <3>2
      <4>2. j \in 1 .. Len(new)
        BY <1>2
      <4> QED BY <1>6, <4>1, <4>2
    <3> QED BY <3>1, <3>2
  <2> QED BY <2>1, <2>2
<1>12. ASSUME NEW t \in kept \union {tid}
       PROVE  MarksOf(new)[t] = IF t = tid THEN now ELSE Marks[t]
  <2>1. CASE t = tid
    BY <1>2, <1>6, <1>8, <2>1
  <2>2. CASE t # tid
    <3>1. PICK j \in 2 .. Len(new) : new[j].id = t /\ new[j].addedAt = old[t]
      BY <1>10, <2>2
    <3>2. j \in 1 .. Len(new)
      BY <1>2
    <3> QED BY <1>3, <1>6, <2>2, <3>1, <3>2
  <2> QED BY <2>1, <2>2
<1> HIDE DEF kept
<1>13. MarksOf(new) = [t \in DOMAIN MarksOf(new) |-> MarksOf(new)[t]]
  BY DEF MarksOf
<1>14. MarksOf(new) = [t \in kept \union {tid} |-> IF t = tid THEN now ELSE Marks[t]]
  BY <1>11, <1>12, <1>13
<1> QED BY <1>14 DEF kept
-----------------------------------------------------------------------------
(* Close.                                                                  *)

\* The writer returns with nothing in hand, in the stage or in the channel, and
\* the sweeper after it.
DrainInv ==
  /\ draining => closed
  /\ draining /\ wreq = NoReq /\ wpc \in {"flush", "flushWait", "publish", "wake"}
       => writeCh = <<>>
  /\ wpc = "done" => draining /\ writeCh = <<>> /\ wreq = NoReq /\ stageN = 0
  /\ spc = "done" => closing

\* The drain loop ends only when the channel is empty and the stage flushed.
LEMMA DrainNext ==
  ASSUME ReservedIDs, Faults = {}, TypeInv, RingInv, Custody, ClosingInv, DrainInv, [Next]_vars
  PROVE  DrainInv'
<1> USE DEF DrainInv
<1>1. HandOK
  BY DEF Custody
<1>2. /\ wpc \in {"select", "done"} => wreq = NoReq
      /\ wpc \in {"large", "largeWait"} \/ chunksOut > 0 => wreq # NoReq /\ IsLarge(wreq.len)
      /\ chunksOut \in Nat /\ stageN \in Nat
  BY <1>1 DEF HandOK, TypeInv, TypeOK
<1>3. CASE WriterRecv
  <2>1. writeCh \in Seq(Slot) /\ writeCh # <<>>
    BY <1>3 DEF WriterRecv, TypeInv, TypeOK
  <2>2. Head(writeCh) # NoReq
    <3>1. Len(writeCh) >= 1 /\ Head(writeCh) = writeCh[1]
      BY <2>1
    <3>2. Received \in Nat /\ Received + 1 \in 1 .. Len(written)
      BY <3>1, Counters
    <3>3. writeCh[1].tid \in TraceIDs
      BY <3>1, <3>2 DEF Custody, QueueOK, WrittenOK
    <3> QED BY <3>1, <3>3 DEF NoReq, ReservedIDs
  <2>3. wpc' \in {"select", "panic", "flush", "large"} /\ (wpc' = "flush" => wreq' # NoReq)
    BY <1>3, <2>2 DEF WriterRecv, Stash
  <2> QED BY <1>3, <2>3 DEF WriterRecv, WriterStep
<1>4. CASE WriterTick
  BY <1>2, <1>4 DEF WriterTick, WriterStep
<1>5. CASE WriterClose
  BY <1>2, <1>5 DEF WriterClose, WriterStep
<1>6. CASE FlushWrite
  BY <1>6 DEF FlushWrite, WriterStep, CanFail
<1>7. CASE WriterFull \/ WriterFreed
  BY <1>2, <1>7 DEF WriterFull, WriterFreed, WriterStep
<1>8. CASE WriterGivesUp
  BY <1>2, <1>8 DEF WriterGivesUp, WriterStep, Over
<1>9. CASE LargeWrite
  BY <1>2, <1>9 DEF LargeWrite, WriterStep, CanFail
<1>10. CASE Publish
  BY <1>2, <1>10 DEF Publish, WriterStep
<1>11. CASE WakeSweeper
  BY <1>2, <1>11 DEF WakeSweeper, AfterFlush, Stash, WriterStep, Over
<1>12. CASE Sweeper
  <2>1. SweeperStep /\ (closing => closing') /\ (spc' = "done" => closing')
    BY <1>12 DEF Sweeper, SweepEmpty, SweepRead, SweepReadFail, SweepWake, SweepWriterDone,
         ScanEnd, ScanPayload, ScanTombstone, ScanPartial, ScanMatch, ScanUndecided, AgeEvict, AgeKeep,
         Writeback, Free, Signal, ScanStep, Consume
  <2> QED BY <2>1 DEF SweeperStep
<1>13. CASE ~Writer /\ ~Sweeper
  <2>1. /\ UNCHANGED <<draining, wreq, wpc, stageN, spc, closing>>
        /\ UNCHANGED <<closed, writeCh>> \/ (closed' /\ UNCHANGED writeCh)
             \/ (~closed /\ UNCHANGED closed)
    BY <1>13 DEF Next, Write, AddInterest, AddInterestWake, Close, Tick, TimerFire, Halted,
              SweeperStep, vars
  <2> QED BY <2>1
<1> QED BY <1>3, <1>4, <1>5, <1>6, <1>7, <1>8, <1>9, <1>10, <1>11, <1>12, <1>13 DEF Writer
-----------------------------------------------------------------------------
(* The mapping.                                                            *)

\* The state of the queue that a state of the buffer stands for.
Accepted == [d \in 1 .. Len(written) |-> [tid |-> written[d].tid, at |-> written[d].at]]
Fate     == [d \in 1 .. Len(written) |-> FateOf(d)]
Passed   == IF spc = "age" THEN Rec.data ELSE 0
Stopped  == wpc = "done" /\ spc = "done"

Fates == Outcomes \union {"waiting", "twice"}

\* A function on 1 .. n is a sequence of length n.
LEMMA FunctionSeq ==
  ASSUME NEW S, NEW n \in Nat, NEW f \in [1 .. n -> S]
  PROVE  f \in Seq(S) /\ Len(f) = n
OBVIOUS

\* Sequences with the same elements are the same.
LEMMA SameSeq ==
  ASSUME NEW S, NEW s \in Seq(S), NEW n \in Nat, Len(s) = n, NEW f,
         f = [i \in 1 .. n |-> f[i]], \A i \in 1 .. n : s[i] = f[i]
  PROVE  f = s
<1>1. s = [i \in 1 .. n |-> s[i]]
  BY LenProperties
<1> QED BY <1>1

\* Accepted and Fate are sequences with one element for each accepted record.
LEMMA QueueTypes ==
  ASSUME TypeInv
  PROVE  /\ Len(written) \in 0 .. MaxRecs
         /\ Fate \in Seq(Fates) /\ Len(Fate) = Len(written)
         /\ \A d \in 1 .. Len(written) : d \in Data /\ Fate[d] = FateOf(d)
         /\ Accepted \in Seq([tid : AnyID, at : Int]) /\ Len(Accepted) = Len(written)
         /\ \A d \in 1 .. Len(written) :
              Accepted[d] = [tid |-> written[d].tid, at |-> written[d].at]
<1>1. /\ Len(written) \in 0 .. MaxRecs /\ written \in Seq(Slot)
      /\ history \in [Data -> Seq(Outcomes)]
  BY DEF TypeInv, TypeOK
<1>2. \A d \in 1 .. Len(written) : d \in Data
  BY <1>1 DEF Data
<1>3. ASSUME NEW d \in 1 .. Len(written) PROVE FateOf(d) \in Fates
  <2>1. history[d] \in Seq(Outcomes)
    BY <1>1, <1>2
  <2> QED BY <2>1 DEF FateOf, Fates
<1>4. Fate \in [1 .. Len(written) -> Fates]
  BY <1>3 DEF Fate
<1>5. ASSUME NEW d \in 1 .. Len(written)
      PROVE  [tid |-> written[d].tid, at |-> written[d].at] \in [tid : AnyID, at : Int]
  <2>1. written[d] \in Slot
    BY <1>1
  <2> QED BY <2>1 DEF Slot
<1>6. Accepted \in [1 .. Len(written) -> [tid : AnyID, at : Int]]
  BY <1>5 DEF Accepted
<1>7. Len(written) \in Nat
  BY <1>1
<1>8. Fate \in Seq(Fates) /\ Len(Fate) = Len(written)
  BY <1>4, <1>7, FunctionSeq
<1>9. Accepted \in Seq([tid : AnyID, at : Int]) /\ Len(Accepted) = Len(written)
  BY <1>6, <1>7, FunctionSeq
<1> QED BY <1>1, <1>2, <1>8, <1>9 DEF Fate, Accepted

\* A step that touches nothing the queue shows.
LEMMA Stutter ==
  ASSUME UNCHANGED <<now, closed, interest, written, history>>,
         Passed' = Passed, Stopped' = Stopped
  PROVE  UNCHANGED Queue!vars
BY DEF Queue!vars, Marks, FateOf, Passed, Stopped

\* A record's fate is that of its history.
LEMMA FateKept ==
  ASSUME UNCHANGED <<written, history>>
  PROVE  Fate' = Fate
BY DEF Fate, FateOf

\* Write is Accept.
LEMMA WriteAccepts ==
  ASSUME ReliableInv, NEW tid \in TraceIDs, NEW len \in Lens, NEW lag \in 0 .. MaxLag,
         Write(tid, len, now - lag)
  PROVE  Queue!Next
<1>0. PICK at \in Int : at = now - lag
  BY DEF TypeInv, TypeOK, Times, ReliableInv, RecordInv
<1> DEFINE n == Len(written)
           r == [tid |-> tid, data |-> n + 1, len |-> len, at |-> at]
           q == [tid |-> tid, at |-> at]
<1>1. TypeInv /\ TypeInv' /\ Bounded
  <2>1. Next
    BY DEF Next
  <2> QED BY <2>1, TypeNext DEF ReliableInv, RecordInv, Whole
<1>2. /\ written' = Append(written, r) /\ n < MaxRecs /\ ~closed /\ at >= 0 /\ n \in Nat
      /\ written \in Seq(Slot)
      /\ UNCHANGED <<now, closed, interest, history, wpc, spc, scan>>
  BY <1>0, <1>1 DEF Write, TypeInv, TypeOK
<1>3. at \in 0 .. now
  BY <1>0, <1>1, <1>2 DEF TypeInv, TypeOK, Times
<1>4. r \in Slot /\ r.tid = tid /\ r.at = at
  BY <1>1, <1>2, <1>3 DEF Slot, AnyID, Data, TypeInv, TypeOK, Times
<1>5. Len(written') = n + 1 /\ written'[n + 1] = r /\ \A d \in 1 .. n : written'[d] = written[d]
  BY <1>2, <1>4, AppendProperties
<1>6. FateOf(n + 1) = "waiting" /\ \A d : FateOf(d)' = FateOf(d)
  <2>1. n + 1 \in Data /\ n + 1 \notin 1 .. n
    BY <1>2 DEF Data
  <2> QED BY <1>1, <1>2, <2>1 DEF FateOf, Bounded
<1> HIDE DEF r, n, q
<1>7. Fate' = Append(Fate, "waiting")
  <2>1. Fate \in Seq(Fates) /\ Len(Fate) = n /\ \A d \in 1 .. n : Fate[d] = FateOf(d)
    BY <1>1, QueueTypes DEF n
  <2>2. /\ Append(Fate, "waiting") \in Seq(Fates) /\ Len(Append(Fate, "waiting")) = n + 1
        /\ Append(Fate, "waiting")[n + 1] = "waiting"
        /\ \A d \in 1 .. n : Append(Fate, "waiting")[d] = FateOf(d)
    BY <2>1, AppendProperties DEF Fates
  <2>3. Fate' = [d \in 1 .. n + 1 |-> FateOf(d)]
    BY <1>5, <1>6 DEF Fate
  <2>4. \A d \in 1 .. n + 1 : Append(Fate, "waiting")[d] = FateOf(d)
    BY <1>2, <1>6, <2>2
  <2>5. Fate' = [d \in 1 .. n + 1 |-> Fate'[d]] /\ \A d \in 1 .. n + 1 : Fate'[d] = FateOf(d)
    BY <2>3
  <2>6. \A d \in 1 .. n + 1 : Append(Fate, "waiting")[d] = Fate'[d]
    BY <2>4, <2>5
  <2>7. n + 1 \in Nat
    BY <1>2
  <2> QED BY ONLY SMTT(30), <2>2, <2>5, <2>6, <2>7, SameSeq
<1>8. Accepted' = Append(Accepted, q)
  <2>1. /\ Accepted \in Seq([tid : AnyID, at : Int]) /\ Len(Accepted) = n
        /\ \A d \in 1 .. n : Accepted[d] = [tid |-> written[d].tid, at |-> written[d].at]
    BY <1>1, QueueTypes DEF n
  <2>2. q \in [tid : AnyID, at : Int]
    BY <1>3, <1>4 DEF q, Slot
  <2>3. /\ Append(Accepted, q) \in Seq([tid : AnyID, at : Int])
        /\ Len(Append(Accepted, q)) = n + 1
        /\ Append(Accepted, q)[n + 1] = q
        /\ \A d \in 1 .. n : Append(Accepted, q)[d] = [tid |-> written[d].tid, at |-> written[d].at]
    BY <2>1, <2>2, AppendProperties
  <2>4. \A d \in 1 .. n + 1 :
          Append(Accepted, q)[d] = [tid |-> written'[d].tid, at |-> written'[d].at]
    BY <1>2, <1>4, <1>5, <2>3 DEF q
  <2>5. Accepted' = [d \in 1 .. n + 1 |-> [tid |-> written'[d].tid, at |-> written'[d].at]]
    BY <1>5 DEF Accepted
  <2>6. /\ Accepted' = [d \in 1 .. n + 1 |-> Accepted'[d]]
        /\ \A d \in 1 .. n + 1 : Accepted'[d] = [tid |-> written'[d].tid, at |-> written'[d].at]
    BY <2>5
  <2>7. \A d \in 1 .. n + 1 : Append(Accepted, q)[d] = Accepted'[d]
    BY <2>4, <2>6
  <2>8. n + 1 \in Nat
    BY <1>2
  <2> QED BY ONLY SMTT(30), <2>3, <2>6, <2>7, <2>8, SameSeq
<1>9. Passed' = Passed /\ Stopped' = Stopped /\ Marks' = Marks
  BY <1>2 DEF Passed, Stopped, Marks, Rec
<1>10. Queue!Accept(tid, at)
  BY <1>2, <1>7, <1>8, <1>9 DEF Queue!Accept, Fate, Accepted, Passed, Stopped, q
<1>11. \E t \in TraceIDs, a \in 0 .. now : Queue!Accept(t, a)
  BY <1>3, <1>10
<1> QED BY <1>11 DEF Queue!Next

\* The invariant that the steps of the mapping need.
RefineInv == ReliableInv /\ ListInv /\ ClosingInv /\ DrainInv

\* The parts of it.
LEMMA RefineParts ==
  ASSUME RefineInv
  PROVE  /\ TypeInv /\ RingInv /\ Bounded /\ Custody /\ ReliableInv /\ ListInv /\ ClosingInv
         /\ DrainInv /\ Alive
BY DEF RefineInv, ReliableInv, RecordInv, Whole, NoStage

\* AddInterest marks the trace and forgets what is two decision waits old.
LEMMA AddInterestMarks ==
  ASSUME RefineInv, NEW tid \in TraceIDs, AddInterest(tid)
  PROVE  Queue!Next
<1>1. TypeInv /\ ListInv
  BY RefineParts
<1>2. PICK n \in 0 .. Len(interest) :
        PrunedTo(n) /\ interest' = Renewed(SubSeq(interest, 1, n), tid)
  BY DEF AddInterest
<1>3. MarksOf(interest') =
        [t \in {s \in DOMAIN Marks : now - Marks[s] < 2 * DecisionWait} \union {tid} |->
           IF t = tid THEN now ELSE Marks[t]]
  BY <1>1, <1>2, MarksRenewed
<1>4. Marks' = Queue!Marked(tid)
  <2>1. Marks' = MarksOf(interest')
    BY DEF Marks, MarksOf
  <2> QED BY <1>3, <2>1 DEF Queue!Marked
<1>5. UNCHANGED <<now, closed, written, history, wpc, spc, scan>>
  BY DEF AddInterest
<1>6. Passed' = Passed /\ Stopped' = Stopped /\ Fate' = Fate /\ Accepted' = Accepted
  BY <1>5, FateKept DEF Passed, Stopped, Accepted, Rec
<1>7. Queue!AddInterest(tid)
  BY <1>4, <1>5, <1>6 DEF Queue!AddInterest, Fate, Accepted, Passed, Stopped
<1> QED BY <1>7 DEF Queue!Next

\* Close is the queue's.
LEMMA CloseCloses ==
  ASSUME RefineInv, Close
  PROVE  Queue!Next
<1>1. ~closed /\ closed' = TRUE /\ UNCHANGED <<now, interest, written, history, wpc, spc, scan>>
  BY DEF Close
<1>2. /\ Passed' = Passed /\ Stopped' = Stopped /\ Fate' = Fate /\ Accepted' = Accepted
      /\ Marks' = Marks
  BY <1>1, FateKept DEF Passed, Stopped, Accepted, Rec, Marks
<1>3. Queue!Close
  BY <1>1, <1>2 DEF Queue!Close, Fate, Accepted, Passed, Stopped
<1> QED BY <1>3 DEF Queue!Next

\* So is the clock.
LEMMA TickTicks ==
  ASSUME RefineInv, Tick
  PROVE  Queue!Next
<1>1. now' = now + 1 /\ UNCHANGED <<closed, interest, written, history, wpc, spc, scan>>
  BY DEF Tick
<1>2. /\ Passed' = Passed /\ Stopped' = Stopped /\ Fate' = Fate /\ Accepted' = Accepted
      /\ Marks' = Marks
  BY <1>1, FateKept DEF Passed, Stopped, Accepted, Rec, Marks
<1>3. Queue!Tick
  BY <1>1, <1>2 DEF Queue!Tick, Fate, Accepted, Passed, Stopped
<1> QED BY <1>3 DEF Queue!Next

\* The queue's waiting records are those that have met no end.
LEMMA WaitingRecords ==
  ASSUME TypeInv, NEW d
  PROVE  d \in Queue!Waiting <=> d \in 1 .. Len(written) /\ history[d] = <<>>
<1>1. /\ Len(Fate) = Len(written)
      /\ \A e \in 1 .. Len(written) : e \in Data /\ Fate[e] = FateOf(e)
  BY QueueTypes
<1>2. Queue!Waiting = {e \in 1 .. Len(Fate) : Fate[e] = "waiting"}
  BY DEF Queue!Waiting, Fate
<1>3. ASSUME NEW e \in 1 .. Len(written) PROVE FateOf(e) = "waiting" <=> history[e] = <<>>
  <2>1. history[e] \in Seq(Outcomes)
    BY <1>1 DEF TypeInv, TypeOK
  <2>2. Len(history[e]) = 1 => history[e][1] \in Outcomes
    BY <2>1
  <2> QED BY <2>2 DEF FateOf, Outcomes
<1> QED BY <1>1, <1>2, <1>3

\* The first end that is recorded is the only one.
LEMMA FirstEnd ==
  ASSUME NEW g, g = <<>>, NEW o \in Outcomes, NEW h, h = Append(g, o)
  PROVE  Len(h) = 1 /\ h[1] = o /\ h # <<>>
<1>1. g \in Seq(Outcomes) /\ Len(g) = 0
  OBVIOUS
<1>2. Len(h) = 1 /\ h[1] = o
  BY <1>1, AppendProperties
<1> QED BY <1>2

\* A record that meets its first end gets that fate.
LEMMA OneEnds ==
  ASSUME TypeInv, NEW d \in 1 .. Len(written), history[d] = <<>>, NEW o \in Outcomes,
         history' = [history EXCEPT ![d] = Append(@, o)], UNCHANGED written
  PROVE  Fate' = [Fate EXCEPT ![d] = o]
<1>1. /\ Len(Fate) = Len(written) /\ d \in Data
      /\ \A e \in 1 .. Len(written) : e \in Data /\ Fate[e] = FateOf(e)
  BY QueueTypes
<1>2. history \in [Data -> Seq(Outcomes)]
  BY DEF TypeInv, TypeOK
<1>3. history'[d] = Append(history[d], o) /\ \A e \in Data : e # d => history'[e] = history[e]
  BY <1>1, <1>2
<1>4. FateOf(d)' = o
  <2>1. Len(history'[d]) = 1 /\ history'[d][1] = o /\ history'[d] # <<>>
    BY <1>3, FirstEnd
  <2> QED BY <2>1 DEF FateOf
<1>5. \A e \in 1 .. Len(written) : e # d => FateOf(e)' = FateOf(e)
  BY <1>1, <1>3 DEF FateOf
<1>6. Fate' = [e \in 1 .. Len(written) |-> IF e = d THEN o ELSE FateOf(e)]
  BY <1>4, <1>5 DEF Fate
<1> QED BY <1>6 DEF Fate

\* So do several.
LEMMA SeveralEnd ==
  ASSUME TypeInv, NEW ds, \A d \in ds : d \in 1 .. Len(written) /\ history[d] = <<>>,
         history' = Meet(ds, "dropped"), UNCHANGED written
  PROVE  Fate' = [e \in 1 .. Len(Fate) |-> IF e \in ds THEN "dropped" ELSE Fate[e]]
<1>1. /\ Len(Fate) = Len(written)
      /\ \A e \in 1 .. Len(written) : e \in Data /\ Fate[e] = FateOf(e)
  BY QueueTypes
<1>2. ASSUME NEW e \in 1 .. Len(written), e \in ds PROVE FateOf(e)' = "dropped"
  <2>1. history'[e] = Append(history[e], "dropped") /\ history[e] = <<>>
    BY <1>1, <1>2 DEF Meet
  <2>2. Len(history'[e]) = 1 /\ history'[e][1] = "dropped" /\ history'[e] # <<>>
    <3>1. "dropped" \in Outcomes
      BY DEF Outcomes
    <3> QED BY ONLY <2>1, <3>1, FirstEnd
  <2> QED BY <2>2 DEF FateOf
<1>3. ASSUME NEW e \in 1 .. Len(written), e \notin ds PROVE FateOf(e)' = FateOf(e)
  BY <1>1, <1>3 DEF FateOf, Meet
<1>4. Fate' = [e \in 1 .. Len(written) |-> IF e \in ds THEN "dropped" ELSE FateOf(e)]
  BY <1>2, <1>3 DEF Fate
<1> QED BY <1>1, <1>4

\* The sweeper's lookup is the queue's.
LEMMA MatchesIsInterest ==
  ASSUME TypeInv, ListInv, NEW d \in 1 .. Len(written)
  PROVE  Queue!Matches(d) <=> HasInterestForSpan(written[d].tid, written[d].at)
<1>1. Accepted[d] = [tid |-> written[d].tid, at |-> written[d].at]
  BY QueueTypes
<1>2. Queue!Matches(d) <=> /\ written[d].tid \in DOMAIN Marks
                           /\ Marks[written[d].tid] < written[d].at + DecisionWait
  BY <1>1 DEF Queue!Matches, Accepted
<1>3. Marks = MarksOf(interest)
  BY DEF Marks, MarksOf
<1>4. ASSUME NEW k \in 1 .. Len(interest)
      PROVE  interest[k].id \in DOMAIN Marks /\ Marks[interest[k].id] = interest[k].addedAt
  <2>1. Len(interest) \in Nat
    BY DEF TypeInv, TypeOK
  <2> QED BY <1>3, <2>1, Lookup DEF ListInv, ListOK
<1>5. ASSUME NEW t \in DOMAIN Marks
      PROVE  \E k \in 1 .. Len(interest) : interest[k].id = t /\ Marks[t] = interest[k].addedAt
  BY <1>3, MarkedTraces
<1> QED BY <1>2, <1>4, <1>5 DEF HasInterestForSpan

\* The record under the cursor waits, and is the one that Write accepted.
LEMMA CursorWaits ==
  ASSUME ReservedIDs, Faults = {}, RefineInv, AtRecord \/ spc = "age", Rec.tid # TombstoneID
  PROVE  /\ Rec.data \in 1 .. Len(written) /\ history[Rec.data] = <<>>
         /\ written[Rec.data].tid = Rec.tid /\ written[Rec.data].at = Rec.at
         /\ Rec.data \in Queue!Waiting
<1>1. TypeInv /\ RingInv /\ Custody
  BY RefineParts
<1>2. Held /\ scan.pos \in Idx(scan.page) /\ Rec = scan.page.slots[scan.pos]
  BY <1>1, CursorRecord
<1>3. used >= 1 /\ used \in Nat /\ Known(Rec)
  BY <1>1, <1>2, HeldPage
<1>4. Rec.data \in 1 .. Len(written) /\ Same(Rec, written[Rec.data])
  BY <1>3 DEF Known
<1>5. HeadView = scan.page /\ Slack = 0
  BY <1>2 DEF HeadView, Slack
<1>6. Len(history[Rec.data]) <= 0
  BY <1>1, <1>2, <1>3, <1>5 DEF Custody, HistHead
<1>7. history[Rec.data] = <<>>
  <2>1. Rec.data \in Data
    BY <1>1, <1>4, QueueTypes
  <2>2. history[Rec.data] \in Seq(Outcomes)
    BY <1>1, <2>1 DEF TypeInv, TypeOK
  <2> QED BY <1>6, <2>2
<1>8. Rec.data \in Queue!Waiting
  BY <1>1, <1>4, <1>7, WaitingRecords
<1> QED BY <1>4, <1>7, <1>8 DEF Same

\* onMatch is Deliver.
LEMMA MatchDelivers ==
  ASSUME ReservedIDs, Faults = {}, RefineInv, ScanMatch
  PROVE  Queue!Next
<1>1. TypeInv /\ RingInv /\ Custody /\ ListInv
  BY RefineParts
<1>2. /\ AtRecord /\ spc = "scan" /\ Rec.tid # TombstoneID /\ HasInterestForSpan(Rec.tid, Rec.at)
      /\ ScanStep /\ ~CanFail("chunk")
  BY DEF ScanMatch, Decidable, AtRecord, CanFail
<1>3. Consume("delivered")
  <2>1. ~(LargeRec /\ ~ChunksIntact)
    BY <1>1, <1>2, LargeIsIntact
  <2> QED BY <1>2, <2>1 DEF ScanMatch
<1>4. PICK d : d = Rec.data
  OBVIOUS
<1>5. /\ d \in 1 .. Len(written) /\ history[d] = <<>> /\ d \in Queue!Waiting
      /\ written[d].tid = Rec.tid /\ written[d].at = Rec.at
  BY <1>2, <1>4, CursorWaits
<1>6. Queue!Matches(d)
  BY <1>1, <1>2, <1>5, MatchesIsInterest
<1>7. /\ UNCHANGED <<now, closed, interest, written, wpc>>
      /\ history' = [history EXCEPT ![d] = Append(@, "delivered")]
      /\ spc' \in {"writeback", "scan"}
  BY <1>2, <1>3, <1>4 DEF ScanStep, SweeperStep, Consume
<1>8. Fate' = [Fate EXCEPT ![d] = "delivered"]
  BY <1>1, <1>5, <1>7, OneEnds DEF Outcomes
<1>9. Passed' = Passed /\ Stopped' = Stopped /\ Marks' = Marks /\ Accepted' = Accepted
  BY <1>2, <1>7 DEF Passed, Stopped, Marks, Accepted
<1>10. Queue!Deliver(d)
  BY <1>5, <1>6, <1>7, <1>8, <1>9 DEF Queue!Deliver, Fate, Accepted, Passed, Stopped
<1>11. Queue!Internal
  BY <1>5, <1>10 DEF Queue!Internal
<1> QED BY <1>11 DEF Queue!Next

\* The lookup that finds no decision is Pass.
LEMMA UndecidedPasses ==
  ASSUME ReservedIDs, Faults = {}, RefineInv, ScanUndecided
  PROVE  Queue!Next
<1>1. TypeInv /\ ListInv
  BY RefineParts
<1>2. /\ AtRecord /\ spc = "scan" /\ Rec.tid # TombstoneID /\ ~HasInterestForSpan(Rec.tid, Rec.at)
      /\ ScanStep /\ spc' = "age" /\ UNCHANGED <<scan, history>>
  BY DEF ScanUndecided, Decidable, AtRecord
<1>3. PICK d : d = Rec.data
  OBVIOUS
<1>4. /\ d \in 1 .. Len(written) /\ history[d] = <<>> /\ d \in Queue!Waiting
      /\ written[d].tid = Rec.tid /\ written[d].at = Rec.at
  BY <1>2, <1>3, CursorWaits
<1>5. ~Queue!Matches(d)
  BY <1>1, <1>2, <1>4, MatchesIsInterest
<1>6. UNCHANGED <<now, closed, interest, written, wpc>>
  BY <1>2 DEF ScanStep, SweeperStep
<1>7. Passed = 0 /\ Passed' = d
  BY <1>2, <1>3 DEF Passed, Rec
<1>8. Stopped' = Stopped /\ Marks' = Marks /\ Accepted' = Accepted /\ Fate' = Fate
  BY <1>2, <1>6, FateKept DEF Stopped, Marks, Accepted
<1>9. Queue!Pass(d)
  BY <1>4, <1>5, <1>6, <1>7, <1>8 DEF Queue!Pass, Fate, Accepted, Passed, Stopped
<1>10. Queue!Internal
  BY <1>4, <1>9 DEF Queue!Internal
<1> QED BY <1>10 DEF Queue!Next

\* The record that processPage passed is the one under the cursor.
LEMMA PassedRecord ==
  ASSUME ReservedIDs, Faults = {}, RefineInv, spc = "age"
  PROVE  /\ Rec.data \in 1 .. Len(written) /\ history[Rec.data] = <<>>
         /\ Rec.data \in Queue!Waiting /\ written[Rec.data].at = Rec.at
         /\ Passed = Rec.data /\ Rec.data # 0
<1>1. Rec.tid # TombstoneID
  BY RefineParts DEF RingInv, SweeperInv
<1>2. /\ Rec.data \in 1 .. Len(written) /\ history[Rec.data] = <<>>
      /\ Rec.data \in Queue!Waiting /\ written[Rec.data].at = Rec.at
  BY <1>1, CursorWaits
<1> QED BY <1>2 DEF Passed

\* evictObs is Evict.
LEMMA EvictEvicts ==
  ASSUME ReservedIDs, Faults = {}, RefineInv, AgeEvict
  PROVE  Queue!Next
<1> DEFINE o == IF Age >= DecisionWait THEN "evicted" ELSE "early"
<1>1. TypeInv
  BY RefineParts
<1>2. spc = "age" /\ Consume(o) /\ ScanStep
  BY DEF AgeEvict
<1>3. PICK d : d = Rec.data
  OBVIOUS
<1>4. /\ d \in 1 .. Len(written) /\ history[d] = <<>> /\ d \in Queue!Waiting
      /\ written[d].at = Rec.at /\ Passed = d
  BY <1>2, <1>3, PassedRecord
<1>5. Queue!Age(d) = Age
  <2>1. Accepted[d] = [tid |-> written[d].tid, at |-> written[d].at]
    BY <1>1, <1>4, QueueTypes
  <2>2. Accepted[d].at = Rec.at
    BY ONLY <1>4, <2>1
  <2> QED BY <2>2 DEF Queue!Age, Age, Accepted
<1>6. /\ UNCHANGED <<now, closed, interest, written, wpc>>
      /\ history' = [history EXCEPT ![d] = Append(@, o)]
      /\ spc' \in {"writeback", "scan"}
  BY <1>2, <1>3 DEF ScanStep, SweeperStep, Consume
<1>7. Fate' = [Fate EXCEPT ![d] = o]
  <2>1. o \in Outcomes
    BY DEF Outcomes
  <2> HIDE DEF o
  <2> QED BY <1>1, <1>4, <1>6, <2>1, OneEnds
<1>8. Passed' = 0 /\ Stopped' = Stopped /\ Marks' = Marks /\ Accepted' = Accepted
  BY <1>2, <1>6 DEF Passed, Stopped, Marks, Accepted
<1>9. Queue!Evict(d)
  BY <1>4, <1>5, <1>6, <1>7, <1>8 DEF Queue!Evict, Fate, Accepted, Passed, Stopped
<1>10. Queue!Internal
  BY <1>4, <1>9 DEF Queue!Internal
<1> QED BY <1>10 DEF Queue!Next

\* A record that is young and under no pressure is kept.
LEMMA KeepKeeps ==
  ASSUME ReservedIDs, Faults = {}, RefineInv, AgeKeep
  PROVE  Queue!Next
<1>1. spc = "age" /\ spc' \in {"writeback", "scan"} /\ UNCHANGED history /\ ScanStep
  BY DEF AgeKeep
<1>2. Passed # 0
  BY <1>1, PassedRecord
<1>3. UNCHANGED <<now, closed, interest, written, wpc>>
  BY <1>1 DEF ScanStep, SweeperStep
<1>4. /\ Passed' = 0 /\ Stopped' = Stopped /\ Marks' = Marks /\ Accepted' = Accepted
      /\ Fate' = Fate
  BY <1>1, <1>3, FateKept DEF Passed, Stopped, Marks, Accepted
<1>5. Queue!Keep
  BY <1>2, <1>3, <1>4 DEF Queue!Keep, Fate, Accepted, Passed, Stopped
<1>6. Queue!Internal
  BY <1>5 DEF Queue!Internal
<1> QED BY <1>6 DEF Queue!Next

\* A writer that gives up at Close drops what it has not written.
LEMMA GiveUpDrops ==
  ASSUME ReservedIDs, RefineInv, WriterGivesUp
  PROVE  [Queue!Next]_Queue!vars
<1>1. TypeInv /\ Custody /\ ClosingInv /\ DrainInv
  BY RefineParts
<1>2. PICK ds : ds = (IF wpc = "flushWait" THEN Staged ELSE {})
                       \union (IF wreq = NoReq THEN {} ELSE {wreq.data})
  OBVIOUS
<1>3. /\ history' = Meet(ds, "dropped") /\ closed /\ wpc \in {"flushWait", "largeWait"}
      /\ UNCHANGED <<now, closed, interest, written, spc, scan>>
  BY <1>2 DEF WriterGivesUp, WriterStep
<1>4. /\ Len(written) \in Nat /\ Len(written) <= MaxRecs /\ Received <= Len(written)
      /\ Done \in 0 .. Received /\ Received \in Nat
      /\ wreq # NoReq /\ ~Published => Done + 1 = Received
  BY <1>1, Counters
<1>5. ASSUME NEW d \in ds PROVE d \in 1 .. Len(written) /\ history[d] = <<>>
  <2>1. CASE d \in Staged
    <3>1. PICK j \in Idx(stage) : d = stage.slots[j].data
      BY <2>1 DEF Staged, Idx
    <3>2. d \in 1 .. Done /\ history[d] = <<>>
      BY <1>1, <3>1 DEF Custody, StageOK, HistWriter
    <3> QED BY <1>4, <3>2
  <2>2. CASE wreq # NoReq /\ d = wreq.data
    <3>1. ~Published
      BY <1>3 DEF Published
    <3>2. Received >= 1 /\ wreq = written[Received] /\ Received = Done + 1
      BY <1>1, <1>4, <2>2, <3>1 DEF Custody, HandOK
    <3>3. Received \in 1 .. Len(written) /\ Received > Done /\ Received \in Data
      BY <1>4, <3>2 DEF Data
    <3>4. d = Received
      BY <1>1, <2>2, <3>2, <3>3 DEF Custody, WrittenOK
    <3> QED BY <1>1, <3>3, <3>4 DEF Custody, HistWriter
  <2> QED BY <1>2, <2>1, <2>2
<1>6. Fate' = [e \in 1 .. Len(Fate) |-> IF e \in ds THEN "dropped" ELSE Fate[e]]
  BY <1>1, <1>3, <1>5, SeveralEnd
<1>7. ds \in SUBSET Queue!Waiting
  BY <1>1, <1>5, WaitingRecords
<1>8. Passed' = Passed /\ Stopped' = Stopped /\ Marks' = Marks /\ Accepted' = Accepted
  <2>1. spc # "done"
    BY <1>1, <1>3 DEF ClosingInv, DrainInv
  <2> QED BY <1>3, <2>1 DEF Passed, Stopped, Marks, Accepted, Rec
<1>9. CASE ds = {}
  <2>1. history' = history
    BY <1>1, <1>3, <1>9 DEF Meet, TypeInv, TypeOK
  <2> QED BY <1>3, <1>8, <2>1, Stutter
<1>10. CASE ds # {}
  <2>1. Queue!Drop(ds)
    BY <1>3, <1>6, <1>7, <1>8, <1>10 DEF Queue!Drop, Fate, Accepted, Passed, Stopped
  <2>2. Queue!Internal
    BY <1>7, <2>1 DEF Queue!Internal
  <2> QED BY <2>2 DEF Queue!Next
<1> QED BY <1>9, <1>10

\* The sweeper returns, and with it Close, when nothing is left.
LEMMA SweeperStops ==
  ASSUME ReservedIDs, RefineInv, SweepEmpty
  PROVE  [Queue!Next]_Queue!vars
<1>1. TypeInv /\ RingInv /\ Custody /\ ClosingInv /\ DrainInv /\ Alive
  BY RefineParts
<1>2. /\ spc = "top" /\ used = 0 /\ spc' = (IF closing THEN "done" ELSE "wait")
      /\ UNCHANGED <<now, closed, interest, written, history, wpc, scan>>
  BY DEF SweepEmpty, ScanStep, SweeperStep
<1>3. CASE ~closing
  <2>1. Passed' = Passed /\ Stopped' = Stopped
    BY <1>2, <1>3 DEF Passed, Stopped
  <2> QED BY <1>2, <2>1, Stutter
<1>4. CASE closing
  <2>1. wpc = "done" /\ closed /\ writeCh = <<>> /\ wreq = NoReq /\ stageN = 0
    BY <1>1, <1>4 DEF ClosingInv, DrainInv
  <2>2. ASSUME NEW d \in Queue!Waiting PROVE FALSE
    <3>1. d \in 1 .. Len(written) /\ history[d] = <<>>
      BY <1>1, WaitingRecords
    <3>2. Queued(d) \/ InHand(d) \/ InStage(d) \/ InRing(d)
      BY <1>1, <3>1, OnItsWay
    <3> QED BY <1>2, <2>1, <3>2 DEF Queued, InHand, InStage, InRing
  <2>3. Stopped' /\ ~Stopped /\ Stopped' = TRUE /\ Stopped = FALSE
    BY <1>2, <1>4, <2>1 DEF Stopped
  <2>4. Passed' = Passed /\ Marks' = Marks /\ Accepted' = Accepted /\ Fate' = Fate
    BY <1>2, FateKept DEF Passed, Marks, Accepted
  <2>5. Queue!Stop
    BY <1>2, <2>1, <2>2, <2>3, <2>4 DEF Queue!Stop, Fate, Accepted, Passed, Stopped
  <2>6. Queue!Internal
    BY <2>5 DEF Queue!Internal
  <2> QED BY <2>6 DEF Queue!Next
<1> QED BY <1>3, <1>4

\* The other steps of the writer are not the queue's.
LEMMA WriterStutters ==
  ASSUME ReservedIDs, Faults = {}, RefineInv, Writer, ~WriterGivesUp
  PROVE  UNCHANGED Queue!vars
<1>1. TypeInv /\ RingInv /\ Custody /\ ClosingInv /\ DrainInv
  BY RefineParts
<1>2. WriterStep
  BY DEF Writer, WriterRecv, WriterTick, WriterClose, FlushWrite, WriterFull,
         WriterFreed, LargeWrite, Publish, WakeSweeper
<1>3. wpc # "done"
  BY DEF Writer, WriterRecv, WriterTick, WriterClose, FlushWrite, WriterFull,
         WriterFreed, LargeWrite, Publish, WakeSweeper
<1>4. history' = history
  <2>1. CASE LargeWrite
    <3>1. Overwritten = {}
      BY <2>1, RefineParts DEF LargeWrite, ReliableInv, NoStage, Overwritten, Staged
    <3>2. Meet(Overwritten, "overwritten") = history
      BY <1>1, <3>1 DEF Meet, TypeInv, TypeOK
    <3> QED BY <2>1, <3>2 DEF LargeWrite, CanFail
  <2>2. CASE ~LargeWrite
    BY <2>2 DEF Writer, WriterRecv, WriterTick, WriterClose, FlushWrite, WriterFull,
         WriterFreed, Publish, WakeSweeper, CanFail
  <2> QED BY <2>1, <2>2
<1>5. Passed' = Passed /\ Stopped' = Stopped
  BY <1>1, <1>2, <1>3 DEF WriterStep, Passed, Stopped, Rec, ClosingInv, DrainInv
<1> QED BY <1>2, <1>4, <1>5, Stutter DEF WriterStep

\* Nor are the sweeper's.
LEMMA SweeperStutters ==
  ASSUME ReservedIDs, Faults = {}, RefineInv, Sweeper,
         ~SweepEmpty, ~ScanMatch, ~ScanUndecided, ~AgeEvict, ~AgeKeep
  PROVE  UNCHANGED Queue!vars
<1>1. \/ SweepRead \/ SweepReadFail \/ SweepWake \/ SweepWriterDone \/ ScanEnd \/ ScanTombstone
      \/ ScanPartial \/ Writeback \/ Free \/ Signal
  <2>1. TypeInv /\ RingInv /\ Custody /\ ContOK
    BY RefineParts DEF ReliableInv, RecordInv, Whole, NoStage
  <2> QED BY <2>1, NoPayload DEF Sweeper
<1>2. /\ SweeperStep /\ UNCHANGED history
      /\ spc \notin {"age", "done"} /\ spc' \notin {"age", "done"}
  BY <1>1 DEF SweepRead, SweepReadFail, SweepWake, SweepWriterDone, ScanEnd, ScanTombstone,
       ScanPartial, Writeback, Free, Signal, ScanStep, AtRecord, CanFail
<1>3. Passed' = Passed /\ Stopped' = Stopped
  BY <1>2 DEF Passed, Stopped
<1> QED BY <1>2, <1>3, Stutter DEF SweeperStep

\* Every step of the buffer is a step of the queue or none.
LEMMA StepRefines ==
  ASSUME ReservedIDs, Faults = {}, RefineInv, [Next]_vars
  PROVE  [Queue!Next]_Queue!vars
<1>1. CASE \E tid \in TraceIDs, len \in Lens, lag \in 0 .. MaxLag : Write(tid, len, now - lag)
  BY <1>1, RefineParts, WriteAccepts
<1>2. CASE \E tid \in TraceIDs : AddInterest(tid)
  BY <1>2, AddInterestMarks
<1>3. CASE Close \/ Tick
  BY <1>3, CloseCloses, TickTicks
<1>4. CASE Writer
  BY <1>4, GiveUpDrops, WriterStutters
<1>5. CASE Sweeper
  BY <1>5, SweeperStops, MatchDelivers, UndecidedPasses, EvictEvicts, KeepKeeps, SweeperStutters
<1>6. CASE AddInterestWake \/ (\E t \in timers : TimerFire(t)) \/ Halted \/ UNCHANGED vars
  <2>1. UNCHANGED <<now, closed, interest, written, history, wpc, spc, scan>>
    BY <1>6 DEF AddInterestWake, TimerFire, Halted, SweeperStep, vars
  <2>2. Passed' = Passed /\ Stopped' = Stopped
    BY <2>1 DEF Passed, Stopped, Rec
  <2> QED BY <2>1, <2>2, Stutter
<1> QED BY <1>1, <1>2, <1>3, <1>4, <1>5, <1>6 DEF Next

\* The queue starts empty.
LEMMA InitRefines == ASSUME Init PROVE Queue!Init
<1>1. /\ now = 0 /\ closed = FALSE /\ interest = <<>> /\ written = <<>>
      /\ wpc = "select" /\ spc = "top"
  BY DEF Init
<1>2. 1 .. Len(written) = {} /\ 1 .. Len(interest) = {}
  BY <1>1
<1>3. Accepted = <<>> /\ Fate = <<>> /\ Marks = <<>>
  BY <1>2 DEF Accepted, Fate, Marks
<1>4. Passed = 0 /\ Stopped = FALSE
  BY <1>1 DEF Passed, Stopped
<1> QED BY <1>1, <1>3, <1>4 DEF Queue!Init, Accepted, Fate, Passed, Stopped

(* The buffer implements the queue while its file operations succeed: what *)
(* callers see of two goroutines, a ring of pages and an interest list is  *)
(* a bag of records, each handed over once on a mark made in its window or *)
(* given up once after it was found undecided, marks that last two         *)
(* decision waits, and a Close that returns when nothing is left.          *)
THEOREM BufferIsQueue ==
  ASSUME ReservedIDs, Faults = {}
  PROVE  Spec => ImplementsQueue
<1>1. PagesSucceed
  BY DEF PagesSucceed
<1>2. Init => RefineInv
  <2> SUFFICES ASSUME Init PROVE RefineInv
    OBVIOUS
  <2>1. ListInv /\ ClosingInv /\ DrainInv
    BY DEF Init, ListInv, ListOK, ClosingInv, DrainInv
  <2> QED BY <2>1, ReliableInit DEF RefineInv
<1>3. RefineInv /\ [Next]_vars => RefineInv'
  <2> SUFFICES ASSUME RefineInv, [Next]_vars PROVE RefineInv'
    OBVIOUS
  <2>1. ReliableInv' /\ ListInv' /\ ClosingInv'
    BY <1>1, RefineParts, ReliableNext, ListNext, ClosingNext
  <2>2. DrainInv'
    BY RefineParts, DrainNext
  <2> QED BY <2>1, <2>2 DEF RefineInv
<1>4. Init => Queue!Init
  BY InitRefines
<1>5. RefineInv /\ [Next]_vars => [Queue!Next]_Queue!vars
  BY StepRefines
<1> QED BY <1>2, <1>3, <1>4, <1>5, PTL DEF Spec, ImplementsQueue, Queue!Spec
=============================================================================
