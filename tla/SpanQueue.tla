----------------------------- MODULE SpanQueue -----------------------------
(***************************************************************************)
(* What the span buffer promises the processor, without pages, goroutines  *)
(* or a file: a bag of accepted records, each of which is handed over once *)
(* or given up once, and a set of decided traces.                          *)
(*                                                                         *)
(* The promise is made for file operations that succeed.  SpanBuffer is    *)
(* shown to implement it (SpanBufferImpl); Processor is built on it.       *)
(***************************************************************************)
EXTENDS Integers, Sequences

CONSTANTS
  TraceIDs,
  DecisionWait   \* decisionWait

VARIABLES
  now,        \* the clock
  interest,   \* when each trace of the interest set was last marked
  accepted,   \* the records Write accepted, in order: trace and insertedAt
  fate,       \* what became of each of them
  passed,     \* the record the sweeper found undecided, 0 for none
  closed,     \* Close has been called
  stopped     \* Close has returned

vars == <<now, interest, accepted, fate, passed, closed, stopped>>

\* The records still in the buffer.
Waiting == {d \in 1 .. Len(fate) : fate[d] = "waiting"}

\* HasInterest: the trace was marked less than decisionWait ago.
HasInterest(tid) ==
  tid \in DOMAIN interest /\ now - interest[tid] < DecisionWait

\* Mutant: a mark made after the window counts as well.
MatchesLate(d) == accepted[d].tid \in DOMAIN interest

\* The trace of record d was marked before the record's own window closed.
Matches(d) ==
  /\ accepted[d].tid \in DOMAIN interest
  /\ interest[accepted[d].tid] < accepted[d].at + DecisionWait

Age(d) == now - accepted[d].at
-----------------------------------------------------------------------------
\* Write returns nil: the record is accepted.
Accept(tid, at) ==
  /\ ~closed
  /\ accepted' = Append(accepted, [tid |-> tid, at |-> at])
  /\ fate' = Append(fate, "waiting")
  /\ UNCHANGED <<now, interest, passed, closed, stopped>>

\* Mutant: marks are forgotten after one decisionWait.
MarkedOnce(tid) ==
  LET kept == {t \in DOMAIN interest : now - interest[t] < DecisionWait}
  IN  [t \in kept \union {tid} |-> IF t = tid THEN now ELSE interest[t]]

\* The interest set after tid is marked: what is two decisionWaits old goes.
Marked(tid) ==
  LET kept == {t \in DOMAIN interest : now - interest[t] < 2 * DecisionWait}
  IN  [t \in kept \union {tid} |-> IF t = tid THEN now ELSE interest[t]]

AddInterest(tid) ==
  /\ interest' = Marked(tid)
  /\ UNCHANGED <<now, accepted, fate, passed, closed, stopped>>

\* onMatch: a record whose trace was marked in time is handed over.
Deliver(d) ==
  /\ d \in Waiting /\ Matches(d)
  /\ fate' = [fate EXCEPT ![d] = "delivered"]
  /\ UNCHANGED <<now, interest, accepted, passed, closed, stopped>>

(* The sweeper finds a record undecided; a mark that is made from here on   *)
(* comes too late for the give-up that may follow.                          *)
Pass(d) ==
  /\ passed = 0
  /\ d \in Waiting /\ ~Matches(d)
  /\ passed' = d
  /\ UNCHANGED <<now, interest, accepted, fate, closed, stopped>>

Keep ==
  /\ passed # 0
  /\ passed' = 0
  /\ UNCHANGED <<now, interest, accepted, fate, closed, stopped>>

\* evictObs: the record is given up, when its window is over or under pressure.
Evict(d) ==
  /\ passed = d /\ d \in Waiting
  /\ fate' = [fate EXCEPT ![d] = IF Age(d) >= DecisionWait THEN "evicted" ELSE "early"]
  /\ passed' = 0
  /\ UNCHANGED <<now, interest, accepted, closed, stopped>>

\* A ring that is full at shutdown costs the records that are not in it yet.
Drop(ds) ==
  /\ closed /\ ds # {} /\ ds \subseteq Waiting
  /\ fate' = [d \in 1 .. Len(fate) |-> IF d \in ds THEN "dropped" ELSE fate[d]]
  /\ UNCHANGED <<now, interest, accepted, passed, closed, stopped>>

Close ==
  /\ ~closed
  /\ closed' = TRUE
  /\ UNCHANGED <<now, interest, accepted, fate, passed, stopped>>

\* Close returns when nothing is left.
Stop ==
  /\ closed /\ ~stopped /\ Waiting = {}
  /\ stopped' = TRUE
  /\ UNCHANGED <<now, interest, accepted, fate, passed, closed>>

Tick ==
  /\ now' = now + 1
  /\ UNCHANGED <<interest, accepted, fate, passed, closed, stopped>>
-----------------------------------------------------------------------------
Init ==
  /\ now = 0 /\ interest = <<>>
  /\ accepted = <<>> /\ fate = <<>>
  /\ passed = 0 /\ closed = FALSE /\ stopped = FALSE

\* What the buffer does on its own.
Internal ==
  \/ \E d \in Waiting : Deliver(d) \/ Pass(d) \/ Evict(d)
  \/ Keep
  \/ \E ds \in SUBSET Waiting : Drop(ds)
  \/ Stop

Next ==
  \/ \E tid \in TraceIDs, at \in 0 .. now : Accept(tid, at)
  \/ \E tid \in TraceIDs : AddInterest(tid)
  \/ Internal
  \/ Close
  \/ Tick

Spec == Init /\ [][Next]_vars
=============================================================================
