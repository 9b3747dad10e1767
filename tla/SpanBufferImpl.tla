--------------------------- MODULE SpanBufferImpl ---------------------------
(***************************************************************************)
(* SpanBuffer implements SpanQueue: the refinement mapping.                *)
(***************************************************************************)
EXTENDS SpanBuffer

\* The interest list as a map: the linked list names a trace once.
Marks ==
  [t \in {interest[i].id : i \in 1 .. Len(interest)} |->
     interest[CHOOSE i \in 1 .. Len(interest) : interest[i].id = t].addedAt]

\* What became of payload d; a second outcome is none of the queue's.
FateOf(d) ==
  IF history[d] = <<>> THEN "waiting"
  ELSE IF Len(history[d]) = 1 THEN history[d][1] ELSE "twice"

Queue == INSTANCE SpanQueue WITH
  interest <- Marks,
  accepted <- [d \in 1 .. Len(written) |-> [tid |-> written[d].tid, at |-> written[d].at]],
  fate     <- [d \in 1 .. Len(written) |-> FateOf(d)],
  passed   <- IF spc = "age" THEN Rec.data ELSE 0,
  stopped  <- wpc = "done" /\ spc = "done"

(* The buffer does what SpanQueue promises: a record is handed over once,   *)
(* only on a decision made in its window, and given up only after the       *)
(* sweeper found it undecided; decisions are remembered for two             *)
(* decisionWaits whatever the order they come in; Close returns only when   *)
(* nothing is left.                                                         *)
ImplementsQueue == Queue!Spec
=============================================================================
