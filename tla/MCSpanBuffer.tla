---------------------------- MODULE MCSpanBuffer ----------------------------
(* SpanBuffer with small constants for TLC.                                *)
EXTENDS SpanBufferImpl, TLC

CONSTANTS t1, t2

\* A page left by a previous process: one small record of t1, not consumed.
StaleSmall == {[slots |-> <<[tid |-> t1, data |-> 0, len |-> 1, at |-> 0]>>,
                cont |-> NoChunk]}
NoPages == {}
=============================================================================
