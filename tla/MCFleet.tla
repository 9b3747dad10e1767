------------------------------ MODULE MCFleet ------------------------------
(* Fleet with small constants for TLC.                                     *)
EXTENDS Fleet, TLC

CONSTANTS c1, c2, p1, p2

\* Two clients behind one local coordinator, or behind one each.
Together == [home |-> (c1 :> p1) @@ (c2 :> p1), notifies |-> 2, closers |-> {c1, p1}]
Apart    == [home |-> (c1 :> p1) @@ (c2 :> p2), notifies |-> 1, closers |-> {c1, p1}]
Both     == {Together, Apart}
=============================================================================
