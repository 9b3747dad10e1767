--------------------------- MODULE MCCoordinator ---------------------------
(* Coordinator with small constants for TLC.                               *)
EXTENDS Coordinator, TLC

CONSTANTS c1, c2, s1, s2

\* One coordinator with both streams; two that share a Redis, a stream each.
Single  == [distributed |-> FALSE, at |-> (s1 :> c1) @@ (s2 :> c1)]
Sharing == [distributed |-> TRUE,  at |-> (s1 :> c1) @@ (s2 :> c2)]

Either == {Single, Sharing}
Redis  == {Sharing}

\* Nothing tells trace IDs apart.
TraceSymmetry == Permutations(TraceIDs)
=============================================================================
