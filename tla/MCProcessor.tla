---------------------------- MODULE MCProcessor ----------------------------
(* Processor with small constants for TLC.                                 *)
EXTENDS Processor, TLC

CONSTANTS t1, t2, c1, c2

S(n, t) == [id |-> n, tid |-> t]

\* One span.
One == <<[res |-> "a", scopes |-> <<[scope |-> "x", spans |-> <<S(1, t1)>>]>>]>>

(* Two traces interleaved over two resources with equal contents, the first *)
(* with two equal scopes and an empty one.                                  *)
Mixed ==
  <<[res |-> "a", scopes |-> <<[scope |-> "x", spans |-> <<S(1, t1), S(2, t2), S(3, t1)>>],
                               [scope |-> "y", spans |-> <<>>],
                               [scope |-> "x", spans |-> <<S(4, t2), S(4, t2)>>]>>],
    [res |-> "a", scopes |-> <<[scope |-> "x", spans |-> <<S(5, t2), S(6, t1)>>]>>],
    [res |-> "b", scopes |-> <<>>]>>

SmallBatches == {One, Mixed}
Sym == Permutations({c1, c2})
=============================================================================
