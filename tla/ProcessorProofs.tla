--------------------------- MODULE ProcessorProofs --------------------------
(* Theorems about the processor, for any number of callers, batches and     *)
(* traces.                                                                  *)
EXTENDS Processor, FiniteSetTheorems, SequenceTheorems, WellFoundedInduction, TLAPS
-----------------------------------------------------------------------------
(* groupByTrace.  The three loops are followed by induction over the spans  *)
(* of a ScopeSpans, the ScopeSpans of a ResourceSpans and the ResourceSpans *)
(* of a batch, for any batch; an induction is stated with the set of the    *)
(* numbers for which a claim holds (Upward).                                *)

\* A set of natural numbers that is not empty has a least member.
LEMMA LeastNat ==
  ASSUME NEW T, T \subseteq Nat, T # {}
  PROVE  \E m \in T : \A k \in T : m <= k
<1> DEFINE R == OpToRel(<, Nat)
<1>1. IsWellFoundedOn(R, Nat)
  BY NatLessThanWellFounded
<1>2. PICK m \in T : \A k \in T : ~ (<<k, m>> \in R)
  <2> HIDE DEF R
  <2> QED BY <1>1, WFMin, Zenon
<1>3. \A k \in T : ~ (k < m)
  BY <1>2 DEF OpToRel
<1> QED BY <1>3

\* A set that has m, and k + 1 with k, has all numbers from m to n.
LEMMA Upward ==
  ASSUME NEW m \in Nat, NEW n \in Nat, NEW G, m \in G,
         \A k \in m .. n - 1 : k \in G => k + 1 \in G
  PROVE  \A k \in m .. n : k \in G
<1> DEFINE T == (m .. n) \ G
<1> SUFFICES ASSUME T # {} PROVE FALSE
  OBVIOUS
<1>1. PICK k \in T : \A j \in T : k <= j
  <2>1. T \subseteq Nat
    OBVIOUS
  <2> HIDE DEF T
  <2> QED BY <2>1, LeastNat
<1>2. k - 1 \in m .. n - 1 /\ k - 1 \in G
  BY <1>1
<1> QED BY <1>1, <1>2

\* The function that FlattenSeq defines by recursion exists.
LEMMA FlattenExists ==
  ASSUME NEW S, NEW ss \in Seq(Seq(S)), Len(ss) # 0
  PROVE  \E g : g = [i \in 1 .. Len(ss) |-> IF i = 1 THEN ss[i] ELSE g[i - 1] \o ss[i]]
<1>0. PICK n \in Nat \ {0} : n = Len(ss) /\ ss \in [1 .. n -> Seq(S)]
  OBVIOUS
<1> DEFINE Rec(g, k) == \A i \in 1 .. k : g[i] = IF i = 1 THEN ss[i] ELSE g[i - 1] \o ss[i]
           G == {k \in 1 .. n : \E g \in [1 .. k -> Seq(S)] : Rec(g, k)}
<1>1. 1 \in G
  <2> DEFINE g == [i \in 1 .. 1 |-> ss[i]]
  <2>1. \A i \in 1 .. 1 : i = 1 /\ ss[i] \in Seq(S)
    OBVIOUS
  <2>2. g \in [1 .. 1 -> Seq(S)] /\ Rec(g, 1)
    BY <2>1
  <2> HIDE DEF g, Rec
  <2> QED BY <2>2
<1>2. ASSUME NEW k \in 1 .. n - 1, k \in G PROVE k + 1 \in G
  <2>1. PICK g \in [1 .. k -> Seq(S)] : Rec(g, k)
    BY <1>2
  <2> DEFINE h == [i \in 1 .. k + 1 |-> IF i = k + 1 THEN g[k] \o ss[k + 1] ELSE g[i]]
  <2>2. h \in [1 .. k + 1 -> Seq(S)]
    <3>1. g[k] \o ss[k + 1] \in Seq(S)
      BY <1>0
    <3> QED BY <3>1
  <2>3. ASSUME NEW i \in 1 .. k + 1 PROVE h[i] = IF i = 1 THEN ss[i] ELSE h[i - 1] \o ss[i]
    <3>1. CASE i = k + 1
      <4>1. h[i] = g[k] \o ss[i] /\ h[i - 1] = g[k] /\ i # 1
        BY <3>1
      <4> QED BY <4>1
    <3>2. CASE i \in 1 .. k
      <4>1. h[i] = g[i] /\ (i # 1 => h[i - 1] = g[i - 1])
        BY <3>2
      <4>2. g[i] = IF i = 1 THEN ss[i] ELSE g[i - 1] \o ss[i]
        BY <2>1, <3>2
      <4> QED BY <4>1, <4>2
    <3> QED BY <3>1, <3>2
  <2>4. Rec(h, k + 1)
    BY <2>3
  <2> HIDE DEF h, Rec
  <2> QED BY <2>2, <2>4
<1>3. n \in G
  <2>1. \A k \in 1 .. n - 1 : k \in G => k + 1 \in G
    BY <1>2
  <2>2. n \in 1 .. n
    OBVIOUS
  <2> HIDE DEF G
  <2> QED BY <1>1, <2>1, <2>2, Upward
<1>4. PICK g \in [1 .. n -> Seq(S)] : Rec(g, n)
  BY <1>3
<1>5. g = [i \in 1 .. n |-> IF i = 1 THEN ss[i] ELSE g[i - 1] \o ss[i]]
  BY <1>4
<1> QED BY <1>0, <1>5

\* g[i] is what the first i of the n sequences flatten to.
Flattens(g, ss, n) ==
  /\ \A i \in 1 .. n : g[i] = IF i = 1 THEN ss[i] ELSE g[i - 1] \o ss[i]
  /\ FlattenSeq(ss) = g[n]

\* FlattenSeq puts one sequence after the other.
LEMMA FlattenSteps ==
  ASSUME NEW S, NEW ss \in Seq(Seq(S)), Len(ss) # 0
  PROVE  \E g : Flattens(g, ss, Len(ss))
<1> DEFINE Rec(g) == [i \in 1 .. Len(ss) |-> IF i = 1 THEN ss[i] ELSE g[i - 1] \o ss[i]]
           F == CHOOSE g : g = Rec(g)
<1>1. FlattenSeq(ss) = F[Len(ss)]
  BY DEF FlattenSeq
<1>2. F = Rec(F)
  <2>1. \E g : g = Rec(g)
    BY FlattenExists
  <2> HIDE DEF Rec
  <2> QED BY <2>1
<1> HIDE DEF F
<1>3. \A i \in 1 .. Len(ss) : F[i] = IF i = 1 THEN ss[i] ELSE F[i - 1] \o ss[i]
  <2>1. \A i \in 1 .. Len(ss) : Rec(F)[i] = IF i = 1 THEN ss[i] ELSE F[i - 1] \o ss[i]
    OBVIOUS
  <2> HIDE DEF Rec
  <2> QED BY <1>2, <2>1
<1> HIDE DEF Rec
<1> QED BY <1>1, <1>3 DEF Flattens

\* No sequences flatten to nothing.
LEMMA FlattenEmpty ==
  ASSUME NEW S, NEW ss \in Seq(Seq(S)), Len(ss) = 0
  PROVE  FlattenSeq(ss) = <<>>
BY DEF FlattenSeq

\* What comes last in a sequence of sequences comes last when it is flattened.
LEMMA FlattenLast ==
  ASSUME NEW S, NEW n \in Nat, NEW ss \in [1 .. n + 1 -> Seq(S)], NEW rs, rs = [i \in 1 .. n |-> ss[i]]
  PROVE  FlattenSeq(ss) = FlattenSeq(rs) \o ss[n + 1] /\ FlattenSeq(rs) \in Seq(S)
<1>1. ss \in Seq(Seq(S)) /\ Len(ss) = n + 1 /\ rs \in Seq(Seq(S)) /\ Len(rs) = n
      /\ \A i \in 1 .. n : rs[i] = ss[i] /\ rs[i] \in Seq(S)
  OBVIOUS
<1>2. PICK f : /\ \A i \in 1 .. n + 1 : f[i] = IF i = 1 THEN ss[i] ELSE f[i - 1] \o ss[i]
               /\ FlattenSeq(ss) = f[n + 1]
  <2>1. Len(ss) # 0
    BY <1>1
  <2>2. \E f : Flattens(f, ss, Len(ss))
    BY <1>1, <2>1, FlattenSteps
  <2>3. \E f : Flattens(f, ss, n + 1)
    BY <1>1, <2>2
  <2> QED BY <2>3 DEF Flattens
<1>3. ss[n + 1] \in Seq(S)
  OBVIOUS
<1>4. CASE n = 0
  <2>1. FlattenSeq(rs) = <<>>
    BY <1>1, <1>4, FlattenEmpty
  <2>2. FlattenSeq(ss) = ss[n + 1]
    BY <1>2, <1>4
  <2>3. PICK x \in Seq(S) : x = ss[n + 1]
    BY <1>3
  <2>4. <<>> \o x = x /\ <<>> \in Seq(S)
    OBVIOUS
  <2> QED BY <2>1, <2>2, <2>3, <2>4
<1>5. CASE n # 0
  <2>1. PICK g : /\ \A i \in 1 .. n : g[i] = IF i = 1 THEN rs[i] ELSE g[i - 1] \o rs[i]
                 /\ FlattenSeq(rs) = g[n]
    <3>1. Len(rs) # 0
      BY <1>1, <1>5
    <3>2. \E g : Flattens(g, rs, Len(rs))
      BY <1>1, <3>1, FlattenSteps
    <3>3. \E g : Flattens(g, rs, n)
      BY <1>1, <3>2
    <3> QED BY <3>3 DEF Flattens
  <2> DEFINE G == {i \in 1 .. n : f[i] = g[i] /\ g[i] \in Seq(S)}
  <2>2. 1 \in G
    <3>1. f[1] = ss[1] /\ g[1] = rs[1] /\ rs[1] = ss[1] /\ ss[1] \in Seq(S)
      BY <1>1, <1>2, <1>5, <2>1
    <3> QED BY <1>5, <3>1
  <2>3. ASSUME NEW k \in 1 .. n - 1, k \in G PROVE k + 1 \in G
    <3>1. k + 1 \in 1 .. n /\ k + 1 \in 1 .. n + 1 /\ k + 1 # 1 /\ (k + 1) - 1 = k
      OBVIOUS
    <3>2. f[k + 1] = f[k] \o ss[k + 1] /\ g[k + 1] = g[k] \o rs[k + 1]
      BY <1>2, <2>1, <3>1
    <3>3. rs[k + 1] = ss[k + 1] /\ rs[k + 1] \in Seq(S)
      BY <1>1, <3>1
    <3>4. g[k] \o rs[k + 1] \in Seq(S)
      BY <2>3, <3>3
    <3> QED BY <2>3, <3>1, <3>2, <3>3, <3>4
  <2>4. n \in G
    <3>1. \A k \in 1 .. n - 1 : k \in G => k + 1 \in G
      BY <2>3
    <3>2. n \in 1 .. n
      BY <1>5
    <3> HIDE DEF G
    <3> QED BY <2>2, <3>1, <3>2, Upward
  <2>5. f[n + 1] = f[n] \o ss[n + 1]
    <3>1. n + 1 \in 1 .. n + 1 /\ n + 1 # 1 /\ (n + 1) - 1 = n
      BY <1>5
    <3> QED BY <1>2, <3>1
  <2> QED BY <1>2, <2>1, <2>4, <2>5
<1> QED BY <1>4, <1>5

\* Sequences over a set flatten to one over it.
LEMMA FlattenType ==
  ASSUME NEW S, NEW ss \in Seq(Seq(S))
  PROVE  FlattenSeq(ss) \in Seq(S)
<1>1. CASE Len(ss) = 0
  <2>1. FlattenSeq(ss) = <<>>
    BY <1>1, FlattenEmpty
  <2>2. <<>> \in Seq(S)
    OBVIOUS
  <2> QED BY <2>1, <2>2
<1>2. CASE Len(ss) # 0
  <2>1. PICK n \in Nat : Len(ss) = n + 1
    <3>1. Len(ss) - 1 \in Nat /\ Len(ss) = (Len(ss) - 1) + 1
      BY <1>2
    <3> QED BY <3>1
  <2>2. ss \in [1 .. n + 1 -> Seq(S)] /\ ss[n + 1] \in Seq(S)
    BY <2>1
  <2>3. PICK rs : rs = [i \in 1 .. n |-> ss[i]]
    OBVIOUS
  <2>4. FlattenSeq(ss) = FlattenSeq(rs) \o ss[n + 1] /\ FlattenSeq(rs) \in Seq(S)
    BY <2>2, <2>3, FlattenLast
  <2>5. PICK a \in Seq(S), b \in Seq(S) : FlattenSeq(ss) = a \o b
    BY <2>2, <2>4
  <2> QED BY <2>5
<1> QED BY <1>1, <1>2

\* The first k members of a sequence.
Pre(s, k) == [i \in 1 .. k |-> s[i]]

\* The first members of a sequence, up to all of them.
LEMMA Prefix ==
  ASSUME NEW S, NEW s \in Seq(S)
  PROVE  /\ Pre(s, Len(s)) = s /\ Len(s) \in Nat
         /\ \A k \in 0 .. Len(s) : /\ Pre(s, k) \in Seq(S) /\ Len(Pre(s, k)) = k
                                   /\ \A i \in 1 .. k : Pre(s, k)[i] = s[i]
<1>1. Pre(s, Len(s)) = s /\ Len(s) \in Nat
  BY DEF Pre
<1>2. ASSUME NEW k \in 0 .. Len(s)
      PROVE  /\ Pre(s, k) \in Seq(S) /\ Len(Pre(s, k)) = k
             /\ \A i \in 1 .. k : Pre(s, k)[i] = s[i]
  <2>1. \A i \in 1 .. k : s[i] \in S
    OBVIOUS
  <2>2. Pre(s, k) \in [1 .. k -> S] /\ k \in Nat
    BY <2>1 DEF Pre
  <2> QED BY <2>2 DEF Pre
<1> QED BY <1>1, <1>2

\* The first k + 1 of some pieces, flattened.
LEMMA PiecesStep ==
  ASSUME NEW S, NEW ps \in Seq(Seq(S))
  PROVE  /\ FlattenSeq(Pre(ps, 0)) = <<>>
         /\ \A k \in 0 .. Len(ps) : FlattenSeq(Pre(ps, k)) \in Seq(S)
         /\ \A k \in 0 .. Len(ps) - 1 :
              FlattenSeq(Pre(ps, k + 1)) = FlattenSeq(Pre(ps, k)) \o ps[k + 1]
<1>1. FlattenSeq(Pre(ps, 0)) = <<>>
  <2>1. Pre(ps, 0) \in Seq(Seq(S)) /\ Len(Pre(ps, 0)) = 0
    BY Prefix
  <2> QED BY <2>1, FlattenEmpty
<1>2. \A k \in 0 .. Len(ps) : FlattenSeq(Pre(ps, k)) \in Seq(S)
  <2>1. \A k \in 0 .. Len(ps) : Pre(ps, k) \in Seq(Seq(S))
    BY Prefix
  <2> QED BY <2>1, FlattenType
<1>3. ASSUME NEW k \in 0 .. Len(ps) - 1
      PROVE  FlattenSeq(Pre(ps, k + 1)) = FlattenSeq(Pre(ps, k)) \o ps[k + 1]
  <2>1. k \in Nat /\ k + 1 \in 1 .. k + 1 /\ \A i \in 1 .. k + 1 : ps[i] \in Seq(S)
    OBVIOUS
  <2>2. /\ Pre(ps, k + 1) \in [1 .. k + 1 -> Seq(S)]
        /\ Pre(ps, k) = [i \in 1 .. k |-> Pre(ps, k + 1)[i]]
        /\ Pre(ps, k + 1)[k + 1] = ps[k + 1]
    BY <2>1 DEF Pre
  <2>3. PICK q, r : q = Pre(ps, k + 1) /\ r = Pre(ps, k)
    OBVIOUS
  <2>4. q \in [1 .. k + 1 -> Seq(S)] /\ r = [i \in 1 .. k |-> q[i]] /\ q[k + 1] = ps[k + 1]
    BY <2>2, <2>3
  <2>5. FlattenSeq(q) = FlattenSeq(r) \o q[k + 1]
    BY <2>1, <2>4, FlattenLast
  <2> QED BY <2>3, <2>4, <2>5
<1> QED BY <1>1, <1>2, <1>3

\* A span as a part of trace t.
PartOf(x, t) == IF x.tid = t THEN <<x>> ELSE <<>>

\* The spans of trace t among the first k + 1 are those among the first k and,
\* if it is of the trace, the next.
LEMMA SpansStep ==
  ASSUME NEW T, NEW t, NEW spans \in Seq(Span(T))
  PROVE  /\ KeptSpans(Pre(spans, 0), t) = <<>>
         /\ \A k \in 0 .. Len(spans) : KeptSpans(Pre(spans, k), t) \in Seq(Span(T))
         /\ \A k \in 0 .. Len(spans) - 1 :
              KeptSpans(Pre(spans, k + 1), t) = KeptSpans(Pre(spans, k), t) \o PartOf(spans[k + 1], t)
<1> DEFINE One(i) == IF spans[i].tid = t THEN <<spans[i]>> ELSE <<>>
           ps == [i \in 1 .. Len(spans) |-> One(i)]
<1>1. /\ Len(spans) \in Nat /\ ps \in [1 .. Len(spans) -> Seq(Span(T))]
      /\ \A i \in 1 .. Len(spans) : ps[i] = One(i)
  OBVIOUS
<1>2. ps \in Seq(Seq(Span(T))) /\ Len(ps) = Len(spans)
  <2> HIDE DEF ps
  <2> QED BY <1>1
<1>3. ASSUME NEW k \in 0 .. Len(spans)
      PROVE  KeptSpans(Pre(spans, k), t) = FlattenSeq(Pre(ps, k))
  <2>1. Len(Pre(spans, k)) = k /\ \A i \in 1 .. k : Pre(spans, k)[i] = spans[i]
    BY Prefix
  <2>2. [i \in 1 .. k |-> IF Pre(spans, k)[i].tid = t THEN <<Pre(spans, k)[i]>> ELSE <<>>] = Pre(ps, k)
    BY <2>1 DEF Pre
  <2> HIDE DEF ps
  <2> QED BY <2>1, <2>2 DEF KeptSpans
<1> HIDE DEF ps
<1>4. \A k \in 0 .. Len(spans) - 1 : k + 1 \in 1 .. Len(spans) /\ k \in 0 .. Len(spans) /\ k + 1 \in 0 .. Len(spans)
  OBVIOUS
<1>5. 0 \in 0 .. Len(spans)
  BY <1>1
<1> HIDE DEF One
<1>6. \A k \in 0 .. Len(spans) - 1 :
        KeptSpans(Pre(spans, k + 1), t) = KeptSpans(Pre(spans, k), t) \o One(k + 1)
  BY <1>1, <1>2, <1>3, <1>4, PiecesStep
<1>7. \A k \in 0 .. Len(spans) - 1 : PartOf(spans[k + 1], t) = One(k + 1)
  BY DEF One, PartOf
<1> QED BY <1>2, <1>3, <1>5, <1>6, <1>7, PiecesStep

\* The spans of a trace are spans, and the prefix with all of them has them all.
LEMMA SpansType ==
  ASSUME NEW T, NEW t, NEW spans \in Seq(Span(T))
  PROVE  KeptSpans(spans, t) \in Seq(Span(T)) /\ KeptSpans(Pre(spans, Len(spans)), t) = KeptSpans(spans, t)
<1>1. Len(spans) \in 0 .. Len(spans) /\ Pre(spans, Len(spans)) = spans
  BY Prefix
<1> QED BY <1>1, SpansStep

\* A ScopeSpans keeps its scope, and is gone if the trace has no span there.
LEMMA ScopeType ==
  ASSUME NEW T, NEW t, NEW ss \in ScopeSpans(T)
  PROVE  /\ KeptScope(ss, t) \in Seq(ScopeSpans(T))
         /\ KeptScope(ss, t) = IF KeptSpans(ss.spans, t) = <<>> THEN <<>>
                               ELSE <<[scope |-> ss.scope, spans |-> KeptSpans(ss.spans, t)]>>
<1>1. PICK x \in Seq(Span(T)) : x = KeptSpans(ss.spans, t)
  BY SpansType DEF ScopeSpans
<1>2. [ss EXCEPT !.spans = x] = [scope |-> ss.scope, spans |-> x] /\ [scope |-> ss.scope, spans |-> x] \in ScopeSpans(T)
  BY DEF ScopeSpans
<1>3. PICK y \in ScopeSpans(T) : y = [scope |-> ss.scope, spans |-> x]
  BY <1>2
<1>4. <<y>> \in Seq(ScopeSpans(T)) /\ <<>> \in Seq(ScopeSpans(T))
  OBVIOUS
<1>5. KeptScope(ss, t) = IF x = <<>> THEN <<>> ELSE <<y>>
  BY <1>1, <1>2, <1>3 DEF KeptScope
<1> QED BY <1>1, <1>3, <1>4, <1>5

\* The same for the ScopeSpans, one at a time.
LEMMA ScopesStep ==
  ASSUME NEW T, NEW t, NEW scopes \in Seq(ScopeSpans(T))
  PROVE  /\ KeptScopes(Pre(scopes, 0), t) = <<>>
         /\ \A k \in 0 .. Len(scopes) : KeptScopes(Pre(scopes, k), t) \in Seq(ScopeSpans(T))
         /\ \A k \in 0 .. Len(scopes) - 1 :
              KeptScopes(Pre(scopes, k + 1), t) = KeptScopes(Pre(scopes, k), t) \o KeptScope(scopes[k + 1], t)
<1> DEFINE ps == [i \in 1 .. Len(scopes) |-> KeptScope(scopes[i], t)]
<1>1. /\ Len(scopes) \in Nat /\ ps \in [1 .. Len(scopes) -> Seq(ScopeSpans(T))]
      /\ \A i \in 1 .. Len(scopes) : ps[i] = KeptScope(scopes[i], t)
  BY ScopeType
<1>2. ps \in Seq(Seq(ScopeSpans(T))) /\ Len(ps) = Len(scopes)
  <2> HIDE DEF ps
  <2> QED BY <1>1
<1>3. ASSUME NEW k \in 0 .. Len(scopes)
      PROVE  KeptScopes(Pre(scopes, k), t) = FlattenSeq(Pre(ps, k))
  <2>1. Len(Pre(scopes, k)) = k /\ \A i \in 1 .. k : Pre(scopes, k)[i] = scopes[i]
    BY Prefix
  <2>2. [i \in 1 .. k |-> KeptScope(Pre(scopes, k)[i], t)] = Pre(ps, k)
    BY <2>1 DEF Pre
  <2> HIDE DEF ps
  <2> QED BY <2>1, <2>2 DEF KeptScopes
<1> HIDE DEF ps
<1>4. \A k \in 0 .. Len(scopes) - 1 : k + 1 \in 1 .. Len(scopes) /\ k \in 0 .. Len(scopes) /\ k + 1 \in 0 .. Len(scopes)
  OBVIOUS
<1>5. 0 \in 0 .. Len(scopes)
  BY <1>1
<1>6. \A k \in 0 .. Len(scopes) - 1 :
        KeptScopes(Pre(scopes, k + 1), t) = KeptScopes(Pre(scopes, k), t) \o KeptScope(scopes[k + 1], t)
  BY <1>1, <1>2, <1>3, <1>4, PiecesStep
<1> QED BY <1>2, <1>3, <1>5, <1>6, PiecesStep

\* The ScopeSpans kept for a trace are ScopeSpans.
LEMMA ScopesType ==
  ASSUME NEW T, NEW t, NEW scopes \in Seq(ScopeSpans(T))
  PROVE  KeptScopes(scopes, t) \in Seq(ScopeSpans(T)) /\ KeptScopes(Pre(scopes, Len(scopes)), t) = KeptScopes(scopes, t)
<1>1. Len(scopes) \in 0 .. Len(scopes) /\ Pre(scopes, Len(scopes)) = scopes
  BY Prefix
<1> QED BY <1>1, ScopesStep

\* A ResourceSpans keeps its resource, and is gone if nothing is left in it.
LEMMA ResourceType ==
  ASSUME NEW T, NEW t, NEW rs \in ResourceSpans(T)
  PROVE  /\ KeptResource(rs, t) \in Seq(ResourceSpans(T))
         /\ KeptResource(rs, t) = IF KeptScopes(rs.scopes, t) = <<>> THEN <<>>
                               ELSE <<[res |-> rs.res, scopes |-> KeptScopes(rs.scopes, t)]>>
<1>1. PICK x \in Seq(ScopeSpans(T)) : x = KeptScopes(rs.scopes, t)
  BY ScopesType DEF ResourceSpans
<1>2. [rs EXCEPT !.scopes = x] = [res |-> rs.res, scopes |-> x] /\ [res |-> rs.res, scopes |-> x] \in ResourceSpans(T)
  BY DEF ResourceSpans
<1>3. PICK y \in ResourceSpans(T) : y = [res |-> rs.res, scopes |-> x]
  BY <1>2
<1>4. <<y>> \in Seq(ResourceSpans(T)) /\ <<>> \in Seq(ResourceSpans(T))
  OBVIOUS
<1>5. KeptResource(rs, t) = IF x = <<>> THEN <<>> ELSE <<y>>
  BY <1>1, <1>2, <1>3 DEF KeptResource
<1> QED BY <1>1, <1>3, <1>4, <1>5

\* The same for the ResourceSpans.
LEMMA ResourcesStep ==
  ASSUME NEW T, NEW t, NEW td \in Seq(ResourceSpans(T))
  PROVE  /\ OfTrace(Pre(td, 0), t) = <<>>
         /\ \A k \in 0 .. Len(td) : OfTrace(Pre(td, k), t) \in Seq(ResourceSpans(T))
         /\ \A k \in 0 .. Len(td) - 1 :
              OfTrace(Pre(td, k + 1), t) = OfTrace(Pre(td, k), t) \o KeptResource(td[k + 1], t)
<1> DEFINE ps == [i \in 1 .. Len(td) |-> KeptResource(td[i], t)]
<1>1. /\ Len(td) \in Nat /\ ps \in [1 .. Len(td) -> Seq(ResourceSpans(T))]
      /\ \A i \in 1 .. Len(td) : ps[i] = KeptResource(td[i], t)
  BY ResourceType
<1>2. ps \in Seq(Seq(ResourceSpans(T))) /\ Len(ps) = Len(td)
  <2> HIDE DEF ps
  <2> QED BY <1>1
<1>3. ASSUME NEW k \in 0 .. Len(td)
      PROVE  OfTrace(Pre(td, k), t) = FlattenSeq(Pre(ps, k))
  <2>1. Len(Pre(td, k)) = k /\ \A i \in 1 .. k : Pre(td, k)[i] = td[i]
    BY Prefix
  <2>2. [i \in 1 .. k |-> KeptResource(Pre(td, k)[i], t)] = Pre(ps, k)
    BY <2>1 DEF Pre
  <2> HIDE DEF ps
  <2> QED BY <2>1, <2>2 DEF OfTrace
<1> HIDE DEF ps
<1>4. \A k \in 0 .. Len(td) - 1 : k + 1 \in 1 .. Len(td) /\ k \in 0 .. Len(td) /\ k + 1 \in 0 .. Len(td)
  OBVIOUS
<1>5. 0 \in 0 .. Len(td)
  BY <1>1
<1>6. \A k \in 0 .. Len(td) - 1 :
        OfTrace(Pre(td, k + 1), t) = OfTrace(Pre(td, k), t) \o KeptResource(td[k + 1], t)
  BY <1>1, <1>2, <1>3, <1>4, PiecesStep
<1> QED BY <1>2, <1>3, <1>5, <1>6, PiecesStep

\* The spans of a ScopeSpans replaced.
LEMMA SetSpans ==
  ASSUME NEW T, NEW h \in ScopeSpans(T), NEW b
  PROVE  [h EXCEPT !.spans = b] = [scope |-> h.scope, spans |-> b]
BY DEF ScopeSpans

\* The scopes of a ResourceSpans replaced.
LEMMA SetScopes ==
  ASSUME NEW T, NEW g \in ResourceSpans(T), NEW b
  PROVE  [g EXCEPT !.scopes = b] = [res |-> g.res, scopes |-> b]
BY DEF ResourceSpans

\* What has been appended to is not empty.
LEMMA AppendNotEmpty ==
  ASSUME NEW S, NEW q \in Seq(S), NEW y \in S
  PROVE  Append(q, y) # <<>>
<1>1. Len(Append(q, y)) = Len(q) + 1 /\ Len(q) \in Nat
  OBVIOUS
<1> QED BY <1>1

\* The last member of a sequence and its replacement.
LEMMA LastReplaced ==
  ASSUME NEW S, NEW q \in Seq(S), NEW y \in S, NEW z \in S
  PROVE  /\ Append(q, y)[Len(q) + 1] = y
         /\ [Append(q, y) EXCEPT ![Len(q) + 1] = z] = Append(q, z)
         /\ Append(q, y) # <<>>
<1>1. /\ Append(q, y) \in Seq(S) /\ Append(q, z) \in Seq(S) /\ Len(q) \in Nat
      /\ Len(Append(q, y)) = Len(q) + 1 /\ Len(Append(q, z)) = Len(q) + 1
      /\ \A i \in 1 .. Len(q) : Append(q, y)[i] = q[i] /\ Append(q, z)[i] = q[i]
      /\ Append(q, y)[Len(q) + 1] = y /\ Append(q, z)[Len(q) + 1] = z
  OBVIOUS
<1>2. PICK a, b : a = Append(q, y) /\ b = Append(q, z)
  OBVIOUS
<1>3. DOMAIN a = 1 .. Len(q) + 1 /\ DOMAIN b = 1 .. Len(q) + 1
      /\ a \in Seq(S) /\ b \in Seq(S)
  BY <1>1, <1>2
<1>4. ASSUME NEW i \in 1 .. Len(q) + 1 PROVE [a EXCEPT ![Len(q) + 1] = z][i] = b[i]
  <2>1. CASE i = Len(q) + 1
    BY <1>1, <1>2, <1>3, <2>1
  <2>2. CASE i # Len(q) + 1
    <3>1. i \in 1 .. Len(q) /\ a[i] = b[i]
      BY <1>1, <1>2, <2>2
    <3> QED BY <1>3, <2>2, <3>1
  <2> QED BY <2>1, <2>2
<1>5. [a EXCEPT ![Len(q) + 1] = z] = b
  <2>1. DOMAIN [a EXCEPT ![Len(q) + 1] = z] = DOMAIN b
    BY <1>3
  <2>2. [a EXCEPT ![Len(q) + 1] = z] = [i \in 1 .. Len(q) + 1 |-> [a EXCEPT ![Len(q) + 1] = z][i]]
    BY <1>3
  <2>3. b = [i \in 1 .. Len(q) + 1 |-> b[i]]
    BY <1>3
  <2> QED BY <1>4, <2>2, <2>3
<1>6. Append(q, y) # <<>>
  BY <1>1
<1> QED BY <1>1, <1>2, <1>5, <1>6

\* A group whose last ResourceSpans and last ScopeSpans are still being filled.
Filled(sc, a, b) == IF b = <<>> THEN a ELSE Append(a, [scope |-> sc, spans |-> b])
Whole(res, o, a) == IF a = <<>> THEN o ELSE Append(o, [res |-> res, scopes |-> a])

(* groupByTrace in ScopeSpans s of ResourceSpans r: by trace, group o of    *)
(* the ResourceSpans before, a of the ScopeSpans before, b of the spans     *)
(* before; rsMap and ssMap name the last members, and nothing further on.   *)
At(st, T, r, s, res, sc, O, A, B) ==
  /\ DOMAIN st = {"out", "rsMap", "ssMap"} /\ st.out = [t \in DOMAIN st.out |-> st.out[t]]
  /\ DOMAIN st.out = {t \in T : Whole(res, O[t], Filled(sc, A[t], B[t])) # <<>>}
  /\ \A t \in DOMAIN st.out : st.out[t] = Whole(res, O[t], Filled(sc, A[t], B[t]))
  /\ \A t \in T : <<t, r>> \in DOMAIN st.rsMap <=> Filled(sc, A[t], B[t]) # <<>>
  /\ \A t \in T : <<t, r>> \in DOMAIN st.rsMap => st.rsMap[<<t, r>>] = Len(O[t]) + 1
  /\ \A t \in T : <<t, r, s>> \in DOMAIN st.ssMap <=> B[t] # <<>>
  /\ \A t \in T : <<t, r, s>> \in DOMAIN st.ssMap => st.ssMap[<<t, r, s>>] = <<Len(O[t]) + 1, Len(A[t]) + 1>>
  /\ \A t \in T, q \in Nat : q > r => <<t, q>> \notin DOMAIN st.rsMap
  /\ \A t \in T, q, p \in Nat : q > r \/ (q = r /\ p > s) => <<t, q, p>> \notin DOMAIN st.ssMap

\* rst is st with a place for trace u in ResourceSpans r.
HasResource(st, rst, u, r, res, O, A) ==
  /\ DOMAIN rst = {"out", "rsMap", "ssMap"} /\ rst.ssMap = st.ssMap
  /\ DOMAIN rst.out = DOMAIN st.out \union {u}
  /\ \A t \in DOMAIN st.out \ {u} : rst.out[t] = st.out[t]
  /\ rst.out[u] = Append(O[u], [res |-> res, scopes |-> A[u]])
  /\ DOMAIN rst.rsMap = DOMAIN st.rsMap \union {<<u, r>>}
  /\ rst.rsMap[<<u, r>>] = Len(O[u]) + 1
  /\ \A x \in DOMAIN st.rsMap \ {<<u, r>>} : rst.rsMap[x] = st.rsMap[x]

\* WithResource: the trace of a span has the ResourceSpans.
LEMMA ResourceMade ==
  ASSUME NEW T, NEW td, NEW st, NEW r \in Nat, NEW s \in Nat, NEW res \in STRING, NEW sc \in STRING,
         NEW O \in [T -> Seq(ResourceSpans(T))], NEW A \in [T -> Seq(ScopeSpans(T))],
         NEW B \in [T -> Seq(Span(T))],
         At(st, T, r, s, res, sc, O, A, B), td[r].res = res, NEW u \in T, B[u] = <<>>,
         NEW rst, rst = WithResource(td, st, u, r)
  PROVE  HasResource(st, rst, u, r, res, O, A)
<1> USE DEF HasResource
<1>1. Filled(sc, A[u], B[u]) = A[u]
  BY DEF Filled
<1>2. CASE <<u, r>> \in DOMAIN st.rsMap
  <2>1. rst = st
    BY <1>2 DEF WithResource, RSKey
  <2>2. A[u] # <<>>
    BY <1>1, <1>2 DEF At
  <2>3. Whole(res, O[u], A[u]) = Append(O[u], [res |-> res, scopes |-> A[u]])
    BY <2>2 DEF Whole
  <2>4. Append(O[u], [res |-> res, scopes |-> A[u]]) # <<>>
    <3>1. O[u] \in Seq(ResourceSpans(T)) /\ [res |-> res, scopes |-> A[u]] \in ResourceSpans(T)
      BY DEF ResourceSpans
    <3>2. PICK q \in Seq(ResourceSpans(T)), y \in ResourceSpans(T) :
            q = O[u] /\ y = [res |-> res, scopes |-> A[u]]
      BY <3>1
    <3>3. Append(q, y) # <<>>
      BY AppendNotEmpty
    <3> QED BY <3>2, <3>3
  <2>5. u \in DOMAIN st.out
    BY <1>1, <2>3, <2>4 DEF At
  <2> QED BY <1>1, <1>2, <2>1, <2>3, <2>5 DEF At
<1>3. CASE <<u, r>> \notin DOMAIN st.rsMap
  <2>1. A[u] = <<>>
    BY <1>1, <1>3 DEF At
  <2>2. Whole(res, O[u], A[u]) = O[u]
    BY <2>1 DEF Whole
  <2> DEFINE t == IF u \in DOMAIN st.out THEN st.out[u] ELSE <<>>
             new == [res |-> res, scopes |-> <<>>]
  <2>3. t = O[u]
    BY <1>1, <2>2 DEF At
  <2>4. rst = [st EXCEPT !.out = With(@, u, Append(t, new)), !.rsMap = With(@, <<u, r>>, Len(t) + 1)]
    BY <1>3 DEF WithResource, RSKey
  <2>5. /\ DOMAIN rst = DOMAIN st /\ rst.out = With(st.out, u, Append(O[u], new))
        /\ rst.rsMap = With(st.rsMap, <<u, r>>, Len(O[u]) + 1) /\ rst.ssMap = st.ssMap
    <3> HIDE DEF t, new
    <3> QED BY <2>3, <2>4 DEF At
  <2>6. new = [res |-> res, scopes |-> A[u]]
    BY <2>1
  <2> HIDE DEF new, t
  <2>7. DOMAIN rst = {"out", "rsMap", "ssMap"}
    BY <2>5 DEF At
  <2>8. /\ DOMAIN rst.out = DOMAIN st.out \union {u}
        /\ \A x \in DOMAIN st.out \ {u} : rst.out[x] = st.out[x]
        /\ rst.out[u] = Append(O[u], new)
    <3>1. PICK f, v : f = st.out /\ v = Append(O[u], new)
      OBVIOUS
    <3>2. PICK g : g = With(f, u, v) /\ g = rst.out
      BY <2>5, <3>1
    <3>3. DOMAIN g = DOMAIN f \union {u} /\ g[u] = v /\ \A x \in DOMAIN f \ {u} : g[x] = f[x]
      BY <3>2 DEF With
    <3> QED BY <3>1, <3>2, <3>3
  <2>9. /\ DOMAIN rst.rsMap = DOMAIN st.rsMap \union {<<u, r>>}
        /\ rst.rsMap[<<u, r>>] = Len(O[u]) + 1
        /\ \A x \in DOMAIN st.rsMap \ {<<u, r>>} : rst.rsMap[x] = st.rsMap[x]
    <3>1. PICK f, k, v : f = st.rsMap /\ k = <<u, r>> /\ v = Len(O[u]) + 1
      OBVIOUS
    <3>2. PICK g : g = With(f, k, v) /\ g = rst.rsMap
      BY <2>5, <3>1
    <3>3. DOMAIN g = DOMAIN f \union {k} /\ g[k] = v /\ \A x \in DOMAIN f \ {k} : g[x] = f[x]
      BY <3>2 DEF With
    <3> QED BY <3>1, <3>2, <3>3
  <2> QED BY <2>5, <2>6, <2>7, <2>8, <2>9
<1> QED BY <1>2, <1>3

\* sst is st with a place for trace u in ScopeSpans s of ResourceSpans r.
HasScope(st, sst, u, r, s, res, sc, O, A, B) ==
  /\ DOMAIN sst = {"out", "rsMap", "ssMap"}
  /\ DOMAIN sst.out = DOMAIN st.out \union {u}
  /\ \A t \in DOMAIN st.out \ {u} : sst.out[t] = st.out[t]
  /\ sst.out[u] = Append(O[u], [res |-> res, scopes |->
                                  Append(A[u], [scope |-> sc, spans |-> B[u]])])
  /\ DOMAIN sst.rsMap = DOMAIN st.rsMap \union {<<u, r>>}
  /\ sst.rsMap[<<u, r>>] = Len(O[u]) + 1
  /\ \A x \in DOMAIN st.rsMap \ {<<u, r>>} : sst.rsMap[x] = st.rsMap[x]
  /\ DOMAIN sst.ssMap = DOMAIN st.ssMap \union {<<u, r, s>>}
  /\ sst.ssMap[<<u, r, s>>] = <<Len(O[u]) + 1, Len(A[u]) + 1>>
  /\ \A x \in DOMAIN st.ssMap \ {<<u, r, s>>} : sst.ssMap[x] = st.ssMap[x]

\* WithScope: it also has the ScopeSpans, with the spans met so far.
LEMMA ScopeMade ==
  ASSUME NEW T, NEW td, NEW st, NEW r \in Nat, NEW s \in Nat, NEW res \in STRING, NEW sc \in STRING,
         NEW O \in [T -> Seq(ResourceSpans(T))], NEW A \in [T -> Seq(ScopeSpans(T))],
         NEW B \in [T -> Seq(Span(T))],
         At(st, T, r, s, res, sc, O, A, B), td[r].res = res, td[r].scopes[s].scope = sc,
         NEW u \in T, NEW sst, sst = WithScope(td, st, u, r, s)
  PROVE  HasScope(st, sst, u, r, s, res, sc, O, A, B)
<1> USE DEF HasScope
<1> DEFINE a == Append(A[u], [scope |-> sc, spans |-> B[u]])
<1>0. /\ [scope |-> sc, spans |-> B[u]] \in ScopeSpans(T) /\ A[u] \in Seq(ScopeSpans(T))
      /\ a \in Seq(ScopeSpans(T)) /\ O[u] \in Seq(ResourceSpans(T))
      /\ [res |-> res, scopes |-> a] \in ResourceSpans(T)
      /\ [res |-> res, scopes |-> A[u]] \in ResourceSpans(T)
  <2>1. [scope |-> sc, spans |-> B[u]] \in ScopeSpans(T) /\ A[u] \in Seq(ScopeSpans(T))
    BY DEF ScopeSpans
  <2>2. a \in Seq(ScopeSpans(T))
    BY <2>1
  <2> HIDE DEF a
  <2> QED BY <2>1, <2>2 DEF ResourceSpans
<1>1. CASE <<u, r, s>> \in DOMAIN st.ssMap
  <2>1. sst = st /\ B[u] # <<>>
    BY <1>1 DEF WithScope, SSKey, At
  <2>2. Filled(sc, A[u], B[u]) = a /\ a # <<>>
    BY <1>0, <2>1, AppendNotEmpty DEF Filled
  <2>3. Whole(res, O[u], a) = Append(O[u], [res |-> res, scopes |-> a])
    BY <2>2 DEF Whole
  <2> HIDE DEF a
  <2>4. Append(O[u], [res |-> res, scopes |-> a]) # <<>>
    <3>1. PICK q \in Seq(ResourceSpans(T)), y \in ResourceSpans(T) :
            q = O[u] /\ y = [res |-> res, scopes |-> a]
      BY <1>0
    <3>2. Append(q, y) # <<>>
      BY AppendNotEmpty
    <3> QED BY <3>1, <3>2
  <2>5. u \in DOMAIN st.out /\ st.out[u] = Append(O[u], [res |-> res, scopes |-> a])
    BY <2>2, <2>3, <2>4 DEF At
  <2>6. <<u, r>> \in DOMAIN st.rsMap /\ st.rsMap[<<u, r>>] = Len(O[u]) + 1
    BY <2>2 DEF At
  <2>7. st.ssMap[<<u, r, s>>] = <<Len(O[u]) + 1, Len(A[u]) + 1>> /\ DOMAIN st = {"out", "rsMap", "ssMap"}
    BY <1>1 DEF At
  <2> QED BY <1>1, <2>1, <2>5, <2>6, <2>7 DEF a
<1>2. CASE <<u, r, s>> \notin DOMAIN st.ssMap
  <2>1. B[u] = <<>>
    BY <1>2 DEF At
  <2>2. PICK rst : rst = WithResource(td, st, u, r)
    OBVIOUS
  <2>13. HasResource(st, rst, u, r, res, O, A)
    BY <2>1, <2>2, ResourceMade
  <2>3. /\ DOMAIN rst = {"out", "rsMap", "ssMap"} /\ rst.ssMap = st.ssMap
        /\ DOMAIN rst.out = DOMAIN st.out \union {u}
        /\ \A t \in DOMAIN st.out \ {u} : rst.out[t] = st.out[t]
        /\ rst.out[u] = Append(O[u], [res |-> res, scopes |-> A[u]])
        /\ DOMAIN rst.rsMap = DOMAIN st.rsMap \union {<<u, r>>}
        /\ rst.rsMap[<<u, r>>] = Len(O[u]) + 1
        /\ \A x \in DOMAIN st.rsMap \ {<<u, r>>} : rst.rsMap[x] = st.rsMap[x]
    BY <2>13 DEF HasResource
  <2> DEFINE new == [scope |-> sc, spans |-> <<>>]
             n   == Len(O[u]) + 1
             m   == Len(rst.out[u][n].scopes) + 1
  <2>4. sst = [rst EXCEPT !.out[u][n].scopes = Append(@, new),
                          !.ssMap = With(@, <<u, r, s>>, <<n, m>>)]
    BY <1>2, <2>2, <2>3 DEF WithScope, RSKey, SSKey
  <2>5. rst.out[u][n] = [res |-> res, scopes |-> A[u]] /\ m = Len(A[u]) + 1
    <3>1. PICK q \in Seq(ResourceSpans(T)), y \in ResourceSpans(T) :
            q = O[u] /\ y = [res |-> res, scopes |-> A[u]]
      BY <1>0
    <3>2. Append(q, y)[Len(q) + 1] = y
      BY LastReplaced
    <3> QED BY <2>3, <3>1, <3>2
  <2> HIDE DEF m, n, new
  <2>6. /\ DOMAIN sst = DOMAIN rst /\ sst.rsMap = rst.rsMap
        /\ sst.ssMap = With(rst.ssMap, <<u, r, s>>, <<n, m>>)
        /\ sst.out = [rst.out EXCEPT ![u][n].scopes = Append(@, new)]
    BY <2>3, <2>4
  <2>7. [rst.out[u][n] EXCEPT !.scopes = Append(@, new)] = [res |-> res, scopes |-> a]
    <3>1. PICK y \in ResourceSpans(T) : y = rst.out[u][n] /\ y = [res |-> res, scopes |-> A[u]]
      BY <1>0, <2>5
    <3>2. y.res = res /\ y.scopes = A[u] /\ Append(A[u], new) = a
      BY <2>1, <3>1 DEF new
    <3>3. PICK b : b = Append(y.scopes, new)
      OBVIOUS
    <3>4. [y EXCEPT !.scopes = b] = [res |-> y.res, scopes |-> b]
      BY SetScopes
    <3> HIDE DEF a, new
    <3> QED BY <3>1, <3>2, <3>3, <3>4
  <2>8. sst.out = [rst.out EXCEPT ![u] = [rst.out[u] EXCEPT ![n] = [res |-> res, scopes |-> a]]]
    <3>1. sst.out = [rst.out EXCEPT ![u] = [rst.out[u] EXCEPT ![n] = [rst.out[u][n] EXCEPT !.scopes = Append(@, new)]]]
      BY <2>3, <2>6
    <3> QED BY <2>7, <3>1
  <2> HIDE DEF a
  <2>9. [rst.out[u] EXCEPT ![n] = [res |-> res, scopes |-> a]] = Append(O[u], [res |-> res, scopes |-> a])
    <3>1. PICK q \in Seq(ResourceSpans(T)), y \in ResourceSpans(T), z \in ResourceSpans(T) :
            q = O[u] /\ y = [res |-> res, scopes |-> A[u]] /\ z = [res |-> res, scopes |-> a]
      BY <1>0
    <3>2. [Append(q, y) EXCEPT ![Len(q) + 1] = z] = Append(q, z)
      BY LastReplaced
    <3> QED BY <2>3, <3>1, <3>2 DEF n
  <2>10. /\ DOMAIN sst.out = DOMAIN st.out \union {u}
         /\ \A t \in DOMAIN st.out \ {u} : sst.out[t] = st.out[t]
         /\ sst.out[u] = Append(O[u], [res |-> res, scopes |-> a])
    BY <2>3, <2>8, <2>9
  <2>11. /\ DOMAIN sst.ssMap = DOMAIN st.ssMap \union {<<u, r, s>>}
         /\ sst.ssMap[<<u, r, s>>] = <<n, m>>
         /\ \A x \in DOMAIN st.ssMap \ {<<u, r, s>>} : sst.ssMap[x] = st.ssMap[x]
    <3>1. PICK f, k, v : f = st.ssMap /\ k = <<u, r, s>> /\ v = <<n, m>>
      OBVIOUS
    <3>2. PICK g : g = With(f, k, v) /\ g = sst.ssMap
      BY <2>3, <2>6, <3>1
    <3>3. DOMAIN g = DOMAIN f \union {k} /\ g[k] = v /\ \A x \in DOMAIN f \ {k} : g[x] = f[x]
      BY <3>2 DEF With
    <3> QED BY <3>1, <3>2, <3>3
  <2>12. <<n, m>> = <<Len(O[u]) + 1, Len(A[u]) + 1>>
    BY <2>5 DEF n
  <2> QED BY <2>3, <2>6, <2>10, <2>11, <2>12 DEF a
<1> QED BY <1>1, <1>2

\* AddSpan appends the span to its place in the group of its trace.
LEMMA SpanAdded ==
  ASSUME NEW T, NEW td, NEW st, NEW r \in Nat, NEW s \in Nat, NEW res \in STRING, NEW sc \in STRING,
         NEW O \in [T -> Seq(ResourceSpans(T))], NEW A \in [T -> Seq(ScopeSpans(T))],
         NEW B \in [T -> Seq(Span(T))],
         At(st, T, r, s, res, sc, O, A, B), td[r].res = res, td[r].scopes[s].scope = sc,
         NEW x \in Span(T)
  PROVE  At(AddSpan(td, st, r, s, x), T, r, s, res, sc, O, A, [B EXCEPT ![x.tid] = Append(@, x)])
<1>1. PICK u \in T : u = x.tid
  BY DEF Span
<1>2. PICK sst : sst = WithScope(td, st, u, r, s)
  OBVIOUS
<1>3. HasScope(st, sst, u, r, s, res, sc, O, A, B)
  BY <1>2, ScopeMade
<1>4. PICK n, m : n = Len(O[u]) + 1 /\ m = Len(A[u]) + 1
  OBVIOUS
<1>5. sst.ssMap[<<u, r, s>>] = <<n, m>> /\ "out" \in DOMAIN sst
  BY <1>3, <1>4 DEF HasScope
<1>6. AddSpan(td, st, r, s, x) = [sst EXCEPT !.out[u][n].scopes[m].spans = Append(@, x)]
  BY <1>1, <1>2, <1>5 DEF AddSpan, SSKey
<1>7. PICK y : y = AddSpan(td, st, r, s, x)
  OBVIOUS
<1>8. PICK h \in ScopeSpans(T), i \in ScopeSpans(T) :
        h = [scope |-> sc, spans |-> B[u]] /\ i = [scope |-> sc, spans |-> Append(B[u], x)]
  <2>1. B[u] \in Seq(Span(T)) /\ Append(B[u], x) \in Seq(Span(T))
    OBVIOUS
  <2> QED BY <2>1 DEF ScopeSpans
<1>9. PICK a \in Seq(ScopeSpans(T)), b \in Seq(ScopeSpans(T)) : a = Append(A[u], h) /\ b = Append(A[u], i)
  <2>1. PICK q \in Seq(ScopeSpans(T)) : q = A[u]
    OBVIOUS
  <2>2. Append(q, h) \in Seq(ScopeSpans(T)) /\ Append(q, i) \in Seq(ScopeSpans(T))
    OBVIOUS
  <2> QED BY <2>1, <2>2
<1>10. PICK g \in ResourceSpans(T), j \in ResourceSpans(T) :
         g = [res |-> res, scopes |-> a] /\ j = [res |-> res, scopes |-> b]
  BY DEF ResourceSpans
<1>11. sst.out[u] = Append(O[u], g) /\ u \in DOMAIN sst.out
  BY <1>3, <1>8, <1>9, <1>10 DEF HasScope
<1>12. sst.out[u][n] = g /\ [sst.out[u] EXCEPT ![n] = j] = Append(O[u], j) /\ Append(O[u], j) # <<>>
  <2>1. PICK q \in Seq(ResourceSpans(T)) : q = O[u]
    OBVIOUS
  <2>2. /\ Append(q, g)[Len(q) + 1] = g /\ [Append(q, g) EXCEPT ![Len(q) + 1] = j] = Append(q, j)
        /\ Append(q, j) # <<>>
    BY LastReplaced
  <2> QED BY <1>4, <1>11, <2>1, <2>2
<1>13. a[m] = h /\ [a EXCEPT ![m] = i] = b /\ b # <<>>
  <2>1. PICK q \in Seq(ScopeSpans(T)) : q = A[u]
    OBVIOUS
  <2>2. /\ Append(q, h)[Len(q) + 1] = h /\ [Append(q, h) EXCEPT ![Len(q) + 1] = i] = Append(q, i)
        /\ Append(q, i) # <<>>
    BY LastReplaced
  <2> QED BY <1>4, <1>9, <2>1, <2>2
<1>14. g.scopes = a /\ h.spans = B[u] /\ g.res = res /\ h.scope = sc
  BY <1>8, <1>10
<1>15. [h EXCEPT !.spans = Append(@, x)] = i
  <2>1. PICK e : e = Append(h.spans, x)
    OBVIOUS
  <2>2. [h EXCEPT !.spans = e] = [scope |-> h.scope, spans |-> e]
    BY SetSpans
  <2> QED BY <1>8, <1>14, <2>1, <2>2
<1>16. [g EXCEPT !.scopes[m].spans = Append(@, x)] = j
  <2>1. [g EXCEPT !.scopes[m].spans = Append(@, x)]
          = [g EXCEPT !.scopes = [g.scopes EXCEPT ![m] = [g.scopes[m] EXCEPT !.spans = Append(@, x)]]]
    OBVIOUS
  <2>2. [g.scopes EXCEPT ![m] = [g.scopes[m] EXCEPT !.spans = Append(@, x)]] = b
    BY <1>13, <1>14, <1>15
  <2>3. [g EXCEPT !.scopes = b] = [res |-> g.res, scopes |-> b]
    BY SetScopes
  <2> QED BY <1>10, <1>14, <2>1, <2>2, <2>3
<1>17. /\ DOMAIN y = DOMAIN sst /\ y.rsMap = sst.rsMap /\ y.ssMap = sst.ssMap
       /\ y.out = [sst.out EXCEPT ![u] = Append(O[u], j)]
  <2>1. /\ DOMAIN y = DOMAIN sst /\ y.rsMap = sst.rsMap /\ y.ssMap = sst.ssMap
        /\ y.out = [sst.out EXCEPT ![u][n].scopes[m].spans = Append(@, x)]
    <3>1. PICK w : w = [sst.out EXCEPT ![u][n].scopes[m].spans = Append(@, x)]
      OBVIOUS
    <3>2. y = [sst EXCEPT !.out = w]
      BY <1>6, <1>7, <3>1
    <3>3. DOMAIN y = DOMAIN sst /\ y.rsMap = sst.rsMap /\ y.ssMap = sst.ssMap /\ y.out = w
      <4>1. "out" \in DOMAIN sst /\ "rsMap" \in DOMAIN sst /\ "ssMap" \in DOMAIN sst
        BY <1>3 DEF HasScope
      <4> QED BY <3>2, <4>1
    <3> QED BY <3>1, <3>3
  <2>2. [sst.out EXCEPT ![u][n].scopes[m].spans = Append(@, x)]
          = [sst.out EXCEPT ![u] = [sst.out[u] EXCEPT ![n] = [sst.out[u][n] EXCEPT !.scopes[m].spans = Append(@, x)]]]
    OBVIOUS
  <2> QED BY <1>12, <1>16, <2>1, <2>2

<1>18. PICK C : C = [B EXCEPT ![u] = Append(@, x)]
  OBVIOUS
<1>19. /\ C[u] = Append(B[u], x) /\ C[u] # <<>> /\ \A t \in T \ {u} : C[t] = B[t]
  <2>1. PICK q \in Seq(Span(T)) : q = B[u]
    OBVIOUS
  <2>2. Append(q, x) # <<>>
    BY AppendNotEmpty
  <2> QED BY <1>18, <2>1, <2>2
<1>20. Filled(sc, A[u], C[u]) = b /\ Whole(res, O[u], b) = Append(O[u], j)
  BY <1>8, <1>9, <1>10, <1>13, <1>19 DEF Filled, Whole
<1>21. \A t \in T \ {u} : Filled(sc, A[t], C[t]) = Filled(sc, A[t], B[t])
  BY <1>19
<1>22. /\ DOMAIN y.out = {t \in T : Whole(res, O[t], Filled(sc, A[t], C[t])) # <<>>}
       /\ \A t \in DOMAIN y.out : y.out[t] = Whole(res, O[t], Filled(sc, A[t], C[t]))
  <2>1. DOMAIN y.out = DOMAIN st.out \union {u}
    BY <1>3, <1>17 DEF HasScope
  <2>2. \A t \in T : t \in DOMAIN y.out <=> Whole(res, O[t], Filled(sc, A[t], C[t])) # <<>>
    <3>1. \A t \in T \ {u} : t \in DOMAIN st.out <=> Whole(res, O[t], Filled(sc, A[t], B[t])) # <<>>
      BY DEF At
    <3> QED BY <1>12, <1>20, <1>21, <2>1, <3>1
  <2>3. DOMAIN y.out \subseteq T
    BY <2>1 DEF At
  <2>4. ASSUME NEW t \in DOMAIN y.out PROVE y.out[t] = Whole(res, O[t], Filled(sc, A[t], C[t]))
    <3>1. CASE t = u
      BY <1>11, <1>17, <1>20, <3>1
    <3>2. CASE t # u
      <4>1. t \in DOMAIN st.out /\ t \in T \ {u}
        BY <2>1, <2>3, <3>2
      <4>2. y.out[t] = st.out[t]
        BY <1>3, <1>17, <3>2, <4>1 DEF HasScope
      <4>3. st.out[t] = Whole(res, O[t], Filled(sc, A[t], B[t]))
        BY <4>1 DEF At
      <4> QED BY <1>21, <4>1, <4>2, <4>3
    <3> QED BY <3>1, <3>2
  <2> QED BY <2>2, <2>3, <2>4
<1>23. /\ \A t \in T : <<t, r>> \in DOMAIN y.rsMap <=> Filled(sc, A[t], C[t]) # <<>>
       /\ \A t \in T : <<t, r>> \in DOMAIN y.rsMap => y.rsMap[<<t, r>>] = Len(O[t]) + 1
       /\ \A t \in T, q \in Nat : q > r => <<t, q>> \notin DOMAIN y.rsMap
  <2>1. /\ DOMAIN y.rsMap = DOMAIN st.rsMap \union {<<u, r>>}
        /\ y.rsMap[<<u, r>>] = Len(O[u]) + 1
        /\ \A k \in DOMAIN st.rsMap \ {<<u, r>>} : y.rsMap[k] = st.rsMap[k]
    BY <1>3, <1>17 DEF HasScope
  <2>2. /\ \A t \in T : <<t, r>> \in DOMAIN st.rsMap <=> Filled(sc, A[t], B[t]) # <<>>
        /\ \A t \in T : <<t, r>> \in DOMAIN st.rsMap => st.rsMap[<<t, r>>] = Len(O[t]) + 1
        /\ \A t \in T, q \in Nat : q > r => <<t, q>> \notin DOMAIN st.rsMap
    BY DEF At
  <2>3. \A t \in T : <<t, r>> \in DOMAIN y.rsMap <=> Filled(sc, A[t], C[t]) # <<>>
    BY <1>13, <1>20, <1>21, <2>1, <2>2
  <2>4. \A t \in T : <<t, r>> \in DOMAIN y.rsMap => y.rsMap[<<t, r>>] = Len(O[t]) + 1
    BY <2>1, <2>2
  <2>5. \A t \in T, q \in Nat : q > r => <<t, q>> \notin DOMAIN y.rsMap
    BY <2>1, <2>2
  <2> QED BY <2>3, <2>4, <2>5
<1>24. /\ \A t \in T : <<t, r, s>> \in DOMAIN y.ssMap <=> C[t] # <<>>
       /\ \A t \in T : <<t, r, s>> \in DOMAIN y.ssMap =>
                         y.ssMap[<<t, r, s>>] = <<Len(O[t]) + 1, Len(A[t]) + 1>>
       /\ \A t \in T, q, p \in Nat : q > r \/ (q = r /\ p > s) => <<t, q, p>> \notin DOMAIN y.ssMap
  <2>1. /\ DOMAIN y.ssMap = DOMAIN st.ssMap \union {<<u, r, s>>}
        /\ y.ssMap[<<u, r, s>>] = <<Len(O[u]) + 1, Len(A[u]) + 1>>
        /\ \A k \in DOMAIN st.ssMap \ {<<u, r, s>>} : y.ssMap[k] = st.ssMap[k]
    BY <1>3, <1>17 DEF HasScope
  <2>2. /\ \A t \in T : <<t, r, s>> \in DOMAIN st.ssMap <=> B[t] # <<>>
        /\ \A t \in T : <<t, r, s>> \in DOMAIN st.ssMap =>
                          st.ssMap[<<t, r, s>>] = <<Len(O[t]) + 1, Len(A[t]) + 1>>
        /\ \A t \in T, q, p \in Nat : q > r \/ (q = r /\ p > s) => <<t, q, p>> \notin DOMAIN st.ssMap
    BY DEF At
  <2>3. \A t \in T : <<t, r, s>> \in DOMAIN y.ssMap <=> C[t] # <<>>
    BY <1>19, <2>1, <2>2
  <2>4. \A t \in T : <<t, r, s>> \in DOMAIN y.ssMap =>
                       y.ssMap[<<t, r, s>>] = <<Len(O[t]) + 1, Len(A[t]) + 1>>
    BY <2>1, <2>2
  <2>5. \A t \in T, q, p \in Nat : q > r \/ (q = r /\ p > s) => <<t, q, p>> \notin DOMAIN y.ssMap
    BY <2>1, <2>2
  <2> QED BY <2>3, <2>4, <2>5
<1>25. DOMAIN y = {"out", "rsMap", "ssMap"} /\ y.out = [t \in DOMAIN y.out |-> y.out[t]]
  <2>1. PICK v : v = Append(O[u], j)
    OBVIOUS
  <2>2. PICK o, w : o = y.out /\ w = sst.out
    OBVIOUS
  <2>3. o = [w EXCEPT ![u] = v]
    BY <1>17, <2>1, <2>2
  <2>4. o = [t \in DOMAIN o |-> o[t]]
    BY <2>3
  <2>5. DOMAIN y = {"out", "rsMap", "ssMap"}
    BY <1>3, <1>17 DEF HasScope
  <2> QED BY <2>2, <2>4, <2>5
<1>26. At(y, T, r, s, res, sc, O, A, C)
  BY <1>22, <1>23, <1>24, <1>25 DEF At
<1> QED BY <1>1, <1>7, <1>18, <1>26

\* Nothing for any trace.
None(T) == [t \in T |-> <<>>]

\* With no span met in the ScopeSpans yet, its scope does not matter.
LEMMA NextScope ==
  ASSUME NEW T, NEW st, NEW r \in Nat, NEW s \in Nat, NEW res, NEW sc, NEW sd, NEW O, NEW A,
         At(st, T, r, s, res, sc, O, A, None(T))
  PROVE  At(st, T, r, s, res, sd, O, A, None(T))
<1>1. \A t \in T : Filled(sd, A[t], None(T)[t]) = Filled(sc, A[t], None(T)[t])
  BY DEF Filled, None
<1>2. {t \in T : Whole(res, O[t], Filled(sd, A[t], None(T)[t])) # <<>>}
        = {t \in T : Whole(res, O[t], Filled(sc, A[t], None(T)[t])) # <<>>}
  BY <1>1
<1>3. \A t \in DOMAIN st.out : t \in T
  BY DEF At
<1> QED BY <1>1, <1>2, <1>3 DEF At

\* Nor does the resource, with no ScopeSpans met in the ResourceSpans.
LEMMA NextResource ==
  ASSUME NEW T, NEW st, NEW r \in Nat, NEW s \in Nat, NEW res, NEW rest, NEW sc, NEW O,
         At(st, T, r, s, res, sc, O, None(T), None(T))
  PROVE  At(st, T, r, s, rest, sc, O, None(T), None(T))
<1>1. \A t \in T : Filled(sc, None(T)[t], None(T)[t]) = <<>>
  BY DEF Filled, None
<1>2. \A t \in T : Whole(rest, O[t], Filled(sc, None(T)[t], None(T)[t]))
                     = Whole(res, O[t], Filled(sc, None(T)[t], None(T)[t]))
  BY <1>1 DEF Whole
<1>3. {t \in T : Whole(rest, O[t], Filled(sc, None(T)[t], None(T)[t])) # <<>>}
        = {t \in T : Whole(res, O[t], Filled(sc, None(T)[t], None(T)[t])) # <<>>}
  BY <1>2
<1>4. \A t \in DOMAIN st.out : t \in T
  BY DEF At
<1> QED BY <1>1, <1>2, <1>3, <1>4 DEF At

\* The end of a ScopeSpans: what is in it counts as before the next.
LEMMA ScopeDone ==
  ASSUME NEW T, NEW st, NEW r \in Nat, NEW s \in Nat, NEW res, NEW sc, NEW O, NEW A, NEW B,
         At(st, T, r, s, res, sc, O, A, B),
         NEW N, \A t \in T : N[t] = Filled(sc, A[t], B[t])
  PROVE  At(st, T, r, s + 1, res, sc, O, N, None(T))
<1>1. \A t \in T : Filled(sc, N[t], None(T)[t]) = Filled(sc, A[t], B[t]) /\ None(T)[t] = <<>>
  BY DEF Filled, None
<1>2. {t \in T : Whole(res, O[t], Filled(sc, N[t], None(T)[t])) # <<>>}
        = {t \in T : Whole(res, O[t], Filled(sc, A[t], B[t])) # <<>>}
  BY <1>1
<1>3. \A t \in DOMAIN st.out : t \in T
  BY DEF At
<1>4. s + 1 \in Nat /\ s + 1 > s /\ \A p \in Nat : p > s + 1 => p > s
  OBVIOUS
<1>5. \A t \in T : <<t, r, s + 1>> \notin DOMAIN st.ssMap
  BY <1>4 DEF At
<1>6. \A t \in T, q, p \in Nat : q > r \/ (q = r /\ p > s + 1) => <<t, q, p>> \notin DOMAIN st.ssMap
  BY <1>4 DEF At
<1> QED BY <1>1, <1>2, <1>3, <1>5, <1>6 DEF At

\* The end of a ResourceSpans.
LEMMA ResourceDone ==
  ASSUME NEW T, NEW st, NEW r \in Nat, NEW s \in Nat, NEW res, NEW sc, NEW O, NEW A,
         At(st, T, r, s, res, sc, O, A, None(T)),
         NEW N, \A t \in T : N[t] = Whole(res, O[t], A[t])
  PROVE  At(st, T, r + 1, 1, res, sc, N, None(T), None(T))
<1>1. \A t \in T : /\ Filled(sc, A[t], None(T)[t]) = A[t] /\ None(T)[t] = <<>>
                   /\ Filled(sc, None(T)[t], None(T)[t]) = <<>>
  BY DEF Filled, None
<1>2. \A t \in T : Whole(res, N[t], Filled(sc, None(T)[t], None(T)[t]))
                     = Whole(res, O[t], Filled(sc, A[t], None(T)[t]))
  BY <1>1 DEF Whole
<1>3. {t \in T : Whole(res, N[t], Filled(sc, None(T)[t], None(T)[t])) # <<>>}
        = {t \in T : Whole(res, O[t], Filled(sc, A[t], None(T)[t])) # <<>>}
  BY <1>2
<1>4. \A t \in DOMAIN st.out : t \in T
  BY DEF At
<1>5. r + 1 \in Nat /\ r + 1 > r /\ 1 \in Nat /\ \A q \in Nat : q > r + 1 \/ q = r + 1 => q > r
  OBVIOUS
<1>6. \A t \in T : <<t, r + 1>> \notin DOMAIN st.rsMap /\ <<t, r + 1, 1>> \notin DOMAIN st.ssMap
  BY <1>5 DEF At
<1>7. \A t \in T, q \in Nat : q > r + 1 => <<t, q>> \notin DOMAIN st.rsMap
  BY <1>5 DEF At
<1>8. \A t \in T, q, p \in Nat : q > r + 1 \/ (q = r + 1 /\ p > 1) => <<t, q, p>> \notin DOMAIN st.ssMap
  BY <1>5 DEF At
<1> QED BY <1>1, <1>2, <1>3, <1>4, <1>6, <1>7, <1>8 DEF At

\* f[k] is what the loop has made after k iterations.
SpanRun(f, td, st, r, s, n) ==
  /\ f[0] = st /\ \A k \in 1 .. n : f[k] = AddSpan(td, f[k - 1], r, s, td[r].scopes[s].spans[k])
  /\ SpanLoop(td, st, r, s) = f[n]

ScopeRun(f, td, st, r, n) ==
  /\ f[0] = st /\ \A k \in 1 .. n : f[k] = SpanLoop(td, f[k - 1], r, k)
  /\ ScopeLoop(td, st, r) = f[n]

ResourceRun(f, td, n) ==
  /\ f[0] = NoGroups /\ \A k \in 1 .. n : f[k] = ScopeLoop(td, f[k - 1], k)
  /\ GroupByTrace(td) = f[n].out

\* What SpanLoop computes, iteration by iteration.
LEMMA SpanLoopRuns ==
  ASSUME NEW td, NEW st, NEW r, NEW s, NEW n \in Nat, n = Len(td[r].scopes[s].spans)
  PROVE  \E f : SpanRun(f, td, st, r, s, n)
<1> DEFINE Turn(y, k) == AddSpan(td, y, r, s, td[r].scopes[s].spans[k])
           Rec(f) == [k \in 0 .. n |-> IF k = 0 THEN st ELSE Turn(f[k - 1], k)]
           G == {k \in 0 .. n : \E g : /\ g = [i \in 0 .. k |-> g[i]] /\ g[0] = st
                                       /\ \A i \in 1 .. k : g[i] = Turn(g[i - 1], i)}
           F == CHOOSE f : f = Rec(f)
<1>1. SpanLoop(td, st, r, s) = F[n]
  BY DEF SpanLoop
<1> HIDE DEF Turn
<1>2. 0 \in G
  <2> DEFINE g == [i \in 0 .. 0 |-> st]
  <2>1. g = [i \in 0 .. 0 |-> g[i]] /\ g[0] = st /\ \A i \in 1 .. 0 : g[i] = Turn(g[i - 1], i)
    OBVIOUS
  <2> HIDE DEF g
  <2> QED BY <2>1
<1>3. ASSUME NEW k \in 0 .. n - 1, k \in G PROVE k + 1 \in G
  <2>1. PICK g : /\ g = [i \in 0 .. k |-> g[i]] /\ g[0] = st
                 /\ \A i \in 1 .. k : g[i] = Turn(g[i - 1], i)
    BY <1>3
  <2> DEFINE h == [i \in 0 .. k + 1 |-> IF i = k + 1 THEN Turn(g[k], k + 1) ELSE g[i]]
  <2>2. \A i \in 0 .. k : h[i] = g[i]
    OBVIOUS
  <2>3. h[k + 1] = Turn(g[k], k + 1) /\ h = [i \in 0 .. k + 1 |-> h[i]]
    OBVIOUS
  <2> HIDE DEF h
  <2>4. ASSUME NEW i \in 1 .. k + 1 PROVE h[i] = Turn(h[i - 1], i)
    <3>1. CASE i = k + 1
      <4>1. h[i - 1] = g[k]
        BY <2>2, <3>1
      <4> QED BY <2>3, <3>1, <4>1
    <3>2. CASE i \in 1 .. k
      <4>1. i \in 0 .. k /\ i - 1 \in 0 .. k
        BY <3>2
      <4> QED BY <2>1, <2>2, <3>2, <4>1
    <3> QED BY <3>1, <3>2
  <2>5. h[0] = st /\ k + 1 \in 0 .. n
    BY <2>1, <2>2
  <2> QED BY <2>3, <2>4, <2>5
<1>4. n \in G
  <2>1. \A k \in 0 .. n - 1 : k \in G => k + 1 \in G
    BY <1>3
  <2>2. n \in 0 .. n
    OBVIOUS
  <2> HIDE DEF G
  <2> QED BY <1>2, <2>1, <2>2, Upward
<1>5. PICK g : /\ g = [i \in 0 .. n |-> g[i]] /\ g[0] = st
               /\ \A i \in 1 .. n : g[i] = Turn(g[i - 1], i)
  BY <1>4
<1>6. \E f : f = Rec(f)
  <2>1. ASSUME NEW k \in 0 .. n PROVE g[k] = IF k = 0 THEN st ELSE Turn(g[k - 1], k)
    <3>1. CASE k = 0
      BY <1>5, <3>1
    <3>2. CASE k \in 1 .. n
      BY <1>5, <3>2
    <3> QED BY <3>1, <3>2
  <2>2. [k \in 0 .. n |-> g[k]] = Rec(g)
    BY <2>1
  <2> QED BY <1>5, <2>2
<1>7. F = Rec(F)
  <2>1. \E f : f = Rec(f)
    BY <1>6
  <2> HIDE DEF Rec
  <2> QED BY <2>1
<1> HIDE DEF F
<1>8. \A k \in 0 .. n : F[k] = IF k = 0 THEN st ELSE Turn(F[k - 1], k)
  <2>1. \A k \in 0 .. n : Rec(F)[k] = IF k = 0 THEN st ELSE Turn(F[k - 1], k)
    OBVIOUS
  <2> HIDE DEF Rec
  <2> QED BY <1>7, <2>1
<1>9. F[0] = st /\ \A k \in 1 .. n : F[k] = Turn(F[k - 1], k)
  BY <1>8
<1> QED BY <1>1, <1>9 DEF Turn, SpanRun

\* What ScopeLoop computes, iteration by iteration.
LEMMA ScopeLoopRuns ==
  ASSUME NEW td, NEW st, NEW r, NEW n \in Nat, n = Len(td[r].scopes)
  PROVE  \E f : ScopeRun(f, td, st, r, n)
<1> DEFINE Turn(y, k) == SpanLoop(td, y, r, k)
           Rec(f) == [k \in 0 .. n |-> IF k = 0 THEN st ELSE Turn(f[k - 1], k)]
           G == {k \in 0 .. n : \E g : /\ g = [i \in 0 .. k |-> g[i]] /\ g[0] = st
                                       /\ \A i \in 1 .. k : g[i] = Turn(g[i - 1], i)}
           F == CHOOSE f : f = Rec(f)
<1>1. ScopeLoop(td, st, r) = F[n]
  BY DEF ScopeLoop
<1> HIDE DEF Turn
<1>2. 0 \in G
  <2> DEFINE g == [i \in 0 .. 0 |-> st]
  <2>1. g = [i \in 0 .. 0 |-> g[i]] /\ g[0] = st /\ \A i \in 1 .. 0 : g[i] = Turn(g[i - 1], i)
    OBVIOUS
  <2> HIDE DEF g
  <2> QED BY <2>1
<1>3. ASSUME NEW k \in 0 .. n - 1, k \in G PROVE k + 1 \in G
  <2>1. PICK g : /\ g = [i \in 0 .. k |-> g[i]] /\ g[0] = st
                 /\ \A i \in 1 .. k : g[i] = Turn(g[i - 1], i)
    BY <1>3
  <2> DEFINE h == [i \in 0 .. k + 1 |-> IF i = k + 1 THEN Turn(g[k], k + 1) ELSE g[i]]
  <2>2. \A i \in 0 .. k : h[i] = g[i]
    OBVIOUS
  <2>3. h[k + 1] = Turn(g[k], k + 1) /\ h = [i \in 0 .. k + 1 |-> h[i]]
    OBVIOUS
  <2> HIDE DEF h
  <2>4. ASSUME NEW i \in 1 .. k + 1 PROVE h[i] = Turn(h[i - 1], i)
    <3>1. CASE i = k + 1
      <4>1. h[i - 1] = g[k]
        BY <2>2, <3>1
      <4> QED BY <2>3, <3>1, <4>1
    <3>2. CASE i \in 1 .. k
      <4>1. i \in 0 .. k /\ i - 1 \in 0 .. k
        BY <3>2
      <4> QED BY <2>1, <2>2, <3>2, <4>1
    <3> QED BY <3>1, <3>2
  <2>5. h[0] = st /\ k + 1 \in 0 .. n
    BY <2>1, <2>2
  <2> QED BY <2>3, <2>4, <2>5
<1>4. n \in G
  <2>1. \A k \in 0 .. n - 1 : k \in G => k + 1 \in G
    BY <1>3
  <2>2. n \in 0 .. n
    OBVIOUS
  <2> HIDE DEF G
  <2> QED BY <1>2, <2>1, <2>2, Upward
<1>5. PICK g : /\ g = [i \in 0 .. n |-> g[i]] /\ g[0] = st
               /\ \A i \in 1 .. n : g[i] = Turn(g[i - 1], i)
  BY <1>4
<1>6. \E f : f = Rec(f)
  <2>1. ASSUME NEW k \in 0 .. n PROVE g[k] = IF k = 0 THEN st ELSE Turn(g[k - 1], k)
    <3>1. CASE k = 0
      BY <1>5, <3>1
    <3>2. CASE k \in 1 .. n
      BY <1>5, <3>2
    <3> QED BY <3>1, <3>2
  <2>2. [k \in 0 .. n |-> g[k]] = Rec(g)
    BY <2>1
  <2> QED BY <1>5, <2>2
<1>7. F = Rec(F)
  <2>1. \E f : f = Rec(f)
    BY <1>6
  <2> HIDE DEF Rec
  <2> QED BY <2>1
<1> HIDE DEF F
<1>8. \A k \in 0 .. n : F[k] = IF k = 0 THEN st ELSE Turn(F[k - 1], k)
  <2>1. \A k \in 0 .. n : Rec(F)[k] = IF k = 0 THEN st ELSE Turn(F[k - 1], k)
    OBVIOUS
  <2> HIDE DEF Rec
  <2> QED BY <1>7, <2>1
<1>9. F[0] = st /\ \A k \in 1 .. n : F[k] = Turn(F[k - 1], k)
  BY <1>8
<1> QED BY <1>1, <1>9 DEF Turn, ScopeRun

\* What GroupByTrace computes, iteration by iteration.
LEMMA ResourceLoopRuns ==
  ASSUME NEW td, NEW n \in Nat, n = Len(td)
  PROVE  \E f : ResourceRun(f, td, n)
<1> DEFINE Turn(y, k) == ScopeLoop(td, y, k)
           Rec(f) == [k \in 0 .. n |-> IF k = 0 THEN NoGroups ELSE Turn(f[k - 1], k)]
           G == {k \in 0 .. n : \E g : /\ g = [i \in 0 .. k |-> g[i]] /\ g[0] = NoGroups
                                       /\ \A i \in 1 .. k : g[i] = Turn(g[i - 1], i)}
           F == CHOOSE f : f = Rec(f)
<1>1. GroupByTrace(td) = F[n].out
  BY DEF GroupByTrace
<1> HIDE DEF Turn
<1>2. 0 \in G
  <2> DEFINE g == [i \in 0 .. 0 |-> NoGroups]
  <2>1. g = [i \in 0 .. 0 |-> g[i]] /\ g[0] = NoGroups /\ \A i \in 1 .. 0 : g[i] = Turn(g[i - 1], i)
    OBVIOUS
  <2> HIDE DEF g
  <2> QED BY <2>1
<1>3. ASSUME NEW k \in 0 .. n - 1, k \in G PROVE k + 1 \in G
  <2>1. PICK g : /\ g = [i \in 0 .. k |-> g[i]] /\ g[0] = NoGroups
                 /\ \A i \in 1 .. k : g[i] = Turn(g[i - 1], i)
    BY <1>3
  <2> DEFINE h == [i \in 0 .. k + 1 |-> IF i = k + 1 THEN Turn(g[k], k + 1) ELSE g[i]]
  <2>2. \A i \in 0 .. k : h[i] = g[i]
    OBVIOUS
  <2>3. h[k + 1] = Turn(g[k], k + 1) /\ h = [i \in 0 .. k + 1 |-> h[i]]
    OBVIOUS
  <2> HIDE DEF h
  <2>4. ASSUME NEW i \in 1 .. k + 1 PROVE h[i] = Turn(h[i - 1], i)
    <3>1. CASE i = k + 1
      <4>1. h[i - 1] = g[k]
        BY <2>2, <3>1
      <4> QED BY <2>3, <3>1, <4>1
    <3>2. CASE i \in 1 .. k
      <4>1. i \in 0 .. k /\ i - 1 \in 0 .. k
        BY <3>2
      <4> QED BY <2>1, <2>2, <3>2, <4>1
    <3> QED BY <3>1, <3>2
  <2>5. h[0] = NoGroups /\ k + 1 \in 0 .. n
    BY <2>1, <2>2
  <2> QED BY <2>3, <2>4, <2>5
<1>4. n \in G
  <2>1. \A k \in 0 .. n - 1 : k \in G => k + 1 \in G
    BY <1>3
  <2>2. n \in 0 .. n
    OBVIOUS
  <2> HIDE DEF G
  <2> QED BY <1>2, <2>1, <2>2, Upward
<1>5. PICK g : /\ g = [i \in 0 .. n |-> g[i]] /\ g[0] = NoGroups
               /\ \A i \in 1 .. n : g[i] = Turn(g[i - 1], i)
  BY <1>4
<1>6. \E f : f = Rec(f)
  <2>1. ASSUME NEW k \in 0 .. n PROVE g[k] = IF k = 0 THEN NoGroups ELSE Turn(g[k - 1], k)
    <3>1. CASE k = 0
      BY <1>5, <3>1
    <3>2. CASE k \in 1 .. n
      BY <1>5, <3>2
    <3> QED BY <3>1, <3>2
  <2>2. [k \in 0 .. n |-> g[k]] = Rec(g)
    BY <2>1
  <2> QED BY <1>5, <2>2
<1>7. F = Rec(F)
  <2>1. \E f : f = Rec(f)
    BY <1>6
  <2> HIDE DEF Rec
  <2> QED BY <2>1
<1> HIDE DEF F
<1>8. \A k \in 0 .. n : F[k] = IF k = 0 THEN NoGroups ELSE Turn(F[k - 1], k)
  <2>1. \A k \in 0 .. n : Rec(F)[k] = IF k = 0 THEN NoGroups ELSE Turn(F[k - 1], k)
    OBVIOUS
  <2> HIDE DEF Rec
  <2> QED BY <1>7, <2>1
<1>9. F[0] = NoGroups /\ \A k \in 1 .. n : F[k] = Turn(F[k - 1], k)
  BY <1>8
<1> QED BY <1>1, <1>9 DEF Turn, ResourceRun

\* A span added to the spans of trace t, if it is one of them.
Added(p, x, t) == IF x.tid = t THEN Append(p, x) ELSE p

(* What KeptSpans, KeptScopes and OfTrace gain from one more member is what *)
(* Added, Filled and Whole add.                                             *)
LEMMA SpanGained ==
  ASSUME NEW T, NEW t, NEW spans \in Seq(Span(T)), NEW k \in 0 .. Len(spans) - 1,
         NEW x \in Span(T), x = spans[k + 1]
  PROVE  KeptSpans(Pre(spans, k + 1), t) = Added(KeptSpans(Pre(spans, k), t), x, t)
<1>1. PICK p \in Seq(Span(T)) : p = KeptSpans(Pre(spans, k), t)
  <2>1. k \in 0 .. Len(spans)
    OBVIOUS
  <2> QED BY <2>1, SpansStep
<1>2. KeptSpans(Pre(spans, k + 1), t) = p \o PartOf(x, t)
  BY <1>1, SpansStep
<1>3. p \o <<x>> = Append(p, x) /\ p \o <<>> = p
  OBVIOUS
<1> QED BY <1>1, <1>2, <1>3 DEF Added, PartOf

\* One more ScopeSpans.
LEMMA ScopeGained ==
  ASSUME NEW T, NEW t, NEW scopes \in Seq(ScopeSpans(T)), NEW k \in 0 .. Len(scopes) - 1
  PROVE  KeptScopes(Pre(scopes, k + 1), t) =
           Filled(scopes[k + 1].scope, KeptScopes(Pre(scopes, k), t), KeptSpans(scopes[k + 1].spans, t))
<1>1. PICK p \in Seq(ScopeSpans(T)) : p = KeptScopes(Pre(scopes, k), t)
  <2>1. k \in 0 .. Len(scopes)
    OBVIOUS
  <2> QED BY <2>1, ScopesStep
<1>2. PICK ss \in ScopeSpans(T) : ss = scopes[k + 1]
  OBVIOUS
<1>3. KeptScopes(Pre(scopes, k + 1), t) = p \o KeptScope(ss, t)
  BY <1>1, <1>2, ScopesStep
<1>4. PICK b \in Seq(Span(T)) : b = KeptSpans(ss.spans, t)
  <2>1. ss.spans \in Seq(Span(T))
    BY DEF ScopeSpans
  <2> QED BY <2>1, SpansType
<1>5. PICK y \in ScopeSpans(T) : y = [scope |-> ss.scope, spans |-> b]
  BY DEF ScopeSpans
<1>6. KeptScope(ss, t) = IF b = <<>> THEN <<>> ELSE <<y>>
  BY <1>4, <1>5, ScopeType
<1>7. p \o <<y>> = Append(p, y) /\ p \o <<>> = p
  OBVIOUS
<1> QED BY <1>1, <1>2, <1>3, <1>4, <1>5, <1>6, <1>7 DEF Filled

\* One more ResourceSpans.
LEMMA ResourceGained ==
  ASSUME NEW T, NEW t, NEW td \in Seq(ResourceSpans(T)), NEW k \in 0 .. Len(td) - 1
  PROVE  OfTrace(Pre(td, k + 1), t) =
           Whole(td[k + 1].res, OfTrace(Pre(td, k), t), KeptScopes(td[k + 1].scopes, t))
<1>1. PICK p \in Seq(ResourceSpans(T)) : p = OfTrace(Pre(td, k), t)
  <2>1. k \in 0 .. Len(td)
    OBVIOUS
  <2> QED BY <2>1, ResourcesStep
<1>2. PICK rs \in ResourceSpans(T) : rs = td[k + 1]
  OBVIOUS
<1>3. OfTrace(Pre(td, k + 1), t) = p \o KeptResource(rs, t)
  BY <1>1, <1>2, ResourcesStep
<1>4. PICK b \in Seq(ScopeSpans(T)) : b = KeptScopes(rs.scopes, t)
  <2>1. rs.scopes \in Seq(ScopeSpans(T))
    BY DEF ResourceSpans
  <2> QED BY <2>1, ScopesType
<1>5. PICK y \in ResourceSpans(T) : y = [res |-> rs.res, scopes |-> b]
  BY DEF ResourceSpans
<1>6. KeptResource(rs, t) = IF b = <<>> THEN <<>> ELSE <<y>>
  BY <1>4, <1>5, ResourceType
<1>7. p \o <<y>> = Append(p, y) /\ p \o <<>> = p
  OBVIOUS
<1> QED BY <1>1, <1>2, <1>3, <1>4, <1>5, <1>6, <1>7 DEF Whole

\* SpanLoop moves the spans of a ScopeSpans to the groups of their traces.
LEMMA SpansGrouped ==
  ASSUME NEW T, NEW td, NEW st, NEW r \in Nat, NEW s \in Nat, NEW res \in STRING, NEW sc \in STRING,
         NEW O \in [T -> Seq(ResourceSpans(T))], NEW A \in [T -> Seq(ScopeSpans(T))],
         At(st, T, r, s, res, sc, O, A, None(T)), td[r].res = res, td[r].scopes[s].scope = sc,
         NEW spans \in Seq(Span(T)), td[r].scopes[s].spans = spans,
         NEW z, z = SpanLoop(td, st, r, s), NEW B, B = [t \in T |-> KeptSpans(spans, t)]
  PROVE  At(z, T, r, s, res, sc, O, A, B)
<1> DEFINE K(k) == [t \in T |-> KeptSpans(Pre(spans, k), t)]
<1>1. PICK n \in Nat : n = Len(spans)
  OBVIOUS
<1>2. PICK f : /\ f[0] = st /\ \A k \in 1 .. n : f[k] = AddSpan(td, f[k - 1], r, s, spans[k])
               /\ SpanLoop(td, st, r, s) = f[n]
  <2>1. n = Len(td[r].scopes[s].spans)
    BY <1>1
  <2>2. \E f : SpanRun(f, td, st, r, s, n)
    BY <2>1, SpanLoopRuns
  <2> QED BY <2>2 DEF SpanRun
<1>3. K(0) = None(T)
  BY SpansStep DEF None
<1>4. \A k \in 0 .. n : K(k) \in [T -> Seq(Span(T))]
  <2>1. \A k \in 0 .. n, t \in T : KeptSpans(Pre(spans, k), t) \in Seq(Span(T))
    BY <1>1, SpansStep
  <2> QED BY <2>1
<1>5. ASSUME NEW k \in 0 .. n - 1, NEW x \in Span(T), x = spans[k + 1]
      PROVE  [K(k) EXCEPT ![x.tid] = Append(@, x)] = K(k + 1)
  <2>1. \A t \in T : KeptSpans(Pre(spans, k + 1), t) = Added(KeptSpans(Pre(spans, k), t), x, t)
    <3>1. k \in 0 .. Len(spans) - 1
      BY <1>1
    <3> HIDE DEF K
    <3> QED BY <1>5, <3>1, SpanGained
  <2>2. x.tid \in T
    BY DEF Span
  <2> QED BY <2>1, <2>2 DEF Added
<1> DEFINE G == {k \in 0 .. n : At(f[k], T, r, s, res, sc, O, A, K(k))}
<1>6. 0 \in G
  <2>1. 0 \in 0 .. n /\ f[0] = st
    BY <1>2
  <2> HIDE DEF K
  <2> QED BY <1>3, <2>1
<1>7. ASSUME NEW k \in 0 .. n - 1, k \in G PROVE k + 1 \in G
  <2>1. PICK x \in Span(T) : x = spans[k + 1]
    BY <1>1
  <2>2. PICK C \in [T -> Seq(Span(T))] : C = K(k)
    <3>1. k \in 0 .. n
      OBVIOUS
    <3> HIDE DEF K
    <3> QED BY <1>4, <3>1
  <2>3. PICK y : y = f[k]
    OBVIOUS
  <2>4. At(y, T, r, s, res, sc, O, A, C)
    <3> HIDE DEF K
    <3> QED BY <1>7, <2>2, <2>3
  <2>5. At(AddSpan(td, y, r, s, x), T, r, s, res, sc, O, A, [C EXCEPT ![x.tid] = Append(@, x)])
    BY <2>4, SpanAdded
  <2>6. k + 1 \in 1 .. n /\ (k + 1) - 1 = k /\ k + 1 \in 0 .. n
    OBVIOUS
  <2>7. f[k + 1] = AddSpan(td, y, r, s, x)
    BY <1>2, <2>1, <2>3, <2>6
  <2>8. [C EXCEPT ![x.tid] = Append(@, x)] = K(k + 1)
    <3> HIDE DEF K
    <3> QED BY <1>5, <2>1, <2>2
  <2> HIDE DEF K
  <2> QED BY <2>5, <2>6, <2>7, <2>8
<1>8. n \in G
  <2>1. \A k \in 0 .. n - 1 : k \in G => k + 1 \in G
    BY <1>7
  <2>2. n \in 0 .. n
    OBVIOUS
  <2> HIDE DEF G
  <2> QED BY <1>6, <2>1, <2>2, Upward
<1>9. K(n) = [t \in T |-> KeptSpans(spans, t)]
  BY <1>1, SpansType
<1> HIDE DEF K
<1> QED BY <1>2, <1>8, <1>9

\* ScopeLoop moves the ScopeSpans of a ResourceSpans.
LEMMA ScopesGrouped ==
  ASSUME NEW T, NEW td, NEW st, NEW r \in Nat, NEW res \in STRING, NEW sd,
         NEW O \in [T -> Seq(ResourceSpans(T))],
         At(st, T, r, 1, res, sd, O, None(T), None(T)), td[r].res = res,
         NEW scopes \in Seq(ScopeSpans(T)), td[r].scopes = scopes,
         NEW w, w = ScopeLoop(td, st, r), NEW M, M = [t \in T |-> KeptScopes(scopes, t)],
         NEW m, m = Len(scopes) + 1
  PROVE  At(w, T, r, m, res, sd, O, M, None(T))
<1> DEFINE K(k) == [t \in T |-> KeptScopes(Pre(scopes, k), t)]
<1>1. PICK n \in Nat : n = Len(scopes)
  OBVIOUS
<1>2. PICK f : /\ f[0] = st /\ \A k \in 1 .. n : f[k] = SpanLoop(td, f[k - 1], r, k)
               /\ ScopeLoop(td, st, r) = f[n]
  <2>1. n = Len(td[r].scopes)
    BY <1>1
  <2>2. \E f : ScopeRun(f, td, st, r, n)
    BY <2>1, ScopeLoopRuns
  <2> QED BY <2>2 DEF ScopeRun
<1>3. K(0) = None(T)
  BY ScopesStep DEF None
<1>4. \A k \in 0 .. n : K(k) \in [T -> Seq(ScopeSpans(T))]
  <2>1. \A k \in 0 .. n, t \in T : KeptScopes(Pre(scopes, k), t) \in Seq(ScopeSpans(T))
    BY <1>1, ScopesStep
  <2> QED BY <2>1
<1> DEFINE G == {k \in 0 .. n : At(f[k], T, r, k + 1, res, sd, O, K(k), None(T))}
<1>5. 0 \in G
  <2>1. 0 \in 0 .. n /\ f[0] = st
    BY <1>2
  <2> HIDE DEF K
  <2> QED BY <1>3, <2>1
<1>6. ASSUME NEW k \in 0 .. n - 1, k \in G PROVE k + 1 \in G
  <2>1. k + 1 \in 1 .. n /\ (k + 1) - 1 = k /\ k + 1 \in 0 .. n /\ k \in 0 .. n
    OBVIOUS
  <2>2. PICK ss \in ScopeSpans(T), s \in Nat : ss = scopes[s] /\ s = k + 1
    BY <1>1
  <2>3. PICK sc \in STRING, spans \in Seq(Span(T)) : sc = ss.scope /\ spans = ss.spans
    BY DEF ScopeSpans
  <2>4. PICK A \in [T -> Seq(ScopeSpans(T))] : A = K(k)
    <3> HIDE DEF K
    <3> QED BY <1>4, <2>1
  <2>5. PICK y : y = f[k]
    OBVIOUS
  <2>6. At(y, T, r, s, res, sd, O, A, None(T))
    <3> HIDE DEF K
    <3> QED BY <1>6, <2>2, <2>4, <2>5
  <2>7. At(y, T, r, s, res, sc, O, A, None(T))
    BY <2>6, NextScope
  <2>8. PICK z : z = SpanLoop(td, y, r, s)
    OBVIOUS
  <2>9. td[r].scopes[s].scope = sc /\ td[r].scopes[s].spans = spans
    BY <2>2, <2>3
  <2>10. PICK B : B = [t \in T |-> KeptSpans(spans, t)]
    OBVIOUS
  <2>11. At(z, T, r, s, res, sc, O, A, B)
    <3>1. td[r].res = res /\ td[r].scopes[s].scope = sc /\ td[r].scopes[s].spans = spans
      BY <2>9
    <3> QED BY <2>7, <2>8, <2>10, <3>1, SpansGrouped
  <2>12. PICK N : N = K(k + 1)
    OBVIOUS
  <2>13. \A t \in T : N[t] = Filled(sc, A[t], B[t])
    <3>1. k \in 0 .. Len(scopes) - 1
      BY <1>1
    <3>2. \A t \in T : KeptScopes(Pre(scopes, k + 1), t) =
                         Filled(sc, KeptScopes(Pre(scopes, k), t), KeptSpans(spans, t))
      BY <2>2, <2>3, <3>1, ScopeGained
    <3> QED BY <2>4, <2>10, <2>12, <3>2
  <2>14. At(z, T, r, s + 1, res, sc, O, N, None(T))
    BY <2>11, <2>13, ScopeDone
  <2>15. At(z, T, r, s + 1, res, sd, O, N, None(T))
    <3>1. s + 1 \in Nat
      OBVIOUS
    <3> QED BY <2>14, <3>1, NextScope
  <2>16. f[k + 1] = z
    BY <1>2, <2>1, <2>2, <2>5, <2>8
  <2> HIDE DEF K
  <2> QED BY <2>1, <2>2, <2>12, <2>15, <2>16
<1>7. n \in G
  <2>1. \A k \in 0 .. n - 1 : k \in G => k + 1 \in G
    BY <1>6
  <2>2. n \in 0 .. n
    OBVIOUS
  <2> HIDE DEF G
  <2> QED BY <1>5, <2>1, <2>2, Upward
<1>8. K(n) = [t \in T |-> KeptScopes(scopes, t)]
  BY <1>1, ScopesType
<1> HIDE DEF K
<1> QED BY <1>1, <1>2, <1>7, <1>8

\* Before the first ResourceSpans there is no group.
LEMMA NothingGrouped ==
  ASSUME NEW T, NEW res, NEW sc
  PROVE  At(NoGroups, T, 1, 1, res, sc, None(T), None(T), None(T))
<1>1. \A t \in T : None(T)[t] = <<>>
  BY DEF None
<1>2. \A t \in T : Filled(sc, None(T)[t], None(T)[t]) = <<>>
  BY <1>1 DEF Filled
<1>3. \A t \in T : Whole(res, None(T)[t], Filled(sc, None(T)[t], None(T)[t])) = <<>>
  BY <1>1, <1>2 DEF Whole
<1>4. /\ DOMAIN NoGroups = {"out", "rsMap", "ssMap"} /\ DOMAIN NoGroups.out = {}
      /\ DOMAIN NoGroups.rsMap = {} /\ DOMAIN NoGroups.ssMap = {}
  BY DEF NoGroups
<1>6. NoGroups.out = [t \in DOMAIN NoGroups.out |-> NoGroups.out[t]]
  BY DEF NoGroups
<1>5. {t \in T : Whole(res, None(T)[t], Filled(sc, None(T)[t], None(T)[t])) # <<>>} = {}
  BY <1>3
<1> HIDE DEF NoGroups
<1> QED BY <1>1, <1>2, <1>4, <1>5, <1>6 DEF At

\* GroupByTrace gives each trace its group, and to no other one.
LEMMA AllGrouped ==
  ASSUME NEW T, NEW td \in Traces(T)
  PROVE  GroupByTrace(td) = [t \in {u \in T : OfTrace(td, u) # <<>>} |-> OfTrace(td, t)]
<1> DEFINE K(k) == [t \in T |-> OfTrace(Pre(td, k), t)]
<1>0. td \in Seq(ResourceSpans(T))
  BY DEF Traces
<1>1. PICK n \in Nat : n = Len(td)
  BY <1>0
<1>2. PICK f : /\ f[0] = NoGroups /\ \A k \in 1 .. n : f[k] = ScopeLoop(td, f[k - 1], k)
               /\ GroupByTrace(td) = f[n].out
  <2>1. \E f : ResourceRun(f, td, n)
    BY <1>1, ResourceLoopRuns
  <2> QED BY <2>1 DEF ResourceRun
<1>3. K(0) = None(T)
  BY <1>0, ResourcesStep DEF None
<1>4. \A k \in 0 .. n : K(k) \in [T -> Seq(ResourceSpans(T))]
  <2>1. \A k \in 0 .. n, t \in T : OfTrace(Pre(td, k), t) \in Seq(ResourceSpans(T))
    BY <1>0, <1>1, ResourcesStep
  <2> QED BY <2>1
<1> DEFINE G == {k \in 0 .. n : At(f[k], T, k + 1, 1, "none", "none", K(k), None(T), None(T))}
<1>5. 0 \in G
  <2>1. 0 \in 0 .. n /\ f[0] = NoGroups
    BY <1>2
  <2>2. At(NoGroups, T, 1, 1, "none", "none", None(T), None(T), None(T))
    BY NothingGrouped
  <2> HIDE DEF K
  <2> QED BY <1>3, <2>1, <2>2
<1>6. ASSUME NEW k \in 0 .. n - 1, k \in G PROVE k + 1 \in G
  <2>1. k + 1 \in 1 .. n /\ (k + 1) - 1 = k /\ k + 1 \in 0 .. n /\ k \in 0 .. n
    OBVIOUS
  <2>2. PICK rs \in ResourceSpans(T), r \in Nat : rs = td[r] /\ r = k + 1
    BY <1>0, <1>1
  <2>3. PICK res \in STRING, scopes \in Seq(ScopeSpans(T)) : res = rs.res /\ scopes = rs.scopes
    BY DEF ResourceSpans
  <2>4. PICK O \in [T -> Seq(ResourceSpans(T))] : O = K(k)
    <3> HIDE DEF K
    <3> QED BY <1>4, <2>1
  <2>5. PICK y : y = f[k]
    OBVIOUS
  <2> DEFINE no == "none"
  <2>6. At(y, T, r, 1, no, no, O, None(T), None(T))
    <3> HIDE DEF K
    <3> QED BY <1>6, <2>2, <2>4, <2>5
  <2>7. At(y, T, r, 1, res, no, O, None(T), None(T))
    <3>1. 1 \in Nat
      OBVIOUS
    <3> QED BY <2>6, <3>1, NextResource
  <2>8. PICK z : z = ScopeLoop(td, y, r)
    OBVIOUS
  <2>9. td[r].res = res /\ td[r].scopes = scopes
    BY <2>2, <2>3
  <2>10. PICK A : A = [t \in T |-> KeptScopes(scopes, t)]
    OBVIOUS
  <2>11. PICK s \in Nat : s = Len(scopes) + 1
    OBVIOUS
  <2>12. At(z, T, r, s, res, no, O, A, None(T))
    <3>1. PICK e : e = no
      OBVIOUS
    <3> HIDE DEF no
    <3>2. At(y, T, r, 1, res, e, O, None(T), None(T))
      BY <2>7, <3>1
    <3>3. At(z, T, r, s, res, e, O, A, None(T))
      BY <2>8, <2>9, <2>10, <2>11, <3>2, ScopesGrouped
    <3> QED BY <3>1, <3>3
  <2>13. PICK N : N = K(k + 1)
    OBVIOUS
  <2>14. \A t \in T : N[t] = Whole(res, O[t], A[t])
    <3>1. k \in 0 .. Len(td) - 1
      BY <1>1
    <3>2. \A t \in T : OfTrace(Pre(td, k + 1), t) =
                         Whole(res, OfTrace(Pre(td, k), t), KeptScopes(scopes, t))
      BY <1>0, <2>2, <2>3, <3>1, ResourceGained
    <3> QED BY <2>4, <2>10, <2>13, <3>2
  <2>15. At(z, T, r + 1, 1, res, no, N, None(T), None(T))
    BY <2>12, <2>14, ResourceDone
  <2>16. At(z, T, r + 1, 1, no, no, N, None(T), None(T))
    <3>1. 1 \in Nat /\ r + 1 \in Nat
      OBVIOUS
    <3> QED BY <2>15, <3>1, NextResource
  <2>17. f[k + 1] = z
    BY <1>2, <2>1, <2>2, <2>5, <2>8
  <2> HIDE DEF K
  <2> QED BY <2>1, <2>2, <2>5, <2>13, <2>16, <2>17
<1>7. n \in G
  <2>1. \A k \in 0 .. n - 1 : k \in G => k + 1 \in G
    BY <1>6
  <2>2. n \in 0 .. n
    OBVIOUS
  <2> HIDE DEF G
  <2> QED BY <1>5, <2>1, <2>2, Upward
<1>8. Pre(td, n) = td
  BY <1>0, <1>1, Prefix
<1>9. \A t \in T : /\ K(n)[t] = OfTrace(td, t) /\ None(T)[t] = <<>>
                   /\ Filled("none", None(T)[t], None(T)[t]) = <<>>
                   /\ Whole("none", K(n)[t], Filled("none", None(T)[t], None(T)[t])) = OfTrace(td, t)
  BY <1>8 DEF None, Filled, Whole
<1>10. PICK o : o = f[n].out
  OBVIOUS
<1>11. /\ o = [t \in DOMAIN o |-> o[t]] /\ DOMAIN o = {t \in T : OfTrace(td, t) # <<>>}
       /\ \A t \in DOMAIN o : o[t] = OfTrace(td, t)
  <2>1. At(f[n], T, n + 1, 1, "none", "none", K(n), None(T), None(T))
    BY <1>7
  <2> HIDE DEF K
  <2> QED BY <1>9, <1>10, <2>1 DEF At
<1> QED BY <1>2, <1>10, <1>11

\* Only empty sequences flatten to nothing.
LEMMA FlattenNothing ==
  ASSUME NEW S, NEW ps \in Seq(Seq(S))
  PROVE  FlattenSeq(ps) = <<>> <=> \A i \in 1 .. Len(ps) : ps[i] = <<>>
<1>1. PICK n \in Nat : n = Len(ps)
  OBVIOUS
<1> DEFINE G == {k \in 0 .. n : FlattenSeq(Pre(ps, k)) = <<>> <=> \A i \in 1 .. k : ps[i] = <<>>}
<1>2. 0 \in G
  <2>1. FlattenSeq(Pre(ps, 0)) = <<>>
    BY PiecesStep
  <2> QED BY <2>1
<1>3. ASSUME NEW k \in 0 .. n - 1, k \in G PROVE k + 1 \in G
  <2>1. k \in 0 .. Len(ps) /\ k \in 0 .. Len(ps) - 1 /\ k + 1 \in 0 .. n
    BY <1>1
  <2>2. PICK a \in Seq(S), b \in Seq(S) : a = FlattenSeq(Pre(ps, k)) /\ b = ps[k + 1]
    <3>1. ps[k + 1] \in Seq(S)
      BY <1>1
    <3> QED BY <2>1, <3>1, PiecesStep
  <2>3. FlattenSeq(Pre(ps, k + 1)) = a \o b
    BY <2>1, <2>2, PiecesStep
  <2>4. a \o b = <<>> <=> a = <<>> /\ b = <<>>
    <3>1. Len(a \o b) = Len(a) + Len(b) /\ Len(a) \in Nat /\ Len(b) \in Nat
      OBVIOUS
    <3>2. a \o b \in Seq(S)
      OBVIOUS
    <3>3. \A q \in Seq(S) : q = <<>> <=> Len(q) = 0
      OBVIOUS
    <3> QED BY <3>1, <3>2, <3>3
  <2>5. (\A i \in 1 .. k + 1 : ps[i] = <<>>) <=> (\A i \in 1 .. k : ps[i] = <<>>) /\ ps[k + 1] = <<>>
    OBVIOUS
  <2> QED BY <1>3, <2>1, <2>2, <2>3, <2>4, <2>5
<1>4. n \in G
  <2>1. \A k \in 0 .. n - 1 : k \in G => k + 1 \in G
    BY <1>3
  <2>2. n \in 0 .. n
    OBVIOUS
  <2> HIDE DEF G
  <2> QED BY <1>2, <2>1, <2>2, Upward
<1>5. Pre(ps, n) = ps
  BY <1>1, Prefix
<1> QED BY <1>1, <1>4, <1>5

\* A sequence of one member is not empty.
LEMMA OneIsSome ==
  ASSUME NEW y
  PROVE  <<y>> # <<>>
<1>1. Len(<<y>>) = 1 /\ Len(<<>>) = 0
  OBVIOUS
<1> QED BY <1>1

\* A group is empty when no span of the trace is there.
LEMMA SpansFound ==
  ASSUME NEW T, NEW t, NEW spans \in Seq(Span(T))
  PROVE  KeptSpans(spans, t) # <<>> <=> \E k \in 1 .. Len(spans) : spans[k].tid = t
<1> DEFINE ps == [k \in 1 .. Len(spans) |-> IF spans[k].tid = t THEN <<spans[k]>> ELSE <<>>]
<1>1. Len(spans) \in Nat /\ ps \in [1 .. Len(spans) -> Seq(Span(T))]
      /\ \A k \in 1 .. Len(spans) : ps[k] = IF spans[k].tid = t THEN <<spans[k]>> ELSE <<>>
  OBVIOUS
<1>2. KeptSpans(spans, t) = FlattenSeq(ps)
  BY DEF KeptSpans
<1> HIDE DEF ps
<1>3. ps \in Seq(Seq(Span(T))) /\ Len(ps) = Len(spans)
  BY <1>1
<1>4. ASSUME NEW k \in 1 .. Len(spans) PROVE ps[k] # <<>> <=> spans[k].tid = t
  <2>1. PICK y : y = spans[k]
    OBVIOUS
  <2>2. ps[k] = IF y.tid = t THEN <<y>> ELSE <<>>
    BY <1>1, <2>1
  <2>3. <<y>> # <<>>
    BY OneIsSome
  <2> QED BY <2>1, <2>2, <2>3
<1> QED BY <1>2, <1>3, <1>4, FlattenNothing

\* A trace has a ScopeSpans if it has a span in one.
LEMMA ScopesFound ==
  ASSUME NEW T, NEW t, NEW scopes \in Seq(ScopeSpans(T))
  PROVE  KeptScopes(scopes, t) # <<>>
           <=> \E s \in 1 .. Len(scopes) : KeptSpans(scopes[s].spans, t) # <<>>
<1> DEFINE ps == [s \in 1 .. Len(scopes) |-> KeptScope(scopes[s], t)]
<1>1. Len(scopes) \in Nat /\ ps \in [1 .. Len(scopes) -> Seq(ScopeSpans(T))]
      /\ \A s \in 1 .. Len(scopes) : ps[s] = KeptScope(scopes[s], t)
  BY ScopeType
<1>2. KeptScopes(scopes, t) = FlattenSeq(ps)
  BY DEF KeptScopes
<1> HIDE DEF ps
<1>3. ps \in Seq(Seq(ScopeSpans(T))) /\ Len(ps) = Len(scopes)
  BY <1>1
<1>4. ASSUME NEW s \in 1 .. Len(scopes) PROVE ps[s] # <<>> <=> KeptSpans(scopes[s].spans, t) # <<>>
  <2>1. PICK ss \in ScopeSpans(T) : ss = scopes[s]
    OBVIOUS
  <2>2. PICK b, y : b = KeptSpans(ss.spans, t) /\ y = [scope |-> ss.scope, spans |-> b]
    OBVIOUS
  <2>3. KeptScope(ss, t) = IF b = <<>> THEN <<>> ELSE <<y>>
    BY <2>2, ScopeType
  <2>4. <<y>> # <<>>
    BY OneIsSome
  <2> QED BY <1>1, <2>1, <2>2, <2>3, <2>4
<1> QED BY <1>2, <1>3, <1>4, FlattenNothing

\* A trace has a group if it has a ScopeSpans in one of the ResourceSpans.
LEMMA ResourcesFound ==
  ASSUME NEW T, NEW t, NEW td \in Seq(ResourceSpans(T))
  PROVE  OfTrace(td, t) # <<>>
           <=> \E r \in 1 .. Len(td) : KeptScopes(td[r].scopes, t) # <<>>
<1> DEFINE ps == [r \in 1 .. Len(td) |-> KeptResource(td[r], t)]
<1>1. Len(td) \in Nat /\ ps \in [1 .. Len(td) -> Seq(ResourceSpans(T))]
      /\ \A r \in 1 .. Len(td) : ps[r] = KeptResource(td[r], t)
  BY ResourceType
<1>2. OfTrace(td, t) = FlattenSeq(ps)
  BY DEF OfTrace
<1> HIDE DEF ps
<1>3. ps \in Seq(Seq(ResourceSpans(T))) /\ Len(ps) = Len(td)
  BY <1>1
<1>4. ASSUME NEW r \in 1 .. Len(td) PROVE ps[r] # <<>> <=> KeptScopes(td[r].scopes, t) # <<>>
  <2>1. PICK rs \in ResourceSpans(T) : rs = td[r]
    OBVIOUS
  <2>2. PICK b, y : b = KeptScopes(rs.scopes, t) /\ y = [res |-> rs.res, scopes |-> b]
    OBVIOUS
  <2>3. KeptResource(rs, t) = IF b = <<>> THEN <<>> ELSE <<y>>
    BY <2>2, ResourceType
  <2>4. <<y>> # <<>>
    BY OneIsSome
  <2> QED BY <1>1, <2>1, <2>2, <2>3, <2>4
<1> QED BY <1>2, <1>3, <1>4, FlattenNothing

\* The traces with a group are the traces of the spans.
LEMMA TracesFound ==
  ASSUME NEW T, NEW td \in Traces(T)
  PROVE  TracesOf(td) = {t \in T : OfTrace(td, t) # <<>>}
<1>0. td \in Seq(ResourceSpans(T))
  BY DEF Traces
<1>1. \A q, e : e \in ToSet(q) <=> \E i \in DOMAIN q : e = q[i]
  BY DEF ToSet
<1>2. \A t : t \in TracesOf(td) <=>
        \E rs \in ToSet(td) : \E ss \in ToSet(rs.scopes) : \E x \in ToSet(ss.spans) : x.tid = t
  BY DEF TracesOf
<1>3. ASSUME NEW t
      PROVE  t \in TracesOf(td) <=> \E r \in 1 .. Len(td) : KeptScopes(td[r].scopes, t) # <<>>
  <2>1. ASSUME NEW ss \in ScopeSpans(T)
        PROVE  (\E x \in ToSet(ss.spans) : x.tid = t) <=> KeptSpans(ss.spans, t) # <<>>
    <3>1. PICK q \in Seq(Span(T)) : q = ss.spans
      BY DEF ScopeSpans
    <3>2. KeptSpans(q, t) # <<>> <=> \E i \in 1 .. Len(q) : q[i].tid = t
      BY SpansFound
    <3>3. DOMAIN q = 1 .. Len(q)
      OBVIOUS
    <3> QED BY <1>1, <3>1, <3>2, <3>3
  <2>2. ASSUME NEW rs \in ResourceSpans(T)
        PROVE  (\E ss \in ToSet(rs.scopes) : \E x \in ToSet(ss.spans) : x.tid = t)
                 <=> KeptScopes(rs.scopes, t) # <<>>
    <3>1. PICK q \in Seq(ScopeSpans(T)) : q = rs.scopes
      BY DEF ResourceSpans
    <3>2. KeptScopes(q, t) # <<>> <=> \E i \in 1 .. Len(q) : KeptSpans(q[i].spans, t) # <<>>
      BY ScopesFound
    <3>3. DOMAIN q = 1 .. Len(q) /\ \A i \in 1 .. Len(q) : q[i] \in ScopeSpans(T)
      OBVIOUS
    <3> QED BY <1>1, <2>1, <3>1, <3>2, <3>3
  <2>3. DOMAIN td = 1 .. Len(td) /\ \A i \in 1 .. Len(td) : td[i] \in ResourceSpans(T)
    BY <1>0
  <2> QED BY <1>1, <1>2, <2>2, <2>3
<1>4. ASSUME NEW t \in TracesOf(td) PROVE t \in T
  <2>1. PICK rs \in ToSet(td) : \E ss \in ToSet(rs.scopes) : \E x \in ToSet(ss.spans) : x.tid = t
    BY <1>2
  <2>2. PICK ss \in ToSet(rs.scopes) : \E x \in ToSet(ss.spans) : x.tid = t
    BY <2>1
  <2>3. PICK x \in ToSet(ss.spans) : x.tid = t
    BY <2>2
  <2>4. rs \in ResourceSpans(T)
    BY <1>0, <1>1
  <2>5. rs.scopes \in Seq(ScopeSpans(T))
    BY <2>4 DEF ResourceSpans
  <2>6. ss \in ScopeSpans(T)
    BY <1>1, <2>5
  <2>7. ss.spans \in Seq(Span(T))
    BY <2>6 DEF ScopeSpans
  <2>8. x \in Span(T)
    BY <1>1, <2>7
  <2> QED BY <2>3, <2>8 DEF Span
<1>5. \A t : OfTrace(td, t) # <<>> <=> \E r \in 1 .. Len(td) : KeptScopes(td[r].scopes, t) # <<>>
  BY <1>0, ResourcesFound
<1> QED BY <1>3, <1>4, <1>5

\* groupByTrace divides a batch as it should.
LEMMA Grouped ==
  ASSUME NEW T, NEW td \in Traces(T)
  PROVE  /\ GroupByTrace(td) = [t \in TracesOf(td) |-> OfTrace(td, t)]
         /\ DOMAIN GroupByTrace(td) \subseteq T
<1>1. GroupByTrace(td) = [t \in {u \in T : OfTrace(td, u) # <<>>} |-> OfTrace(td, t)]
  BY AllGrouped
<1>2. TracesOf(td) = {u \in T : OfTrace(td, u) # <<>>}
  BY TracesFound
<1> QED BY <1>1, <1>2
-----------------------------------------------------------------------------
USE DEF queueVars, histVars
-----------------------------------------------------------------------------
(* Types.                                                                  *)

Fates    == {"waiting", "delivered", "evicted", "early", "dropped"}
Ways     == {"forwarded", "refused", "unstored"}
Verdicts == {"none", "known", "sampled", "local", "notSampled", "dropped"}
Pcs      == {"idle", "next", "undecided", "notify"}
Phases   == {"running", "disconnected", "closing", "down"}
Spans    == {GroupByTrace(td)[t] : td \in Batches, t \in TraceIDs}
Group    == [tid : TraceIDs, spans : Spans, began : Nat]
Call     == [pc : Pcs, td : Batches \union {<<>>}, todo : SUBSET Nat, cur : Nat,
             out : SUBSET Nat]
Record   == [tid : TraceIDs, at : Nat]

QueueTypes ==
  /\ now \in Nat /\ passed \in Nat /\ closed \in BOOLEAN /\ stopped \in BOOLEAN
  /\ accepted \in Seq(Record) /\ fate \in Seq(Fates) /\ Len(fate) = Len(accepted)
  /\ DOMAIN interest \subseteq TraceIDs /\ \A t \in DOMAIN interest : interest[t] \in Nat

CallTypes ==
  /\ call \in [Callers -> Call]
  /\ \A c \in Callers :
       /\ call[c].todo \subseteq 1 .. Len(groups) /\ call[c].out \subseteq 1 .. Len(groups)
       /\ call[c].cur \in 0 .. Len(groups)
       /\ call[c].cur # 0 <=> call[c].pc \in {"undecided", "notify"}

GroupTypes ==
  /\ groups \in Seq(Group) /\ verdict \in Seq(Verdicts) /\ ended \in Seq(Seq(Ways))
  /\ Len(verdict) = Len(groups) /\ Len(ended) = Len(groups)
  /\ groupOf \in Seq(Nat) /\ Len(groupOf) = Len(accepted)
  /\ \A d \in 1 .. Len(groupOf) : groupOf[d] \in 1 .. Len(groups)
  /\ marks \in [TraceIDs -> SUBSET Nat]

TypeInv ==
  /\ QueueTypes /\ CallTypes /\ GroupTypes
  /\ phase \in Phases /\ notified \subseteq TraceIDs /\ decisions \in 0 .. MaxDecisions

\* What a step of caller c does to its call, field by field.
Moves(c, pc, todo, cur, out) ==
  /\ call' \in [Callers -> Call]
  /\ call'[c].pc = pc /\ call'[c].todo = todo /\ call'[c].cur = cur /\ call'[c].out = out
  /\ \A k \in Callers : k # c => call'[k] = call[k]

\* The call after each step of processTraces.
LEMMA CallSteps ==
  ASSUME TypeInv, NEW c \in Callers
  PROVE  /\ \A g \in call[c].todo : TakeKnown(c, g) =>
              Moves(c, "next", call[c].todo \ {g}, call[c].cur, call[c].out \union {g})
         /\ \A g \in call[c].todo : TakeUnknown(c, g) =>
              Moves(c, "undecided", call[c].todo \ {g}, g, call[c].out)
         /\ Sampled(c) =>
              Moves(c, "notify", call[c].todo, call[c].cur, call[c].out \union {call[c].cur})
         /\ Notify(c) => Moves(c, "next", call[c].todo, 0, call[c].out)
         /\ SampledLocal(c) =>
              Moves(c, "next", call[c].todo, 0, call[c].out \union {call[c].cur})
         /\ Store(c) \/ StoreFails(c) => Moves(c, "next", call[c].todo, 0, call[c].out)
         /\ \A how : Return(c, how) => Moves(c, "idle", {}, 0, {})
<1>0. call \in [Callers -> Call] /\ call[c] \in Call
  BY DEF TypeInv, CallTypes
<1>a. call[c].todo \subseteq Nat /\ call[c].cur \in Nat
  BY <1>0 DEF Call
<1> USE DEF Moves, Call, Pcs
<1>1. ASSUME NEW g \in call[c].todo, TakeKnown(c, g)
      PROVE  Moves(c, "next", call[c].todo \ {g}, call[c].cur, call[c].out \union {g})
  BY <1>0, <1>a, <1>1 DEF TakeKnown
<1>2. ASSUME NEW g \in call[c].todo, TakeUnknown(c, g)
      PROVE  Moves(c, "undecided", call[c].todo \ {g}, g, call[c].out)
  BY <1>0, <1>a, <1>2 DEF TakeUnknown
<1>3. ASSUME Sampled(c)
      PROVE  Moves(c, "notify", call[c].todo, call[c].cur, call[c].out \union {call[c].cur})
  BY <1>0, <1>a, <1>3 DEF Sampled
<1>4. ASSUME Notify(c) PROVE Moves(c, "next", call[c].todo, 0, call[c].out)
  BY <1>0, <1>a, <1>4 DEF Notify
<1>5. ASSUME SampledLocal(c)
      PROVE  Moves(c, "next", call[c].todo, 0, call[c].out \union {call[c].cur})
  BY <1>0, <1>a, <1>5 DEF SampledLocal
<1>6. ASSUME Store(c) \/ StoreFails(c) PROVE Moves(c, "next", call[c].todo, 0, call[c].out)
  BY <1>0, <1>a, <1>6 DEF Store, StoreFails
<1>7. ASSUME NEW how, Return(c, how) PROVE Moves(c, "idle", {}, 0, {})
  BY <1>0, <1>a, <1>7 DEF Return, NoCall
<1> QED BY <1>1, <1>2, <1>3, <1>4, <1>5, <1>6, <1>7
-----------------------------------------------------------------------------
(* Sequences, element by element.                                          *)

\* One element replaced.
LEMMA SetAt ==
  ASSUME NEW S, NEW s \in Seq(S), NEW i \in 1 .. Len(s), NEW v \in S
  PROVE  /\ [s EXCEPT ![i] = v] \in Seq(S) /\ Len([s EXCEPT ![i] = v]) = Len(s)
         /\ [s EXCEPT ![i] = v][i] = v
         /\ \A j \in 1 .. Len(s) : j # i => [s EXCEPT ![i] = v][j] = s[j]
  OBVIOUS

\* One element appended.
LEMMA Appended ==
  ASSUME NEW S, NEW s \in Seq(S), NEW v \in S
  PROVE  /\ Append(s, v) \in Seq(S) /\ Len(Append(s, v)) = Len(s) + 1
         /\ Append(s, v)[Len(s) + 1] = v
         /\ \A j \in 1 .. Len(s) : Append(s, v)[j] = s[j]
  OBVIOUS

\* A sequence appended.
LEMMA Grown ==
  ASSUME NEW S, NEW s \in Seq(S), NEW n \in Nat, NEW f \in [1 .. n -> S]
  PROVE  /\ s \o f \in Seq(S) /\ Len(s \o f) = Len(s) + n
         /\ \A j \in 1 .. Len(s) : (s \o f)[j] = s[j]
         /\ \A j \in 1 .. n : (s \o f)[Len(s) + j] = f[j]
<1>1. f \in Seq(S) /\ Len(f) = n
  OBVIOUS
<1>2. Len(s) \in Nat /\ s \o f \in Seq(S) /\ Len(s \o f) = Len(s) + n
  <2>1. Len(s) \in Nat
    OBVIOUS
  <2>2. s \o f \in Seq(S) /\ Len(s \o f) = Len(s) + Len(f)
    BY <1>1, ConcatProperties
  <2> QED BY <1>1, <2>1, <2>2
<1>3. \A j \in 1 .. Len(s) + n : (s \o f)[j] = IF j <= Len(s) THEN s[j] ELSE f[j - Len(s)]
  BY <1>1, ConcatProperties
<1>4. ASSUME NEW j \in 1 .. Len(s) PROVE (s \o f)[j] = s[j]
  BY <1>2, <1>3
<1>5. ASSUME NEW j \in 1 .. n PROVE (s \o f)[Len(s) + j] = f[j]
  <2>1. /\ Len(s) + j \in 1 .. Len(s) + n /\ ~(Len(s) + j <= Len(s))
        /\ (Len(s) + j) - Len(s) = j
    BY <1>2
  <2> QED BY <1>3, <2>1
<1> QED BY <1>2, <1>4, <1>5

\* SetToSeq puts a finite set in some order.
LEMMA OrderTypes ==
  ASSUME NEW T, IsFiniteSet(T)
  PROVE  \E n \in Nat : SetToSeq(T) \in [1 .. n -> T] /\ Len(SetToSeq(T)) = n
<1>1. PICK n \in Nat : n = Cardinality(T)
  BY FS_CardinalityType
<1>2. PICK f \in [1 .. n -> T] : IsInjective(f)
  BY <1>1, FS_CardinalityType
     DEF ExistsBijection, Bijection, Injection, Surjection, IsInjective
<1>3. SetToSeq(T) \in [1 .. n -> T]
  BY <1>1, <1>2 DEF SetToSeq
<1> QED BY <1>3

-----------------------------------------------------------------------------
(* What the steps do to the histories.                                     *)

\* The groups of a new call are appended.
Grew(n) ==
  /\ groups' \in Seq(Group) /\ verdict' \in Seq(Verdicts) /\ ended' \in Seq(Seq(Ways))
  /\ Len(groups') = Len(groups) + n
  /\ Len(verdict') = Len(groups) + n /\ Len(ended') = Len(groups) + n
  /\ \A g \in 1 .. Len(groups) :
       groups'[g] = groups[g] /\ verdict'[g] = verdict[g] /\ ended'[g] = ended[g]
  /\ \A g \in Len(groups) + 1 .. Len(groups) + n : verdict'[g] = "none" /\ ended'[g] = <<>>

\* The call decides on group g.
Ruled(g, v) ==
  /\ verdict' \in Seq(Verdicts) /\ Len(verdict') = Len(verdict) /\ verdict'[g] = v
  /\ \A h \in 1 .. Len(verdict) : h # g => verdict'[h] = verdict[h]

\* The groups of gs leave.
Left(gs, how) ==
  /\ ended' \in Seq(Seq(Ways)) /\ Len(ended') = Len(ended)
  /\ \A g \in 1 .. Len(ended) :
       ended'[g] = IF g \in gs THEN Append(ended[g], how) ELSE ended[g]

\* Record d meets its fate.
Fated(d, f) ==
  /\ fate' \in Seq(Fates) /\ Len(fate') = Len(fate) /\ fate'[d] = f
  /\ \A e \in 1 .. Len(fate) : e # d => fate'[e] = fate[e]

\* A record of group g is accepted.
Kept(g) ==
  /\ accepted' \in Seq(Record) /\ Len(accepted') = Len(accepted) + 1
  /\ fate' \in Seq(Fates) /\ Len(fate') = Len(accepted) + 1
  /\ groupOf' \in Seq(Nat) /\ Len(groupOf') = Len(accepted) + 1
  /\ \A d \in 1 .. Len(accepted) :
       accepted'[d] = accepted[d] /\ fate'[d] = fate[d] /\ groupOf'[d] = groupOf[d]
  /\ LET d == Len(accepted) + 1 IN
     /\ accepted'[d].tid = groups[g].tid /\ accepted'[d].at = groups[g].began
     /\ fate'[d] = "waiting" /\ groupOf'[d] = g

\* Trace t is marked.
Noted(t) ==
  /\ marks' \in [TraceIDs -> SUBSET Nat] /\ marks'[t] = marks[t] \union {now}
  /\ \A u \in TraceIDs : u # t => marks'[u] = marks[u]
  /\ DOMAIN interest' \subseteq TraceIDs
  /\ t \in DOMAIN interest' /\ interest'[t] = now
  /\ \A u \in DOMAIN interest' : u # t => u \in DOMAIN interest /\ interest'[u] = interest[u]
  /\ \A u \in DOMAIN interest : now - interest[u] < 2 * DecisionWait => u \in DOMAIN interest'

\* The trace and the time of a group.
LEMMA GroupType ==
  ASSUME TypeInv, NEW g \in 1 .. Len(groups)
  PROVE  groups[g].tid \in TraceIDs /\ groups[g].began \in Nat
<1>1. groups[g] \in Group
  BY DEF TypeInv, GroupTypes
<1> QED BY <1>1 DEF Group

\* Receive appends the groups of the batch and puts them in the hands of the call.
LEMMA ReceiveEffect ==
  ASSUME TypeInv, NEW c \in Callers, NEW td \in Batches, Receive(c, td)
  PROVE  \E n \in Nat :
           Grew(n) /\ Moves(c, "next", Len(groups) + 1 .. Len(groups) + n, 0, {})
<1> DEFINE T     == DOMAIN GroupByTrace(td)
           order == SetToSeq(T)
           new   == [i \in 1 .. Len(order) |->
                       [tid |-> order[i], spans |-> GroupByTrace(td)[order[i]], began |-> now]]
<1>0. groups \in Seq(Group) /\ verdict \in Seq(Verdicts) /\ ended \in Seq(Seq(Ways))
      /\ Len(verdict) = Len(groups) /\ Len(ended) = Len(groups) /\ now \in Nat
      /\ Len(groups) \in Nat
  BY DEF TypeInv, GroupTypes, QueueTypes
<1>1. T \subseteq TraceIDs /\ IsFiniteSet(T)
  <2>1. td \in Traces(TraceIDs) /\ IsFiniteSet(TraceIDs)
    BY ProcessorAssumption
  <2>2. T \subseteq TraceIDs
    BY <2>1, Grouped
  <2> QED BY <2>1, <2>2, FS_Subset
<1>2. PICK n \in Nat : order \in [1 .. n -> T] /\ Len(order) = n
  BY <1>1, OrderTypes
<1>3. new \in [1 .. n -> Group]
  <2>1. ASSUME NEW i \in 1 .. n
        PROVE  [tid |-> order[i], spans |-> GroupByTrace(td)[order[i]], began |-> now] \in Group
    <3>1. order[i] \in TraceIDs
      BY <1>1, <1>2
    <3>2. GroupByTrace(td)[order[i]] \in Spans
      BY <3>1 DEF Spans
    <3> HIDE DEF order
    <3> QED BY <1>0, <3>1, <3>2 DEF Group
  <2> HIDE DEF order
  <2> QED BY <1>2, <2>1
<1>4. groups' = groups \o new /\ verdict' = verdict \o [i \in 1 .. n |-> "none"]
      /\ ended' = ended \o [i \in 1 .. n |-> <<>>]
  BY <1>2 DEF Receive
<1>5. call' = [call EXCEPT ![c] = [NoCall EXCEPT !.pc = "next", !.td = td,
                                   !.todo = Len(groups) + 1 .. Len(groups) + n]]
  BY <1>2 DEF Receive
<1> HIDE DEF new
<1>6. /\ groups' \in Seq(Group) /\ Len(groups') = Len(groups) + n
      /\ \A g \in 1 .. Len(groups) : groups'[g] = groups[g]
  BY <1>0, <1>3, <1>4, Grown
<1>7. /\ verdict' \in Seq(Verdicts) /\ Len(verdict') = Len(groups) + n
      /\ \A g \in 1 .. Len(groups) : verdict'[g] = verdict[g]
      /\ \A j \in 1 .. n : verdict'[Len(groups) + j] = "none"
  <2>1. PICK f \in [1 .. n -> Verdicts] :
             verdict' = verdict \o f /\ \A i \in 1 .. n : f[i] = "none"
    <3>1. [i \in 1 .. n |-> "none"] \in [1 .. n -> Verdicts]
      BY DEF Verdicts
    <3> QED BY <1>4, <3>1
  <2>a. verdict \in Seq(Verdicts)
    BY <1>0
  <2>2. /\ verdict \o f \in Seq(Verdicts) /\ Len(verdict \o f) = Len(verdict) + n
        /\ \A j \in 1 .. Len(verdict) : (verdict \o f)[j] = verdict[j]
        /\ \A j \in 1 .. n : (verdict \o f)[Len(verdict) + j] = f[j]
    BY SMTT(30), <2>a, Grown
  <2> QED BY <1>0, <2>1, <2>2
<1>8. /\ ended' \in Seq(Seq(Ways)) /\ Len(ended') = Len(groups) + n
      /\ \A g \in 1 .. Len(groups) : ended'[g] = ended[g]
      /\ \A j \in 1 .. n : ended'[Len(groups) + j] = <<>>
  <2>1. PICK f \in [1 .. n -> Seq(Ways)] :
             ended' = ended \o f /\ \A i \in 1 .. n : f[i] = <<>>
    <3>1. [i \in 1 .. n |-> <<>>] \in [1 .. n -> Seq(Ways)]
      OBVIOUS
    <3> QED BY <1>4, <3>1
  <2>a. ended \in Seq(Seq(Ways))
    BY <1>0
  <2>2. /\ ended \o f \in Seq(Seq(Ways)) /\ Len(ended \o f) = Len(ended) + n
        /\ \A j \in 1 .. Len(ended) : (ended \o f)[j] = ended[j]
        /\ \A j \in 1 .. n : (ended \o f)[Len(ended) + j] = f[j]
    BY <2>a, Grown
  <2> QED BY <1>0, <2>1, <2>2
<1>9. \A g \in Len(groups) + 1 .. Len(groups) + n : verdict'[g] = "none" /\ ended'[g] = <<>>
  <2> TAKE g \in Len(groups) + 1 .. Len(groups) + n
  <2>1. g - Len(groups) \in 1 .. n /\ g = Len(groups) + (g - Len(groups))
    BY <1>0
  <2> QED BY <1>7, <1>8, <2>1
<1>10. Grew(n)
  BY <1>6, <1>7, <1>8, <1>9 DEF Grew
<1>11. Moves(c, "next", Len(groups) + 1 .. Len(groups) + n, 0, {})
  <2>1. Len(groups) + 1 .. Len(groups) + n \in SUBSET Nat
    BY <1>0
  <2>2. call \in [Callers -> Call]
    BY DEF TypeInv, CallTypes
  <2> QED BY <1>5, <2>1, <2>2 DEF Moves, Call, Pcs, NoCall
<1> QED BY <1>10, <1>11

\* Assigning a verdict.
LEMMA RuledStep ==
  ASSUME TypeInv, NEW g \in 1 .. Len(groups), NEW v \in Verdicts,
         verdict' = [verdict EXCEPT ![g] = v]
  PROVE  Ruled(g, v)
<1>1. verdict \in Seq(Verdicts) /\ g \in 1 .. Len(verdict)
  BY DEF TypeInv, GroupTypes
<1> QED BY <1>1, SetAt DEF Ruled

\* Ends appends to the ways of the groups it names.
LEMMA LeftStep ==
  ASSUME TypeInv, NEW gs, NEW how \in Ways, Ends(gs, how)
  PROVE  Left(gs, how)
<1>1. ended \in Seq(Seq(Ways)) /\ Len(ended) \in Nat
  BY DEF TypeInv, GroupTypes
<1>2. ASSUME NEW g \in 1 .. Len(ended)
      PROVE  (IF g \in gs THEN Append(ended[g], how) ELSE ended[g]) \in Seq(Ways)
  <2>1. ended[g] \in Seq(Ways)
    BY <1>1
  <2>2. Append(ended[g], how) \in Seq(Ways)
    BY <2>1
  <2> QED BY <2>1, <2>2
<1> QED BY <1>1, <1>2 DEF Ends, Left

\* Assigning a fate.
LEMMA FatedStep ==
  ASSUME TypeInv, NEW d \in 1 .. Len(fate), NEW f \in Fates, fate' = [fate EXCEPT ![d] = f]
  PROVE  Fated(d, f)
<1>1. fate \in Seq(Fates)
  BY DEF TypeInv, QueueTypes
<1> QED BY <1>1, SetAt DEF Fated

\* Accept appends the record of the group.
LEMMA KeptStep ==
  ASSUME TypeInv, NEW g \in 1 .. Len(groups),
         Queue!Accept(groups[g].tid, groups[g].began), groupOf' = Append(groupOf, g)
  PROVE  Kept(g)
<1>1. accepted \in Seq(Record) /\ fate \in Seq(Fates) /\ groupOf \in Seq(Nat)
      /\ Len(fate) = Len(accepted) /\ Len(groupOf) = Len(accepted) /\ Len(groups) \in Nat
  BY DEF TypeInv, QueueTypes, GroupTypes
<1>2. PICK r \in Record : /\ accepted' = Append(accepted, r)
                          /\ r.tid = groups[g].tid /\ r.at = groups[g].began
  BY GroupType DEF Queue!Accept, Record
<1>3. fate' = Append(fate, "waiting") /\ "waiting" \in Fates /\ g \in Nat
  BY <1>1 DEF Queue!Accept, Fates
<1>4. /\ Append(accepted, r) \in Seq(Record) /\ Len(Append(accepted, r)) = Len(accepted) + 1
      /\ Append(accepted, r)[Len(accepted) + 1] = r
      /\ \A d \in 1 .. Len(accepted) : Append(accepted, r)[d] = accepted[d]
  BY <1>1, Appended
<1>5. /\ Append(fate, "waiting") \in Seq(Fates) /\ Len(Append(fate, "waiting")) = Len(fate) + 1
      /\ Append(fate, "waiting")[Len(fate) + 1] = "waiting"
      /\ \A d \in 1 .. Len(fate) : Append(fate, "waiting")[d] = fate[d]
  BY <1>1, <1>3, Appended
<1>6. /\ Append(groupOf, g) \in Seq(Nat) /\ Len(Append(groupOf, g)) = Len(groupOf) + 1
      /\ Append(groupOf, g)[Len(groupOf) + 1] = g
      /\ \A d \in 1 .. Len(groupOf) : Append(groupOf, g)[d] = groupOf[d]
  BY <1>1, <1>3, Appended
<1> QED BY <1>1, <1>2, <1>3, <1>4, <1>5, <1>6 DEF Kept

\* AddInterest marks one trace and prunes old ones.
LEMMA NotedStep ==
  ASSUME TypeInv, NEW t \in TraceIDs, Mark(t)
  PROVE  Noted(t)
<1>1. now \in Nat /\ marks \in [TraceIDs -> SUBSET Nat] /\ DOMAIN interest \subseteq TraceIDs
  BY DEF TypeInv, QueueTypes, GroupTypes
<1>2. interest' = Queue!Marked(t) /\ marks' = [marks EXCEPT ![t] = @ \union {now}]
  BY DEF Mark, Queue!AddInterest
<1>3. /\ marks' \in [TraceIDs -> SUBSET Nat] /\ marks'[t] = marks[t] \union {now}
      /\ \A u \in TraceIDs : u # t => marks'[u] = marks[u]
  BY <1>1, <1>2
<1>4. /\ DOMAIN interest' \subseteq TraceIDs
      /\ t \in DOMAIN interest' /\ interest'[t] = now
      /\ \A u \in DOMAIN interest' : u # t => u \in DOMAIN interest /\ interest'[u] = interest[u]
      /\ \A u \in DOMAIN interest : now - interest[u] < 2 * DecisionWait => u \in DOMAIN interest'
  BY <1>1, <1>2 DEF Queue!Marked
<1> QED BY <1>3, <1>4 DEF Noted

-----------------------------------------------------------------------------
(* Type correctness.                                                       *)

\* The types hold initially.
LEMMA TypeInit == Init => TypeInv
<1> SUFFICES ASSUME Init PROVE TypeInv
  OBVIOUS
<1>1. QueueTypes
  <2>1. DOMAIN interest = {}
    BY DEF Init, Queue!Init
  <2>2. accepted \in Seq(Record) /\ fate \in Seq(Fates) /\ Len(fate) = Len(accepted)
    BY DEF Init, Queue!Init
  <2> QED BY <2>1, <2>2 DEF Init, Queue!Init, QueueTypes
<1>2. CallTypes
  <2>1. NoCall \in Call
    BY DEF NoCall, Call, Pcs
  <2>2. call \in [Callers -> Call] /\ groups = <<>> /\ \A c \in Callers : call[c] = NoCall
    BY <2>1 DEF Init
  <2> QED BY <2>2 DEF CallTypes, NoCall
<1>3. GroupTypes
  BY DEF Init, Queue!Init, GroupTypes
<1>4. phase \in Phases /\ notified \subseteq TraceIDs /\ decisions \in 0 .. MaxDecisions
  BY ProcessorAssumption DEF Init, Phases
<1> QED BY <1>1, <1>2, <1>3, <1>4 DEF TypeInv

\* A step of one call keeps the types of all of them.
LEMMA CallTypesMove ==
  ASSUME TypeInv, NEW c \in Callers, NEW pc, NEW todo, NEW cur, NEW out,
         Moves(c, pc, todo, cur, out), Len(groups') \in Nat, Len(groups) <= Len(groups'),
         todo \subseteq 1 .. Len(groups'), out \subseteq 1 .. Len(groups'),
         cur \in 0 .. Len(groups'), cur # 0 <=> pc \in {"undecided", "notify"}
  PROVE  CallTypes'
<1>0. Len(groups) \in Nat
  BY DEF TypeInv, GroupTypes
<1>1. call' \in [Callers -> Call]
  BY DEF Moves
<1>2. ASSUME NEW k \in Callers
      PROVE  /\ call'[k].todo \subseteq 1 .. Len(groups') /\ call'[k].out \subseteq 1 .. Len(groups')
             /\ call'[k].cur \in 0 .. Len(groups')
             /\ call'[k].cur # 0 <=> call'[k].pc \in {"undecided", "notify"}
  <2>1. CASE k = c
    BY <2>1 DEF Moves
  <2>2. CASE k # c
    <3>1. call'[k] = call[k]
      BY <2>2 DEF Moves
    <3>2. /\ call[k].todo \subseteq 1 .. Len(groups) /\ call[k].out \subseteq 1 .. Len(groups)
          /\ call[k].cur \in 0 .. Len(groups)
          /\ call[k].cur # 0 <=> call[k].pc \in {"undecided", "notify"}
      BY DEF TypeInv, CallTypes
    <3>3. 1 .. Len(groups) \subseteq 1 .. Len(groups') /\ 0 .. Len(groups) \subseteq 0 .. Len(groups')
      BY <1>0
    <3> QED BY <3>1, <3>2, <3>3
  <2> QED BY <2>1, <2>2
<1> QED BY <1>1, <1>2 DEF CallTypes

\* The groups a call has in hand are groups there are.
LEMMA InHand ==
  ASSUME TypeInv, NEW c \in Callers
  PROVE  /\ call[c].todo \subseteq 1 .. Len(groups) /\ call[c].out \subseteq 1 .. Len(groups)
         /\ call[c].cur \in 0 .. Len(groups) /\ Len(groups) \in Nat
         /\ call[c].pc \in Pcs
         /\ call[c].pc \in {"undecided", "notify"} => call[c].cur \in 1 .. Len(groups)
         /\ call[c].pc \notin {"undecided", "notify"} => call[c].cur = 0
<1>1. call[c] \in Call
  BY DEF TypeInv, CallTypes
<1>2. Len(groups) \in Nat
  BY DEF TypeInv, GroupTypes
<1> QED BY <1>1, <1>2 DEF TypeInv, CallTypes, Call

\* Every step of processTraces keeps the types.
LEMMA StepTypes ==
  ASSUME TypeInv, NEW c \in Callers, Step(c)
  PROVE  TypeInv'
<1>0. /\ QueueTypes /\ CallTypes /\ GroupTypes
      /\ phase \in Phases /\ notified \subseteq TraceIDs /\ decisions \in 0 .. MaxDecisions
  BY DEF TypeInv
<1>a. Len(groups) \in Nat
  BY <1>0 DEF GroupTypes
<1>b. /\ call[c].todo \subseteq 1 .. Len(groups) /\ call[c].out \subseteq 1 .. Len(groups)
      /\ call[c].cur \in 0 .. Len(groups)
      /\ call[c].pc \in {"undecided", "notify"} => call[c].cur \in 1 .. Len(groups)
      /\ call[c].pc \notin {"undecided", "notify"} => call[c].cur = 0
  BY InHand
<1>1. ASSUME NEW td \in Batches, Receive(c, td) PROVE TypeInv'
  <2>1. PICK n \in Nat :
          Grew(n) /\ Moves(c, "next", Len(groups) + 1 .. Len(groups) + n, 0, {})
    BY <1>1, ReceiveEffect
  <2>2. Len(groups') = Len(groups) + n /\ Len(groups) <= Len(groups') /\ Len(groups') \in Nat
    BY <1>a, <2>1 DEF Grew
  <2>3. Len(groups) + 1 .. Len(groups) + n \subseteq 1 .. Len(groups')
    BY <1>a, <2>2
  <2>4. CallTypes'
    BY <2>1, <2>2, <2>3, CallTypesMove
  <2>5. QueueTypes'
    BY <1>0, <1>1 DEF Receive, QueueTypes
  <2>6. GroupTypes'
    <3>1. UNCHANGED <<groupOf, marks, accepted>>
      BY <1>1 DEF Receive
    <3>2. \A d \in 1 .. Len(groupOf) : groupOf[d] \in 1 .. Len(groups')
      BY <1>0, <1>a, <2>2 DEF GroupTypes
    <3> QED BY <1>0, <2>1, <2>2, <3>1, <3>2 DEF Grew, GroupTypes
  <2> QED BY <1>0, <1>1, <2>4, <2>5, <2>6 DEF TypeInv, Receive
<1>2. ASSUME NEW g \in call[c].todo, TakeKnown(c, g) PROVE TypeInv'
  <2>1. Moves(c, "next", call[c].todo \ {g}, call[c].cur, call[c].out \union {g})
    BY <1>2, CallSteps
  <2>2. call[c].cur = 0 /\ g \in 1 .. Len(groups)
    BY <1>b, <1>2 DEF TakeKnown
  <2>3. Ruled(g, "known")
    BY <1>2, <2>2, RuledStep DEF TakeKnown, Verdicts
  <2>4. CallTypes'
    <3>1. groups' = groups
      BY <1>2 DEF TakeKnown
    <3> QED BY <1>a, <1>b, <2>1, <2>2, <3>1, CallTypesMove
  <2>5. QueueTypes' /\ GroupTypes'
    BY <1>0, <1>2, <2>3 DEF TakeKnown, QueueTypes, GroupTypes, Ruled
  <2> QED BY <1>0, <1>2, <2>4, <2>5 DEF TypeInv, TakeKnown
<1>3. ASSUME NEW g \in call[c].todo, TakeUnknown(c, g) PROVE TypeInv'
  <2>1. Moves(c, "undecided", call[c].todo \ {g}, g, call[c].out)
    BY <1>3, CallSteps
  <2>2. g \in 1 .. Len(groups)
    BY <1>b
  <2>4. CallTypes'
    <3>1. groups' = groups
      BY <1>3 DEF TakeUnknown
    <3> QED BY <1>a, <1>b, <2>1, <2>2, <3>1, CallTypesMove
  <2>5. QueueTypes' /\ GroupTypes'
    BY <1>0, <1>3 DEF TakeUnknown, QueueTypes, GroupTypes
  <2> QED BY <1>0, <1>3, <2>4, <2>5 DEF TypeInv, TakeUnknown
<1>4. CASE Sampled(c)
  <2>1. Moves(c, "notify", call[c].todo, call[c].cur, call[c].out \union {call[c].cur})
    BY <1>4, CallSteps
  <2>2. call[c].cur \in 1 .. Len(groups) /\ groups[call[c].cur].tid \in TraceIDs
    BY <1>b, <1>4, GroupType DEF Sampled
  <2>3. Ruled(call[c].cur, "sampled") /\ Noted(groups[call[c].cur].tid)
    BY <1>4, <2>2, RuledStep, NotedStep DEF Sampled, Verdicts
  <2>4. CallTypes'
    <3>1. groups' = groups
      BY <1>4 DEF Sampled
    <3> QED BY <1>a, <1>b, <2>1, <2>2, <3>1, CallTypesMove
  <2>5. QueueTypes'
    BY <1>0, <1>4, <2>3 DEF Sampled, Mark, Queue!AddInterest, QueueTypes, Noted
  <2>6. GroupTypes'
    BY <1>0, <1>4, <2>3 DEF Sampled, Mark, Queue!AddInterest, GroupTypes, Noted, Ruled
  <2> QED BY <1>0, <1>4, <2>4, <2>5, <2>6 DEF TypeInv, Sampled
<1>5. CASE Notify(c)
  <2>1. Moves(c, "next", call[c].todo, 0, call[c].out)
    BY <1>5, CallSteps
  <2>2. groups[call[c].cur].tid \in TraceIDs
    BY <1>b, <1>5, GroupType DEF Notify
  <2>4. CallTypes'
    <3>1. groups' = groups
      BY <1>5 DEF Notify
    <3> QED BY <1>a, <1>b, <2>1, <3>1, CallTypesMove
  <2>5. QueueTypes' /\ GroupTypes'
    BY <1>0, <1>5 DEF Notify, QueueTypes, GroupTypes
  <2> QED BY <1>0, <1>5, <2>2, <2>4, <2>5 DEF TypeInv, Notify
<1>6. CASE SampledLocal(c)
  <2>1. Moves(c, "next", call[c].todo, 0, call[c].out \union {call[c].cur})
    BY <1>6, CallSteps
  <2>2. call[c].cur \in 1 .. Len(groups) /\ groups[call[c].cur].tid \in TraceIDs
    BY <1>b, <1>6, GroupType DEF SampledLocal
  <2>3. Ruled(call[c].cur, "local") /\ Noted(groups[call[c].cur].tid)
    BY <1>6, <2>2, RuledStep, NotedStep DEF SampledLocal, Verdicts
  <2>4. CallTypes'
    <3>1. groups' = groups
      BY <1>6 DEF SampledLocal
    <3> QED BY <1>a, <1>b, <2>1, <2>2, <3>1, CallTypesMove
  <2>5. QueueTypes'
    BY <1>0, <1>6, <2>3 DEF SampledLocal, Mark, Queue!AddInterest, QueueTypes, Noted
  <2>6. GroupTypes'
    BY <1>0, <1>6, <2>3 DEF SampledLocal, Mark, Queue!AddInterest, GroupTypes, Noted, Ruled
  <2> QED BY <1>0, <1>6, <2>4, <2>5, <2>6 DEF TypeInv, SampledLocal
<1>7. CASE Store(c)
  <2>1. Moves(c, "next", call[c].todo, 0, call[c].out)
    BY <1>7, CallSteps
  <2>2. call[c].cur \in 1 .. Len(groups)
    BY <1>b, <1>7 DEF Store
  <2>0. PICK v \in Unsampled : verdict' = [verdict EXCEPT ![call[c].cur] = v]
    BY <1>7 DEF Store
  <2>3. Ruled(call[c].cur, v) /\ Kept(call[c].cur)
    BY <1>7, <2>0, <2>2, RuledStep, KeptStep DEF Store, Unsampled, Verdicts
  <2>4. CallTypes'
    <3>1. groups' = groups
      BY <1>7 DEF Store
    <3> QED BY <1>a, <1>b, <2>1, <3>1, CallTypesMove
  <2>5. QueueTypes'
    BY <1>0, <1>7, <2>3 DEF Store, Queue!Accept, QueueTypes, Kept
  <2>6. GroupTypes'
    <3>1. groups' = groups /\ marks' = marks /\ ended' = ended
      BY <1>7 DEF Store
    <3>2. \A d \in 1 .. Len(groupOf') : groupOf'[d] \in 1 .. Len(groups)
      <4> TAKE d \in 1 .. Len(groupOf')
      <4>1. /\ Len(groupOf) = Len(accepted) /\ Len(groupOf) \in Nat
            /\ Len(groupOf') = Len(accepted) + 1
        BY <1>0, <2>3 DEF GroupTypes, Kept
      <4>2. d \in 1 .. Len(groupOf) \/ d = Len(accepted) + 1
        BY <4>1
      <4> QED BY <1>0, <2>2, <2>3, <4>1, <4>2 DEF GroupTypes, Kept
    <3> QED BY <1>0, <2>3, <3>1, <3>2 DEF GroupTypes, Kept, Ruled
  <2> QED BY <1>0, <1>7, <2>4, <2>5, <2>6 DEF TypeInv, Store
<1>8. CASE StoreFails(c)
  <2>1. Moves(c, "next", call[c].todo, 0, call[c].out)
    BY <1>8, CallSteps
  <2>2. call[c].cur \in 1 .. Len(groups)
    BY <1>b, <1>8 DEF StoreFails
  <2>0. PICK v \in Unsampled : verdict' = [verdict EXCEPT ![call[c].cur] = v]
    BY <1>8 DEF StoreFails
  <2>3. Ruled(call[c].cur, v) /\ Left({call[c].cur}, "unstored")
    BY <1>8, <2>0, <2>2, RuledStep, LeftStep DEF StoreFails, Unsampled, Verdicts, Ways
  <2>4. CallTypes'
    <3>1. groups' = groups
      BY <1>8 DEF StoreFails
    <3> QED BY <1>a, <1>b, <2>1, <3>1, CallTypesMove
  <2>5. QueueTypes' /\ GroupTypes'
    BY <1>0, <1>8, <2>3 DEF StoreFails, QueueTypes, GroupTypes, Left, Ruled
  <2> QED BY <1>0, <1>8, <2>4, <2>5 DEF TypeInv, StoreFails
<1>9. ASSUME NEW how \in {"forwarded", "refused"}, Return(c, how) PROVE TypeInv'
  <2>1. Moves(c, "idle", {}, 0, {})
    BY <1>9, CallSteps
  <2>3. Left(call[c].out, how)
    BY <1>9, LeftStep DEF Return, Ways
  <2>4. CallTypes'
    <3>1. groups' = groups
      BY <1>9 DEF Return
    <3> QED BY <1>a, <1>b, <2>1, <3>1, CallTypesMove
  <2>5. QueueTypes' /\ GroupTypes'
    BY <1>0, <1>9, <2>3 DEF Return, QueueTypes, GroupTypes, Left
  <2> QED BY <1>0, <1>9, <2>4, <2>5 DEF TypeInv, Return
<1> QED BY <1>1, <1>2, <1>3, <1>4, <1>5, <1>6, <1>7, <1>8, <1>9 DEF Step

\* The steps of the buffer and of Shutdown leave the calls and the groups alone.
LEMMA OutsideFrame ==
  ASSUME TypeInv, UNCHANGED <<call, groups>>
  PROVE  CallTypes'
  BY DEF TypeInv, CallTypes

\* The sweeper only gives up records that wait, and stops when none is left.
LEMMA SweepEffect ==
  ASSUME TypeInv, Sweep
  PROVE  /\ UNCHANGED <<now, interest, accepted, closed, call, phase, notified, decisions, histVars>>
         /\ fate' \in Seq(Fates) /\ Len(fate') = Len(fate)
         /\ \A d \in 1 .. Len(fate) :
              fate'[d] = fate[d] \/ (fate[d] = "waiting" /\ fate'[d] \in {"evicted", "early", "dropped"})
         /\ passed' \in Nat
         /\ stopped' = stopped \/ (closed /\ Queue!Waiting = {} /\ stopped' = TRUE /\ fate' = fate)
<1>0. fate \in Seq(Fates) /\ passed \in Nat /\ Len(fate) \in Nat
  BY DEF TypeInv, QueueTypes
<1>1. ASSUME NEW d \in Queue!Waiting, Queue!Pass(d)
      PROVE  fate' = fate /\ passed' \in Nat /\ stopped' = stopped
             /\ UNCHANGED <<now, interest, accepted, closed>>
  BY <1>0, <1>1 DEF Queue!Pass, Queue!Waiting
<1>2. ASSUME NEW d \in Queue!Waiting, Queue!Evict(d)
      PROVE  /\ fate' \in Seq(Fates) /\ Len(fate') = Len(fate)
             /\ \A e \in 1 .. Len(fate) :
                  fate'[e] = fate[e] \/ (fate[e] = "waiting" /\ fate'[e] \in {"evicted", "early", "dropped"})
             /\ passed' \in Nat /\ stopped' = stopped
             /\ UNCHANGED <<now, interest, accepted, closed>>
  <2>1. PICK f \in {"evicted", "early"} : fate' = [fate EXCEPT ![d] = f]
    BY <1>2 DEF Queue!Evict
  <2>2. d \in 1 .. Len(fate) /\ fate[d] = "waiting"
    BY DEF Queue!Waiting
  <2>3. Fated(d, f)
    BY <2>1, <2>2, FatedStep DEF Fates
  <2> QED BY <1>2, <2>2, <2>3 DEF Fated, Queue!Evict
<1>3. ASSUME NEW ds \in SUBSET Queue!Waiting, Queue!Drop(ds)
      PROVE  /\ fate' \in Seq(Fates) /\ Len(fate') = Len(fate)
             /\ \A e \in 1 .. Len(fate) :
                  fate'[e] = fate[e] \/ (fate[e] = "waiting" /\ fate'[e] \in {"evicted", "early", "dropped"})
             /\ passed' \in Nat /\ stopped' = stopped
             /\ UNCHANGED <<now, interest, accepted, closed>>
  <2>1. fate' = [d \in 1 .. Len(fate) |-> IF d \in ds THEN "dropped" ELSE fate[d]]
    BY <1>3 DEF Queue!Drop
  <2>2. fate' \in Seq(Fates) /\ Len(fate') = Len(fate)
    <3>1. \A d \in 1 .. Len(fate) : (IF d \in ds THEN "dropped" ELSE fate[d]) \in Fates
      BY <1>0 DEF Fates
    <3> QED BY <1>0, <2>1, <3>1
  <2>3. \A e \in 1 .. Len(fate) :
          fate'[e] = fate[e] \/ (fate[e] = "waiting" /\ fate'[e] \in {"evicted", "early", "dropped"})
    BY <2>1 DEF Queue!Waiting
  <2> QED BY <1>0, <1>3, <2>2, <2>3 DEF Queue!Drop
<1>4. ASSUME Queue!Keep
      PROVE  fate' = fate /\ passed' \in Nat /\ stopped' = stopped
             /\ UNCHANGED <<now, interest, accepted, closed>>
  BY <1>4 DEF Queue!Keep
<1>5. ASSUME Queue!Stop
      PROVE  /\ fate' = fate /\ passed' \in Nat
             /\ closed /\ Queue!Waiting = {} /\ stopped' = TRUE
             /\ UNCHANGED <<now, interest, accepted, closed>>
  BY <1>0, <1>5 DEF Queue!Stop
<1>6. UNCHANGED <<call, phase, notified, decisions, histVars>>
  BY DEF Sweep
<1> QED BY <1>0, <1>1, <1>2, <1>3, <1>4, <1>5, <1>6 DEF Sweep

\* onMatch is called for one waiting record that matches.
LEMMA OnMatchEffect ==
  ASSUME TypeInv, NEW d \in Queue!Waiting, NEW how \in {"forwarded", "refused"}, OnMatch(d, how)
  PROVE  /\ d \in 1 .. Len(fate) /\ fate[d] = "waiting" /\ Queue!Matches(d)
         /\ Fated(d, "delivered") /\ Left({groupOf[d]}, how)
         /\ UNCHANGED <<now, interest, accepted, passed, closed, stopped>>
         /\ UNCHANGED <<call, phase, notified, decisions, groups, verdict, groupOf, marks>>
<1>1. d \in 1 .. Len(fate) /\ fate[d] = "waiting"
  BY DEF Queue!Waiting
<1>2. Fated(d, "delivered")
  BY <1>1, FatedStep DEF OnMatch, Queue!Deliver, Fates
<1>3. Left({groupOf[d]}, how)
  BY LeftStep DEF OnMatch, Ways
<1> QED BY <1>1, <1>2, <1>3 DEF OnMatch, Queue!Deliver

\* Every step keeps the types.
LEMMA TypeNext == TypeInv /\ [Next]_vars => TypeInv'
<1> SUFFICES ASSUME TypeInv, [Next]_vars PROVE TypeInv'
  OBVIOUS
<1>0. /\ QueueTypes /\ CallTypes /\ GroupTypes
      /\ phase \in Phases /\ notified \subseteq TraceIDs /\ decisions \in 0 .. MaxDecisions
  BY DEF TypeInv
<1>1. ASSUME NEW c \in Callers, Step(c) PROVE TypeInv'
  BY <1>1, StepTypes
<1>2. ASSUME NEW d \in Queue!Waiting, NEW how \in {"forwarded", "refused"}, OnMatch(d, how)
      PROVE  TypeInv'
  <2>1. Fated(d, "delivered") /\ Left({groupOf[d]}, how)
        /\ UNCHANGED <<now, interest, accepted, passed, closed, stopped>>
        /\ UNCHANGED <<call, phase, notified, decisions, groups, verdict, groupOf, marks>>
    BY <1>2, OnMatchEffect
  <2>2. QueueTypes'
    BY <1>0, <2>1 DEF QueueTypes, Fated
  <2>3. GroupTypes'
    BY <1>0, <2>1 DEF GroupTypes, Left
  <2> QED BY <1>0, <2>1, <2>2, <2>3, OutsideFrame DEF TypeInv
<1>3. ASSUME NEW t \in TraceIDs, OnDecision(t) PROVE TypeInv'
  <2>1. Noted(t)
    BY <1>3, NotedStep DEF OnDecision
  <2>2. QueueTypes'
    BY <1>0, <1>3, <2>1 DEF OnDecision, Mark, Queue!AddInterest, QueueTypes, Noted
  <2>3. GroupTypes'
    BY <1>0, <1>3, <2>1 DEF OnDecision, Mark, Queue!AddInterest, GroupTypes, Noted
  <2>4. CallTypes'
    BY <1>3, OutsideFrame DEF OnDecision
  <2>5. decisions' \in 0 .. MaxDecisions
    BY <1>0, <1>3, ProcessorAssumption DEF OnDecision
  <2> QED BY <1>0, <1>3, <2>2, <2>3, <2>4, <2>5 DEF TypeInv, OnDecision
<1>4. ASSUME Shutdown \/ CloseBuffer \/ ShutdownReturns PROVE TypeInv'
  <2>1. UNCHANGED <<now, interest, accepted, fate, passed, stopped, call, notified, decisions, histVars>>
        /\ closed' \in BOOLEAN /\ phase' \in Phases
    BY <1>0, <1>4 DEF Shutdown, CloseBuffer, ShutdownReturns, Queue!Close, QueueTypes, Phases
  <2>2. QueueTypes' /\ GroupTypes'
    BY <1>0, <2>1 DEF QueueTypes, GroupTypes
  <2> QED BY <1>0, <2>1, <2>2, OutsideFrame DEF TypeInv
<1>5. CASE Sweep
  <2>1. /\ UNCHANGED <<now, interest, accepted, closed, call, phase, notified, decisions, histVars>>
        /\ fate' \in Seq(Fates) /\ Len(fate') = Len(fate) /\ passed' \in Nat
        /\ stopped' = stopped \/ stopped' = TRUE
    BY <1>5, SweepEffect
  <2>2. QueueTypes' /\ GroupTypes'
    BY <1>0, <2>1 DEF QueueTypes, GroupTypes
  <2> QED BY <1>0, <2>1, <2>2, OutsideFrame DEF TypeInv
<1>6. CASE Tick
  <2>1. now' \in Nat /\ UNCHANGED <<interest, accepted, fate, passed, closed, stopped>>
        /\ UNCHANGED <<call, phase, notified, decisions, histVars>>
    BY <1>0, <1>6 DEF Tick, Queue!Tick, QueueTypes
  <2>2. QueueTypes' /\ GroupTypes'
    BY <1>0, <2>1 DEF QueueTypes, GroupTypes
  <2> QED BY <1>0, <2>1, <2>2, OutsideFrame DEF TypeInv
<1>7. CASE UNCHANGED vars
  <2>1. QueueTypes' /\ GroupTypes'
    BY <1>0, <1>7 DEF vars, QueueTypes, GroupTypes
  <2> QED BY <1>0, <1>7, <2>1, OutsideFrame DEF TypeInv, vars
<1> QED BY <1>1, <1>2, <1>3, <1>4, <1>5, <1>6, <1>7 DEF Next

(* The calls, the groups and the records keep their types and their number: *)
(* a call holds groups that exist, and each record knows its group.         *)
THEOREM ProcessorTypes == Spec => []TypeOK
<1>1. TypeInv => TypeOK
  <2> SUFFICES ASSUME TypeInv PROVE TypeOK
    OBVIOUS
  <2>1. ASSUME NEW c \in Callers
        PROVE  /\ call[c].pc \in {"idle", "next", "undecided", "notify"}
               /\ call[c].todo \union call[c].out \subseteq 1 .. Len(groups)
               /\ call[c].cur \in 0 .. Len(groups)
               /\ (call[c].cur # 0) = (call[c].pc \in {"undecided", "notify"})
    BY InHand DEF TypeInv, CallTypes, Pcs
  <2>2. \A g \in 1 .. Len(groups) : groups[g].tid \in TraceIDs
    BY GroupType
  <2> QED BY <2>1, <2>2 DEF TypeOK, TypeInv, GroupTypes, Phases
<1> QED BY <1>1, TypeInit, TypeNext, PTL DEF Spec

-----------------------------------------------------------------------------
(* Shutdown.                                                               *)

(* After Shutdown was called no call is under way, and a buffer that has    *)
(* stopped is closed and empty.                                             *)
QuietInv ==
  /\ phase # "running" => \A c \in Callers : call[c].pc = "idle"
  /\ phase = "down" => stopped
  /\ stopped => closed /\ Queue!Waiting = {}

\* A call makes steps only before Shutdown.
LEMMA QuietStep ==
  ASSUME TypeInv, QuietInv, NEW c \in Callers, Step(c)
  PROVE  QuietInv' /\ phase = "running"
<1>1. call[c].pc # "idle" \/ phase = "running"
  BY DEF Step, Receive, TakeKnown, TakeUnknown, Sampled, Notify, SampledLocal, Store, StoreFails,
         Return
<1>2. phase = "running"
  BY <1>1 DEF QuietInv
<1>3. phase' = phase /\ stopped' = stopped /\ closed' = closed
  BY DEF Step, Receive, TakeKnown, TakeUnknown, Sampled, Notify, SampledLocal, Store, StoreFails,
         Return, Mark, Queue!AddInterest, Queue!Accept
<1>4. stopped => fate' = fate
  BY DEF Step, Receive, TakeKnown, TakeUnknown, Sampled, Notify, SampledLocal, Store, StoreFails,
         Return, Mark, Queue!AddInterest, Queue!Accept, QuietInv
<1> QED BY <1>2, <1>3, <1>4 DEF QuietInv, Queue!Waiting

\* Every step keeps QuietInv, and is quiet after Shutdown.
LEMMA QuietNext ==
  ASSUME TypeInv, QuietInv, [Next]_vars
  PROVE  QuietInv' /\ (phase = "down" => UNCHANGED <<accepted, fate, ended>>)
<1>0. stopped => Queue!Waiting = {}
  BY DEF QuietInv
<1>1. ASSUME NEW c \in Callers, Step(c)
      PROVE  QuietInv' /\ (phase = "down" => UNCHANGED <<accepted, fate, ended>>)
  BY <1>1, QuietStep
<1>2. ASSUME NEW d \in Queue!Waiting, NEW how \in {"forwarded", "refused"}, OnMatch(d, how)
      PROVE  QuietInv' /\ (phase = "down" => UNCHANGED <<accepted, fate, ended>>)
  <2>1. ~stopped /\ stopped' = stopped /\ UNCHANGED <<call, phase>>
    BY <1>0, <1>2, OnMatchEffect
  <2> QED BY <2>1 DEF QuietInv
<1>3. ASSUME NEW t \in TraceIDs, OnDecision(t)
      PROVE  QuietInv' /\ UNCHANGED <<accepted, fate, ended>>
  BY <1>3 DEF OnDecision, Mark, Queue!AddInterest, QuietInv, Queue!Waiting
<1>4. ASSUME Shutdown \/ CloseBuffer \/ ShutdownReturns
      PROVE  QuietInv' /\ UNCHANGED <<accepted, fate, ended>>
  <2>1. UNCHANGED <<accepted, fate, ended, call, stopped>>
    BY <1>4 DEF Shutdown, CloseBuffer, ShutdownReturns, Queue!Close
  <2>2. (closed => closed') /\ (phase' # "running" => \A c \in Callers : call[c].pc = "idle")
        /\ (phase' = "down" => stopped)
    BY <1>4 DEF Shutdown, CloseBuffer, ShutdownReturns, Queue!Close, QuietInv
  <2> QED BY <2>1, <2>2 DEF QuietInv, Queue!Waiting
<1>5. CASE Sweep
  <2>1. /\ UNCHANGED <<accepted, closed, call, phase, ended>>
        /\ Len(fate') = Len(fate)
        /\ \A d \in 1 .. Len(fate) :
              fate'[d] = fate[d] \/ (fate[d] = "waiting" /\ fate'[d] \in {"evicted", "early", "dropped"})
        /\ stopped' = stopped \/ (closed /\ Queue!Waiting = {} /\ stopped' = TRUE /\ fate' = fate)
    BY <1>5, SweepEffect
  <2>2. stopped => fate' = fate
    BY <1>0, <1>5 DEF Sweep, Queue!Pass, Queue!Evict, Queue!Drop, Queue!Keep, Queue!Stop
  <2>3. stopped' => closed /\ Queue!Waiting = {} /\ fate' = fate
    BY <2>1, <2>2 DEF QuietInv
  <2>4. QuietInv'
    <3>a. phase' = phase /\ (stopped' = stopped \/ stopped' = TRUE)
      BY <2>1
    <3>b. phase = "down" => stopped
      BY DEF QuietInv
    <3>c. stopped => stopped'
      BY ONLY <3>a, Zenon
    <3>1. phase' = "down" => stopped'
      BY ONLY <3>a, <3>b, <3>c, Zenon
    <3> QED BY <2>1, <2>3, <3>1 DEF QuietInv, Queue!Waiting
  <2> QED BY <2>1, <2>2, <2>4 DEF QuietInv
<1>6. ASSUME Tick \/ UNCHANGED vars
      PROVE  QuietInv' /\ UNCHANGED <<accepted, fate, ended>>
  BY <1>6 DEF Tick, Queue!Tick, vars, QuietInv, Queue!Waiting
<1> QED BY <1>1, <1>2, <1>3, <1>4, <1>5, <1>6 DEF Next

(* When Shutdown has returned the buffer's goroutines are gone, and no call *)
(* was left behind: whatever decisions still arrive, nothing is delivered,  *)
(* stored or given up any more.                                             *)
THEOREM ShutdownIsFinal == Spec => QuietAfterShutdown
<1>1. Init => TypeInv /\ QuietInv
  BY TypeInit DEF Init, Queue!Init, QuietInv
<1>2. TypeInv /\ QuietInv /\ [Next]_vars
        => /\ (TypeInv /\ QuietInv)'
           /\ [phase = "down" => UNCHANGED <<accepted, fate, ended>>]_vars
  BY TypeNext, QuietNext
<1> QED BY <1>1, <1>2, PTL DEF Spec, QuietAfterShutdown

-----------------------------------------------------------------------------
(* Where a group is.                                                       *)

Held(g)   == {c \in Callers : g \in call[c].todo \/
                              (g = call[c].cur /\ call[c].pc = "undecided")}
Sent(g)   == {c \in Callers : g \in call[c].out}
Stored(g) == {d \in 1 .. Len(fate) : groupOf[d] = g /\ fate[d] # "delivered"}

\* Group g is in one place.
InHands(g) == (\E c \in Callers : Held(g) = {c}) /\ Sent(g) = {} /\ Stored(g) = {}
              /\ ended[g] = <<>>
InBatch(g) == Held(g) = {} /\ (\E c \in Callers : Sent(g) = {c}) /\ Stored(g) = {}
              /\ ended[g] = <<>>
InStore(g) == Held(g) = {} /\ Sent(g) = {} /\ (\E d \in 1 .. Len(fate) : Stored(g) = {d})
              /\ ended[g] = <<>>
Gone(g)    == Held(g) = {} /\ Sent(g) = {} /\ Stored(g) = {} /\ Len(ended[g]) = 1
Place(g)   == InHands(g) \/ InBatch(g) \/ InStore(g) \/ Gone(g)

(* Each group is in one place; a call that is over has nothing in hand, and *)
(* the group under evaluation is not in the rest of the batch.              *)
PlaceInv ==
  /\ \A g \in 1 .. Len(groups) : Place(g)
  /\ \A c \in Callers : /\ call[c].pc = "idle" => call[c].todo = {} /\ call[c].out = {}
                        /\ call[c].pc = "undecided" => call[c].cur \notin call[c].todo

(* The places of a group after a step of caller c.                          *)
LEMMA PlacesMove ==
  ASSUME TypeInv, NEW c \in Callers, NEW pc, NEW todo, NEW cur, NEW out,
         Moves(c, pc, todo, cur, out), NEW g
  PROVE  /\ Held(g)' = IF g \in todo \/ (g = cur /\ pc = "undecided")
                       THEN Held(g) \union {c} ELSE Held(g) \ {c}
         /\ Sent(g)' = IF g \in out THEN Sent(g) \union {c} ELSE Sent(g) \ {c}
<1>1. /\ call'[c].pc = pc /\ call'[c].todo = todo /\ call'[c].cur = cur /\ call'[c].out = out
      /\ \A k \in Callers : k # c => call'[k] = call[k]
  BY DEF Moves
<1> QED BY <1>1 DEF Held, Sent

\* What the other groups' places depend on.
LEMMA PlaceFrame ==
  ASSUME NEW g, Place(g), Held(g)' = Held(g), Sent(g)' = Sent(g), Stored(g)' = Stored(g),
         ended'[g] = ended[g], 1 .. Len(fate) \subseteq 1 .. Len(fate')
  PROVE  Place(g)'
  BY DEF Place, InHands, InBatch, InStore, Gone

\* Accepting a record puts its group in the store.
LEMMA StoredKept ==
  ASSUME TypeInv, NEW h, Kept(h), NEW g
  PROVE  /\ Stored(g)' = IF g = h THEN Stored(g) \union {Len(fate) + 1} ELSE Stored(g)
         /\ 1 .. Len(fate) \subseteq 1 .. Len(fate') /\ Len(fate) + 1 \in 1 .. Len(fate')
<1>1. /\ Len(fate) \in Nat /\ Len(fate') = Len(fate) + 1
      /\ \A d \in 1 .. Len(fate) : fate'[d] = fate[d] /\ groupOf'[d] = groupOf[d]
      /\ fate'[Len(fate) + 1] = "waiting" /\ groupOf'[Len(fate) + 1] = h
  BY DEF TypeInv, QueueTypes, Kept
<1>2. 1 .. Len(fate') = 1 .. Len(fate) \union {Len(fate) + 1}
  BY <1>1
<1> QED BY <1>1, <1>2 DEF Stored

\* Delivering a record takes it out of the store.
LEMMA StoredDelivered ==
  ASSUME TypeInv, NEW d \in 1 .. Len(fate), Fated(d, "delivered"), groupOf' = groupOf, NEW g
  PROVE  Stored(g)' = Stored(g) \ {d}
<1>1. /\ Len(fate') = Len(fate) /\ fate'[d] = "delivered"
      /\ \A e \in 1 .. Len(fate) : e # d => fate'[e] = fate[e]
  BY DEF Fated
<1> QED BY <1>1 DEF Stored

\* What PlaceInv says of the calls alone, after a step of caller c.
LEMMA CallsMove ==
  ASSUME PlaceInv, NEW c \in Callers, NEW pc, NEW todo, NEW cur, NEW out,
         Moves(c, pc, todo, cur, out),
         pc = "idle" => todo = {} /\ out = {}, pc = "undecided" => cur \notin todo
  PROVE  \A k \in Callers :
           /\ call'[k].pc = "idle" => call'[k].todo = {} /\ call'[k].out = {}
           /\ call'[k].pc = "undecided" => call'[k].cur \notin call'[k].todo
<1>1. /\ call'[c].pc = pc /\ call'[c].todo = todo /\ call'[c].cur = cur /\ call'[c].out = out
      /\ \A k \in Callers : k # c => call'[k] = call[k]
  BY DEF Moves
<1> QED BY <1>1 DEF PlaceInv

\* The groups of a new call are in its hands.
LEMMA PlaceReceive ==
  ASSUME TypeInv, PlaceInv, NEW c \in Callers, NEW td \in Batches, Receive(c, td)
  PROVE  PlaceInv'
<1>1. PICK n \in Nat :
        Grew(n) /\ Moves(c, "next", Len(groups) + 1 .. Len(groups) + n, 0, {})
  BY ReceiveEffect
<1>2. UNCHANGED <<fate, groupOf>> /\ call[c].pc = "idle"
  BY DEF Receive
<1>3. call[c].todo = {} /\ call[c].out = {} /\ call[c].cur = 0 /\ Len(groups) \in Nat
  BY <1>2, InHand DEF PlaceInv
<1>4. ASSUME NEW g \in 1 .. Len(groups) PROVE Place(g)'
  <2>1. c \notin Held(g) /\ c \notin Sent(g)
    BY <1>2, <1>3 DEF Held, Sent
  <2>2. g \notin Len(groups) + 1 .. Len(groups) + n
    BY <1>3
  <2>3. Held(g)' = Held(g) \ {c} /\ Sent(g)' = Sent(g) \ {c}
    BY <1>1, <2>2, PlacesMove
  <2>4. Stored(g)' = Stored(g) /\ ended'[g] = ended[g]
    BY <1>1, <1>2 DEF Stored, Grew
  <2>5. Held(g)' = Held(g) /\ Sent(g)' = Sent(g)
    BY <2>1, <2>3
  <2> QED BY <1>2, <2>4, <2>5, PlaceFrame DEF PlaceInv
<1>5. ASSUME NEW g \in Len(groups) + 1 .. Len(groups) + n PROVE Place(g)'
  <2>1. g \notin 1 .. Len(groups) /\ g # 0
    BY <1>3
  <2>2. Held(g) = {} /\ Sent(g) = {}
    <3>1. \A k \in Callers : /\ call[k].todo \subseteq 1 .. Len(groups)
                             /\ call[k].out \subseteq 1 .. Len(groups)
                             /\ call[k].cur \in 0 .. Len(groups)
      BY DEF TypeInv, CallTypes
    <3>2. g \notin 0 .. Len(groups)
      BY <1>3
    <3> QED BY <2>1, <3>1, <3>2 DEF Held, Sent
  <2>3. Held(g)' = {c} /\ Sent(g)' = {}
    BY <1>1, <2>2, PlacesMove
  <2>4. Stored(g)' = {}
    <3>1. \A d \in 1 .. Len(fate) : groupOf[d] # g
      BY <2>1 DEF TypeInv, GroupTypes, QueueTypes
    <3> QED BY <1>2, <3>1 DEF Stored
  <2>5. ended'[g] = <<>>
    BY <1>1 DEF Grew
  <2> QED BY <2>3, <2>4, <2>5 DEF Place, InHands
<1>6. Len(groups') = Len(groups) + n
  BY <1>1 DEF Grew
<1>7. \A g \in 1 .. Len(groups') : g \in 1 .. Len(groups) \/ g \in Len(groups) + 1 .. Len(groups) + n
  BY <1>3, <1>6
<1>8. \A g \in 1 .. Len(groups') : Place(g)'
  BY <1>4, <1>5, <1>7
<1> QED BY <1>1, <1>8, CallsMove DEF PlaceInv

\* The loop takes a group from the rest of the batch.
LEMMA PlaceTake ==
  ASSUME TypeInv, PlaceInv, NEW c \in Callers, NEW h \in call[c].todo,
         TakeKnown(c, h) \/ TakeUnknown(c, h)
  PROVE  PlaceInv'
<1>0. UNCHANGED <<fate, groupOf, groups, ended>> /\ call[c].pc = "next" /\ call[c].cur = 0
      /\ h # 0 /\ h \in 1 .. Len(groups)
  BY InHand DEF TakeKnown, TakeUnknown
<1>1. c \in Held(h)
  BY DEF Held
<1>2. Held(h) = {c} /\ Sent(h) = {} /\ Stored(h) = {} /\ ended[h] = <<>>
  BY <1>0, <1>1 DEF PlaceInv, Place, InHands, InBatch, InStore, Gone
<1>3. \A g : Stored(g)' = Stored(g)
  BY <1>0 DEF Stored
<1>4. CASE TakeKnown(c, h)
  <2>1. Moves(c, "next", call[c].todo \ {h}, call[c].cur, call[c].out \union {h})
    BY <1>4, CallSteps
  <2>2. ASSUME NEW g \in 1 .. Len(groups), g # h PROVE Place(g)'
    <3>1. Held(g)' = (IF g \in call[c].todo THEN Held(g) \union {c} ELSE Held(g) \ {c})
          /\ Sent(g)' = (IF g \in call[c].out THEN Sent(g) \union {c} ELSE Sent(g) \ {c})
      <4>1. g \in call[c].todo \ {h} <=> g \in call[c].todo
        BY <2>2
      <4>2. g \in call[c].out \union {h} <=> g \in call[c].out
        BY <2>2
      <4> QED BY <2>1, <4>1, <4>2, PlacesMove
    <3>2. (g \in call[c].todo <=> c \in Held(g)) /\ (g \in call[c].out <=> c \in Sent(g))
      BY <1>0 DEF Held, Sent
    <3>3. Held(g)' = Held(g) /\ Sent(g)' = Sent(g)
      BY <3>1, <3>2
    <3> QED BY <1>0, <1>3, <3>3, PlaceFrame DEF PlaceInv
  <2>3. Place(h)'
    <3>1. Held(h)' = {} /\ Sent(h)' = {c}
      BY <1>2, <2>1, PlacesMove
    <3> QED BY <1>0, <1>2, <1>3, <3>1 DEF Place, InBatch
  <2> QED BY <1>0, <2>1, <2>2, <2>3, CallsMove DEF PlaceInv
<1>5. CASE TakeUnknown(c, h)
  <2>1. Moves(c, "undecided", call[c].todo \ {h}, h, call[c].out)
    BY <1>5, CallSteps
  <2>2. ASSUME NEW g \in 1 .. Len(groups) PROVE Place(g)'
    <3>1. Held(g)' = Held(g) /\ Sent(g)' = Sent(g)
      BY <1>0, <2>1, PlacesMove DEF Held, Sent
    <3> QED BY <1>0, <1>3, <3>1, PlaceFrame DEF PlaceInv
  <2> QED BY <1>0, <2>1, <2>2, CallsMove DEF PlaceInv
<1> QED BY <1>4, <1>5

\* The group under evaluation is in the hands of its call alone.
LEMMA Evaluated ==
  ASSUME TypeInv, PlaceInv, NEW c \in Callers, call[c].pc = "undecided"
  PROVE  LET h == call[c].cur IN
         /\ h \in 1 .. Len(groups) /\ h \notin call[c].todo
         /\ Held(h) = {c} /\ Sent(h) = {} /\ Stored(h) = {} /\ ended[h] = <<>>
<1>0. call[c].cur \in 1 .. Len(groups) /\ call[c].cur \notin call[c].todo
  BY InHand DEF PlaceInv
<1>1. c \in Held(call[c].cur)
  BY DEF Held
<1>2. Place(call[c].cur)
  BY <1>0 DEF PlaceInv
<1> QED BY <1>0, <1>1, <1>2 DEF Place, InHands, InBatch, InStore, Gone

\* A sampled group goes to the outgoing batch.
LEMMA PlaceSampled ==
  ASSUME TypeInv, PlaceInv, NEW c \in Callers, Sampled(c) \/ SampledLocal(c)
  PROVE  PlaceInv'
<1>0. UNCHANGED <<fate, groupOf, groups, ended>> /\ call[c].pc = "undecided"
  BY DEF Sampled, SampledLocal, Mark, Queue!AddInterest
<1>1. PICK h \in 1 .. Len(groups) :
        /\ h = call[c].cur /\ h \notin call[c].todo
        /\ Held(h) = {c} /\ Sent(h) = {} /\ Stored(h) = {} /\ ended[h] = <<>>
  BY <1>0, Evaluated
<1>2. PICK pc \in {"notify", "next"}, cur \in {h, 0} :
        Moves(c, pc, call[c].todo, cur, call[c].out \union {h})
  BY <1>1, CallSteps
<1>3. \A g : Stored(g)' = Stored(g)
  BY <1>0 DEF Stored
<1>4. ASSUME NEW g \in 1 .. Len(groups), g # h PROVE Place(g)'
  <2>1. Held(g)' = (IF g \in call[c].todo THEN Held(g) \union {c} ELSE Held(g) \ {c})
        /\ Sent(g)' = (IF g \in call[c].out THEN Sent(g) \union {c} ELSE Sent(g) \ {c})
    <3>1. g \in call[c].out \union {h} <=> g \in call[c].out
      BY <1>4
    <3> QED BY <1>2, <3>1, PlacesMove
  <2>2. (g \in call[c].todo <=> c \in Held(g)) /\ (g \in call[c].out <=> c \in Sent(g))
    BY <1>1, <1>4 DEF Held, Sent
  <2>3. Held(g)' = Held(g) /\ Sent(g)' = Sent(g)
    BY <2>1, <2>2
  <2> QED BY <1>0, <1>3, <2>3, PlaceFrame DEF PlaceInv
<1>5. Place(h)'
  <2>1. Held(h)' = {} /\ Sent(h)' = {c}
    BY <1>1, <1>2, PlacesMove
  <2> QED BY <1>0, <1>1, <1>3, <2>1 DEF Place, InBatch
<1> QED BY <1>0, <1>2, <1>4, <1>5, CallsMove DEF PlaceInv

\* Notify moves no group.
LEMMA PlaceNotify ==
  ASSUME TypeInv, PlaceInv, NEW c \in Callers, Notify(c)
  PROVE  PlaceInv'
<1>0. UNCHANGED <<fate, groupOf, groups, ended>> /\ call[c].pc = "notify"
  BY DEF Notify
<1>2. Moves(c, "next", call[c].todo, 0, call[c].out)
  BY CallSteps
<1>4. ASSUME NEW g \in 1 .. Len(groups) PROVE Place(g)'
  <2>1. Held(g)' = Held(g) /\ Sent(g)' = Sent(g)
    BY <1>0, <1>2, PlacesMove DEF Held, Sent
  <2>2. Stored(g)' = Stored(g)
    BY <1>0 DEF Stored
  <2> QED BY <1>0, <2>1, <2>2, PlaceFrame DEF PlaceInv
<1> QED BY <1>0, <1>2, <1>4, CallsMove DEF PlaceInv

\* Write accepts the group, or it is gone.
LEMMA PlaceStore ==
  ASSUME TypeInv, PlaceInv, NEW c \in Callers, Store(c) \/ StoreFails(c)
  PROVE  PlaceInv'
<1>0. groups' = groups /\ call[c].pc = "undecided"
  BY DEF Store, StoreFails
<1>1. PICK h \in 1 .. Len(groups) :
        /\ h = call[c].cur /\ h \notin call[c].todo
        /\ Held(h) = {c} /\ Sent(h) = {} /\ Stored(h) = {} /\ ended[h] = <<>>
  BY <1>0, Evaluated
<1>2. Moves(c, "next", call[c].todo, 0, call[c].out)
  BY CallSteps
<1>3. \A g : Sent(g)' = Sent(g)
  BY <1>2, PlacesMove DEF Sent
<1>4. ASSUME NEW g \in 1 .. Len(groups), g # h PROVE Held(g)' = Held(g)
  <2>1. Held(g)' = IF g \in call[c].todo THEN Held(g) \union {c} ELSE Held(g) \ {c}
    BY <1>2, PlacesMove
  <2>2. g \in call[c].todo <=> c \in Held(g)
    BY <1>1, <1>4 DEF Held
  <2> QED BY <2>1, <2>2
<1>5. Held(h)' = {}
  BY <1>1, <1>2, PlacesMove
<1>6. CASE Store(c)
  <2>1. Kept(h) /\ ended' = ended
    BY <1>1, <1>6, KeptStep DEF Store
  <2>2. ASSUME NEW g \in 1 .. Len(groups), g # h PROVE Place(g)'
    <3>1. Stored(g)' = Stored(g) /\ 1 .. Len(fate) \subseteq 1 .. Len(fate')
      BY <2>1, <2>2, StoredKept
    <3> QED BY <1>3, <1>4, <2>1, <2>2, <3>1, PlaceFrame DEF PlaceInv
  <2>3. Place(h)'
    <3>1. PICK d \in 1 .. Len(fate') : Stored(h)' = {d}
      BY <1>1, <2>1, StoredKept
    <3> QED BY <1>1, <1>3, <1>5, <2>1, <3>1 DEF Place, InStore
  <2> QED BY <1>0, <1>2, <2>2, <2>3, CallsMove DEF PlaceInv
<1>7. CASE StoreFails(c)
  <2>1. Left({h}, "unstored") /\ UNCHANGED <<fate, groupOf>>
    BY <1>1, <1>7, LeftStep DEF StoreFails, Ways
  <2>2. ASSUME NEW g \in 1 .. Len(groups), g # h PROVE Place(g)'
    <3>1. Stored(g)' = Stored(g) /\ 1 .. Len(fate) \subseteq 1 .. Len(fate')
      BY <2>1 DEF Stored
    <3>2. ended'[g] = ended[g]
      BY <2>1, <2>2 DEF Left, TypeInv, GroupTypes
    <3> QED BY <1>3, <1>4, <2>2, <3>1, <3>2, PlaceFrame DEF PlaceInv
  <2>3. Place(h)'
    <3>1. Stored(h)' = {} /\ Sent(h)' = {}
      BY <1>1, <1>3, <2>1 DEF Stored
    <3>2. ended'[h] = Append(<<>>, "unstored")
      BY <1>1, <2>1 DEF Left, TypeInv, GroupTypes
    <3>3. Len(ended'[h]) = 1
      BY <3>2
    <3> QED BY <1>5, <3>1, <3>3 DEF Place, Gone
  <2> QED BY <1>0, <1>2, <2>2, <2>3, CallsMove DEF PlaceInv
<1> QED BY <1>6, <1>7

\* The outgoing batch leaves.
LEMMA PlaceReturn ==
  ASSUME TypeInv, PlaceInv, NEW c \in Callers, NEW how \in {"forwarded", "refused"},
         Return(c, how)
  PROVE  PlaceInv'
<1>0. /\ UNCHANGED <<fate, groupOf, groups>> /\ call[c].pc = "next" /\ call[c].todo = {}
      /\ Len(ended) = Len(groups)
  BY DEF Return, TypeInv, GroupTypes
<1>1. Left(call[c].out, how) /\ Moves(c, "idle", {}, 0, {})
  BY LeftStep, CallSteps DEF Return, Ways
<1>2. \A g : Held(g)' = Held(g) \ {c} /\ Sent(g)' = Sent(g) \ {c}
  BY <1>1, PlacesMove
<1>3. \A g : Stored(g)' = Stored(g) /\ c \notin Held(g)
  BY <1>0 DEF Stored, Held
<1>4. ASSUME NEW g \in 1 .. Len(groups), g \notin call[c].out PROVE Place(g)'
  <2>1. c \notin Sent(g) /\ ended'[g] = ended[g]
    BY <1>0, <1>1, <1>4 DEF Sent, Left
  <2>2. Held(g)' = Held(g) /\ Sent(g)' = Sent(g)
    BY <1>2, <1>3, <2>1
  <2> QED BY <1>0, <1>3, <2>1, <2>2, PlaceFrame DEF PlaceInv
<1>5. ASSUME NEW g \in 1 .. Len(groups), g \in call[c].out PROVE Place(g)'
  <2>1. c \in Sent(g) /\ Place(g)
    BY <1>5 DEF Sent, PlaceInv
  <2>2. Held(g) = {} /\ Sent(g) = {c} /\ Stored(g) = {} /\ ended[g] = <<>>
    BY <2>1 DEF Place, InHands, InBatch, InStore, Gone
  <2>3. Held(g)' = {} /\ Sent(g)' = {} /\ Stored(g)' = {}
    BY <1>2, <1>3, <2>2
  <2>4. ended'[g] = Append(<<>>, how)
    BY <1>0, <1>1, <1>5, <2>2 DEF Left
  <2>5. Len(ended'[g]) = 1
    BY <2>4
  <2> QED BY <2>3, <2>5 DEF Place, Gone
<1> QED BY <1>0, <1>1, <1>4, <1>5, CallsMove DEF PlaceInv

\* The group of a delivered record leaves.
LEMMA PlaceDeliver ==
  ASSUME TypeInv, PlaceInv, NEW d \in Queue!Waiting, NEW how \in {"forwarded", "refused"},
         OnMatch(d, how)
  PROVE  PlaceInv'
<1>1. /\ d \in 1 .. Len(fate) /\ fate[d] = "waiting"
      /\ Fated(d, "delivered") /\ Left({groupOf[d]}, how)
      /\ UNCHANGED <<call, groups, groupOf>>
  BY OnMatchEffect
<1>2. PICK h \in 1 .. Len(groups) : h = groupOf[d]
  BY <1>1 DEF TypeInv, GroupTypes, QueueTypes
<1>3. \A g : Held(g)' = Held(g) /\ Sent(g)' = Sent(g) /\ Stored(g)' = Stored(g) \ {d}
  BY <1>1, StoredDelivered DEF Held, Sent
<1>4. Len(ended) = Len(groups) /\ Len(fate') = Len(fate)
  BY <1>1 DEF TypeInv, GroupTypes, Fated
<1>5. ASSUME NEW g \in 1 .. Len(groups), g # h PROVE Place(g)'
  <2>1. d \notin Stored(g) /\ ended'[g] = ended[g]
    BY <1>1, <1>2, <1>4, <1>5 DEF Stored, Left
  <2>2. Stored(g)' = Stored(g)
    BY <1>3, <2>1
  <2> QED BY <1>3, <1>4, <2>1, <2>2, PlaceFrame DEF PlaceInv
<1>6. Place(h)'
  <2>1. d \in Stored(h) /\ Place(h)
    BY <1>1, <1>2 DEF Stored, PlaceInv
  <2>2. Held(h) = {} /\ Sent(h) = {} /\ Stored(h) = {d} /\ ended[h] = <<>>
    BY <2>1 DEF Place, InHands, InBatch, InStore, Gone
  <2>3. Held(h)' = {} /\ Sent(h)' = {} /\ Stored(h)' = {}
    BY <1>3, <2>2
  <2>4. ended'[h] = Append(<<>>, how)
    BY <1>1, <1>2, <1>4, <2>2 DEF Left
  <2>5. Len(ended'[h]) = 1
    BY <2>4
  <2> QED BY <2>3, <2>5 DEF Place, Gone
<1> QED BY <1>1, <1>5, <1>6 DEF PlaceInv

\* Every step keeps each group in one place.
LEMMA PlaceNext == TypeInv /\ PlaceInv /\ [Next]_vars => PlaceInv'
<1> SUFFICES ASSUME TypeInv, PlaceInv, [Next]_vars PROVE PlaceInv'
  OBVIOUS
<1>1. ASSUME NEW c \in Callers, Step(c) PROVE PlaceInv'
  BY <1>1, PlaceReceive, PlaceTake, PlaceSampled, PlaceNotify, PlaceStore, PlaceReturn DEF Step
<1>2. ASSUME NEW d \in Queue!Waiting, NEW how \in {"forwarded", "refused"}, OnMatch(d, how)
      PROVE  PlaceInv'
  BY <1>2, PlaceDeliver
<1>3. ASSUME UNCHANGED <<call, groups, groupOf, ended>>, Len(fate') = Len(fate),
             \A d \in 1 .. Len(fate) : fate'[d] = "delivered" <=> fate[d] = "delivered"
      PROVE  PlaceInv'
  <2>1. \A g : Held(g)' = Held(g) /\ Sent(g)' = Sent(g) /\ Stored(g)' = Stored(g)
    BY <1>3 DEF Held, Sent, Stored
  <2>2. \A g \in 1 .. Len(groups) : Place(g)'
    BY <1>3, <2>1, PlaceFrame DEF PlaceInv
  <2> QED BY <1>3, <2>2 DEF PlaceInv
<1>4. ASSUME NEW t \in TraceIDs, OnDecision(t) PROVE PlaceInv'
  <2>1. UNCHANGED <<call, groups, groupOf, ended, fate>>
    BY <1>4 DEF OnDecision, Mark, Queue!AddInterest
  <2> QED BY <1>3, <2>1
<1>5. CASE Shutdown \/ CloseBuffer \/ ShutdownReturns \/ Tick \/ UNCHANGED vars
  <2>1. UNCHANGED <<call, groups, groupOf, ended, fate>>
    BY <1>5 DEF Shutdown, CloseBuffer, ShutdownReturns, Queue!Close, Tick, Queue!Tick, vars
  <2> QED BY <1>3, <2>1
<1>6. CASE Sweep
  <2>1. /\ UNCHANGED <<call, groups, groupOf, ended>> /\ Len(fate') = Len(fate)
        /\ \A d \in 1 .. Len(fate) :
             fate'[d] = fate[d] \/ (fate[d] = "waiting" /\ fate'[d] \in {"evicted", "early", "dropped"})
    BY <1>6, SweepEffect
  <2>2. \A d \in 1 .. Len(fate) : fate'[d] = "delivered" <=> fate[d] = "delivered"
    BY <2>1
  <2> QED BY <1>3, <2>1, <2>2
<1> QED BY <1>1, <1>2, <1>4, <1>5, <1>6 DEF Next

(* Every group that processTraces receives is kept exactly once: by one     *)
(* call, in one record of the buffer, or out by one of the named ways; none *)
(* is lost between HasInterest, Evaluate and Write, forwarded twice, or     *)
(* forwarded by its call and stored as well.                                *)
THEOREM EveryGroupOnce == Spec => []OneFate
<1>1. Init => PlaceInv
  BY DEF Init, PlaceInv, NoCall
<1>2. TypeInv /\ PlaceInv => OneFate
  <2> SUFFICES ASSUME TypeInv, PlaceInv, NEW g \in 1 .. Len(groups)
               PROVE  Cardinality(Held(g)) + Cardinality(Sent(g)) + Cardinality(Stored(g))
                        + Len(ended[g]) = 1
    BY DEF OneFate, Held, Sent, Stored
  <2>1. Place(g)
    BY DEF PlaceInv
  <2>2. Cardinality({}) = 0 /\ \A x : Cardinality({x}) = 1
    BY FS_EmptySet, FS_Singleton
  <2>3. Len(<<>>) = 0
    OBVIOUS
  <2>4. CASE InHands(g)
    <3>1. Cardinality(Held(g)) = 1 /\ Cardinality(Sent(g)) = 0
          /\ Cardinality(Stored(g)) = 0 /\ Len(ended[g]) = 0
      BY <2>2, <2>3, <2>4 DEF InHands
    <3> QED BY <3>1
  <2>5. CASE InBatch(g)
    <3>1. Cardinality(Held(g)) = 0 /\ Cardinality(Sent(g)) = 1
          /\ Cardinality(Stored(g)) = 0 /\ Len(ended[g]) = 0
      BY <2>2, <2>3, <2>5 DEF InBatch
    <3> QED BY <3>1
  <2>6. CASE InStore(g)
    <3>1. Cardinality(Held(g)) = 0 /\ Cardinality(Sent(g)) = 0
          /\ Cardinality(Stored(g)) = 1 /\ Len(ended[g]) = 0
      BY <2>2, <2>3, <2>6 DEF InStore
    <3> QED BY <3>1
  <2>7. CASE Gone(g)
    <3>1. Cardinality(Held(g)) = 0 /\ Cardinality(Sent(g)) = 0
          /\ Cardinality(Stored(g)) = 0 /\ Len(ended[g]) = 1
      BY <2>2, <2>3, <2>7 DEF Gone
    <3> QED BY <3>1
  <2> QED BY <2>1, <2>4, <2>5, <2>6, <2>7 DEF Place
<1> QED BY <1>1, <1>2, TypeInit, TypeNext, PlaceNext, PTL DEF Spec

-----------------------------------------------------------------------------
(* Decisions.                                                              *)

(* The interest set knows the last mark of a trace, and forgets a trace     *)
(* only when its marks are all two decisionWaits old.                       *)
MarkInv ==
  /\ \A t \in TraceIDs : \A m \in marks[t] :
       /\ m <= now
       /\ now - m >= 2 * DecisionWait \/ (t \in DOMAIN interest /\ m <= interest[t])
  /\ \A t \in DOMAIN interest : interest[t] \in marks[t]

\* Every step keeps MarkInv.
LEMMA MarkNext == TypeInv /\ MarkInv /\ [Next]_vars => MarkInv'
<1> SUFFICES ASSUME TypeInv, MarkInv, [Next]_vars PROVE MarkInv'
  OBVIOUS
<1>0. /\ now \in Nat /\ marks \in [TraceIDs -> SUBSET Nat] /\ DOMAIN interest \subseteq TraceIDs
      /\ \A t \in DOMAIN interest : interest[t] \in Nat
      /\ DecisionWait \in Nat
  BY ProcessorAssumption DEF TypeInv, QueueTypes, GroupTypes
<1>1. ASSUME NEW t \in TraceIDs, Mark(t) PROVE MarkInv'
  <2>0. Noted(t) /\ now' = now
    BY <1>1, NotedStep DEF Mark, Queue!AddInterest
  <2>1. ASSUME NEW u \in TraceIDs, NEW m \in marks'[u]
        PROVE  /\ m <= now
               /\ now - m >= 2 * DecisionWait \/ (u \in DOMAIN interest' /\ m <= interest'[u])
    <3>1. CASE m \in marks[u]
      <4>1. m \in Nat /\ m <= now
        BY <1>0, <3>1 DEF MarkInv
      <4>2. CASE now - m >= 2 * DecisionWait
        BY <4>1, <4>2
      <4>3. CASE u \in DOMAIN interest /\ m <= interest[u] /\ now - m < 2 * DecisionWait
        <5>1. now - interest[u] < 2 * DecisionWait
          BY <1>0, <4>1, <4>3
        <5>2. u \in DOMAIN interest' /\ (u = t => interest'[u] = now)
              /\ (u # t => interest'[u] = interest[u])
          BY <2>0, <4>3, <5>1 DEF Noted
        <5> QED BY <4>1, <4>3, <5>2
      <4> QED BY <1>0, <3>1, <4>1, <4>2, <4>3 DEF MarkInv
    <3>2. CASE m \notin marks[u]
      <4>1. u = t /\ m = now
        BY <2>0, <2>1, <3>2 DEF Noted
      <4> QED BY <1>0, <2>0, <4>1 DEF Noted
    <3> QED BY <3>1, <3>2
  <2>2. ASSUME NEW u \in DOMAIN interest' PROVE interest'[u] \in marks'[u]
    BY <1>0, <2>0 DEF MarkInv, Noted
  <2> QED BY <2>0, <2>1, <2>2 DEF MarkInv
<1>2. ASSUME UNCHANGED <<interest, marks>>, now' \in {now, now + 1} PROVE MarkInv'
  <2>1. now' \in Nat /\ now <= now'
    BY <1>0, <1>2
  <2>2. ASSUME NEW u \in TraceIDs, NEW m \in marks[u]
        PROVE  /\ m <= now'
               /\ now' - m >= 2 * DecisionWait \/ (u \in DOMAIN interest /\ m <= interest[u])
    <3>1. m \in Nat /\ m <= now
          /\ (now - m >= 2 * DecisionWait \/ (u \in DOMAIN interest /\ m <= interest[u]))
      BY <1>0 DEF MarkInv
    <3>2. m <= now'
      BY ONLY <1>0, <2>1, <3>1
    <3>3. now - m >= 2 * DecisionWait => now' - m >= 2 * DecisionWait
      <4>1. \A a, b, e, w \in Nat : a <= b /\ a - e >= w => b - e >= w
        OBVIOUS
      <4>2. 2 * DecisionWait \in Nat
        BY <1>0
      <4> QED BY ONLY <1>0, <2>1, <3>1, <4>1, <4>2
    <3> QED BY <3>1, <3>2, <3>3
  <2> QED BY <1>2, <2>2 DEF MarkInv
<1>3. ASSUME NEW c \in Callers, Step(c) PROVE MarkInv'
  <2>1. ASSUME Sampled(c) \/ SampledLocal(c)
        PROVE  \E t \in TraceIDs : Mark(t)
    <3>1. call[c].cur \in 1 .. Len(groups)
      BY <2>1, InHand DEF Sampled, SampledLocal
    <3> QED BY <2>1, <3>1, GroupType DEF Sampled, SampledLocal
  <2>2. ASSUME ~(Sampled(c) \/ SampledLocal(c)) PROVE UNCHANGED <<interest, marks, now>>
    BY <1>3, <2>2 DEF Step, Receive, TakeKnown, TakeUnknown, Notify, Store, StoreFails, Return,
                      Queue!Accept
  <2> QED BY <1>1, <1>2, <2>1, <2>2
<1>4. ASSUME NEW t \in TraceIDs, OnDecision(t) PROVE MarkInv'
  BY <1>1, <1>4 DEF OnDecision
<1>5. ASSUME NEW d \in Queue!Waiting, NEW how \in {"forwarded", "refused"}, OnMatch(d, how)
      PROVE  MarkInv'
  BY <1>2, <1>5, OnMatchEffect
<1>6. CASE Sweep
  BY <1>2, <1>6, SweepEffect
<1>7. CASE Shutdown \/ CloseBuffer \/ ShutdownReturns \/ Tick \/ UNCHANGED vars
  <2>1. UNCHANGED <<interest, marks>> /\ now' \in {now, now + 1}
    BY <1>7 DEF Shutdown, CloseBuffer, ShutdownReturns, Queue!Close, Tick, Queue!Tick, vars
  <2> QED BY <1>2, <2>1
<1> QED BY <1>3, <1>4, <1>5, <1>6, <1>7 DEF Next

\* MarkInv holds initially.
LEMMA MarkInit == Init => MarkInv
<1> SUFFICES ASSUME Init PROVE MarkInv
  OBVIOUS
<1>1. DOMAIN interest = {} /\ \A t \in TraceIDs : marks[t] = {}
  BY DEF Init, Queue!Init
<1> QED BY <1>1 DEF MarkInv

(* A decision in a record's window is not missed: if the sweeper finds the  *)
(* record undecided, every mark in the window is two decisionWaits old or   *)
(* was replaced by one made after the window, wherever in the race between  *)
(* HasInterest, Write and AddInterest it fell.                              *)
THEOREM TraceSampledWhole == Spec => WholeTrace
<1> DEFINE A == \A d \in 1 .. Len(accepted) :
                  (passed = 0 /\ passed' = d) =>
                    \A m \in marks[accepted[d].tid] :
                      m < accepted[d].at + DecisionWait =>
                        \/ now - m >= 2 * DecisionWait
                        \/ \E r \in marks[accepted[d].tid] : r >= accepted[d].at + DecisionWait
<1>1. TypeInv /\ MarkInv /\ [Next]_vars => [A]_vars
  <2> SUFFICES ASSUME TypeInv, MarkInv, [Next]_vars, NEW d \in 1 .. Len(accepted),
                      passed = 0, passed' = d, NEW m \in marks[accepted[d].tid],
                      m < accepted[d].at + DecisionWait, ~(now - m >= 2 * DecisionWait)
               PROVE  \E r \in marks[accepted[d].tid] : r >= accepted[d].at + DecisionWait
    OBVIOUS
  <2>0. /\ accepted[d] \in Record /\ Len(accepted) \in Nat
        /\ \A t \in DOMAIN interest : interest[t] \in Nat
        /\ DecisionWait \in Nat
    BY ProcessorAssumption DEF TypeInv, QueueTypes
  <2>a. accepted[d].tid \in TraceIDs /\ accepted[d].at \in Nat /\ d # 0
    BY <2>0 DEF Record
  <2>1. ~Queue!Matches(d)
    <3>1. passed' # passed
      BY <2>a
    <3>2. ASSUME NEW c \in Callers, Step(c) PROVE passed' = passed
      BY ONLY <3>2 DEF Step, Receive, TakeKnown, TakeUnknown, Sampled, Notify, SampledLocal, Store,
             StoreFails, Return, Mark, Queue!AddInterest, Queue!Accept, queueVars
    <3>3. Sweep
      BY <3>1, <3>2 DEF Next, OnMatch, Queue!Deliver, OnDecision, Mark, Queue!AddInterest, Shutdown,
             CloseBuffer, Queue!Close, ShutdownReturns, Tick, Queue!Tick, vars
    <3>4. \E e \in Queue!Waiting : Queue!Pass(e)
      BY <2>a, <3>1, <3>3 DEF Sweep, Queue!Evict, Queue!Drop, Queue!Keep, Queue!Stop
    <3> QED BY <3>4 DEF Queue!Pass
  <2>2. accepted[d].tid \in DOMAIN interest /\ m <= interest[accepted[d].tid]
    BY <2>a DEF MarkInv
  <2>3. interest[accepted[d].tid] >= accepted[d].at + DecisionWait
    BY <2>0, <2>a, <2>1, <2>2 DEF Queue!Matches
  <2> QED BY <2>2, <2>3 DEF MarkInv
<1>2. Spec => [][A]_vars
  BY <1>1, TypeInit, TypeNext, MarkInit, MarkNext, PTL DEF Spec
<1> QED BY <1>2 DEF WholeTrace

\* Group g was rightly given to the next consumer, if it was.
Justified(g) ==
  /\ verdict[g] \in Unsampled => \E m \in marks[groups[g].tid] : m < groups[g].began + DecisionWait
  /\ verdict[g] # "none"
  /\ verdict[g] \notin Unsampled => marks[groups[g].tid] # {}

(* A record carries the trace and the time of its group, which was stored;  *)
(* a group in an outgoing batch has a decided trace.                        *)
Decided(g) ==
  /\ \A d \in Stored(g) : /\ verdict[g] \in Unsampled
                          /\ accepted[d].tid = groups[g].tid /\ accepted[d].at = groups[g].began
  /\ \A c \in Sent(g) : verdict[g] \in {"known", "sampled", "local"} /\ marks[groups[g].tid] # {}
  /\ ended[g] # <<>> /\ Head(ended[g]) \in {"forwarded", "refused"} => Justified(g)

DecideInv == \A g \in 1 .. Len(groups) : Decided(g)

\* Marks are only added.
LEMMA MarksGrow ==
  ASSUME TypeInv, [Next]_vars
  PROVE  \A t \in TraceIDs : marks[t] \subseteq marks'[t]
<1>0. marks \in [TraceIDs -> SUBSET Nat]
  BY DEF TypeInv, GroupTypes
<1>1. ASSUME NEW t, marks' = [marks EXCEPT ![t] = @ \union {now}]
      PROVE  \A u \in TraceIDs : marks[u] \subseteq marks'[u]
  BY <1>0, <1>1
<1>2. ASSUME NEW c \in Callers, Step(c)
      PROVE  marks' = marks \/ \E t : marks' = [marks EXCEPT ![t] = @ \union {now}]
  BY ONLY <1>2 DEF Step, Receive, TakeKnown, TakeUnknown, Sampled, Notify, SampledLocal, Store,
                   StoreFails, Return, Mark, histVars
<1>3. marks' = marks \/ \E t : marks' = [marks EXCEPT ![t] = @ \union {now}]
  BY <1>2 DEF Next, Mark, OnMatch, OnDecision, Shutdown, CloseBuffer, ShutdownReturns, Sweep, Tick,
              vars
<1> QED BY <1>1, <1>3

\* What Decided(g) depends on.
LEMMA DecidedFrame ==
  ASSUME TypeInv, [Next]_vars, NEW g \in 1 .. Len(groups), Decided(g),
         groups'[g] = groups[g], verdict'[g] = verdict[g], ended'[g] = ended[g],
         Sent(g)' \subseteq Sent(g), Stored(g)' \subseteq Stored(g),
         \A d \in Stored(g) : accepted'[d] = accepted[d]
  PROVE  Decided(g)'
<1>1. groups[g].tid \in TraceIDs
  BY GroupType
<1>2. marks[groups[g].tid] \subseteq marks'[groups[g].tid]
  BY <1>1, MarksGrow
<1>3. Justified(g) => Justified(g)'
  BY <1>2 DEF Justified
<1> QED BY <1>2, <1>3 DEF Decided

\* New groups are nowhere but in hands.
LEMMA DecideReceive ==
  ASSUME TypeInv, PlaceInv, DecideInv, [Next]_vars,
         NEW c \in Callers, NEW td \in Batches, Receive(c, td)
  PROVE  DecideInv'
<1>1. PICK n \in Nat :
        Grew(n) /\ Moves(c, "next", Len(groups) + 1 .. Len(groups) + n, 0, {})
  BY ReceiveEffect
<1>2. UNCHANGED <<fate, groupOf, accepted>> /\ Len(groups) \in Nat
  BY InHand DEF Receive
<1>3. \A g : Stored(g)' = Stored(g) /\ Sent(g)' \subseteq Sent(g)
  <2>1. \A g : Sent(g)' = Sent(g) \ {c}
    BY <1>1, PlacesMove
  <2> QED BY <1>2, <2>1 DEF Stored
<1>4. ASSUME NEW g \in 1 .. Len(groups) PROVE Decided(g)'
  <2>1. groups'[g] = groups[g] /\ verdict'[g] = verdict[g] /\ ended'[g] = ended[g]
    BY <1>1 DEF Grew
  <2> QED BY <1>2, <1>3, <2>1, DecidedFrame DEF DecideInv
<1>5. ASSUME NEW g \in Len(groups) + 1 .. Len(groups) + n PROVE Decided(g)'
  <2>1. ended'[g] = <<>>
    BY <1>1 DEF Grew
  <2>2. Sent(g) = {} /\ Stored(g) = {}
    <3>0. g \notin 1 .. Len(groups)
      BY <1>2
    <3>1. \A k \in Callers : call[k].out \subseteq 1 .. Len(groups)
      BY InHand
    <3>2. \A d \in 1 .. Len(fate) : groupOf[d] \in 1 .. Len(groups)
      BY DEF TypeInv, GroupTypes, QueueTypes
    <3> QED BY <3>0, <3>1, <3>2 DEF Sent, Stored
  <2> QED BY <1>3, <2>1, <2>2 DEF Decided
<1>6. Len(groups') = Len(groups) + n
  BY <1>1 DEF Grew
<1>7. \A g \in 1 .. Len(groups') : g \in 1 .. Len(groups) \/ g \in Len(groups) + 1 .. Len(groups) + n
  BY <1>2, <1>6
<1> QED BY <1>4, <1>5, <1>7 DEF DecideInv

\* A group is taken as known only if its trace is marked.
LEMMA DecideTake ==
  ASSUME TypeInv, PlaceInv, MarkInv, DecideInv, [Next]_vars,
         NEW c \in Callers, NEW h \in call[c].todo, TakeKnown(c, h) \/ TakeUnknown(c, h)
  PROVE  DecideInv'
<1>0. UNCHANGED <<fate, groupOf, groups, ended, accepted, marks>> /\ h \in 1 .. Len(groups)
  BY InHand DEF TakeKnown, TakeUnknown
<1>1. c \in Held(h)
  BY DEF Held
<1>2. Held(h) = {c} /\ Sent(h) = {} /\ Stored(h) = {} /\ ended[h] = <<>>
  BY <1>0, <1>1 DEF PlaceInv, Place, InHands, InBatch, InStore, Gone
<1>3. \A g : Stored(g)' = Stored(g)
  BY <1>0 DEF Stored
<1>4. CASE TakeKnown(c, h)
  <2>1. Moves(c, "next", call[c].todo \ {h}, call[c].cur, call[c].out \union {h}) /\ Ruled(h, "known")
    BY <1>0, <1>4, CallSteps, RuledStep DEF TakeKnown, Verdicts
  <2>2. ASSUME NEW g \in 1 .. Len(groups), g # h PROVE Decided(g)'
    <3>1. Sent(g)' \subseteq Sent(g)
      <4>1. g \in call[c].out \union {h} <=> c \in Sent(g)
        BY <2>2 DEF Sent
      <4> QED BY <2>1, <4>1, PlacesMove
    <3>2. verdict'[g] = verdict[g]
      BY <2>1, <2>2 DEF Ruled, TypeInv, GroupTypes
    <3> QED BY <1>0, <1>3, <3>1, <3>2, DecidedFrame DEF DecideInv
  <2>3. Decided(h)'
    <3>1. marks[groups[h].tid] # {}
      BY <1>4 DEF TakeKnown, Queue!HasInterest, MarkInv
    <3> QED BY <1>0, <1>2, <1>3, <2>1, <3>1 DEF Decided, Ruled
  <2> QED BY <1>0, <2>2, <2>3 DEF DecideInv
<1>5. CASE TakeUnknown(c, h)
  <2>1. Moves(c, "undecided", call[c].todo \ {h}, h, call[c].out) /\ verdict' = verdict
    BY <1>5, CallSteps DEF TakeUnknown
  <2>2. ASSUME NEW g \in 1 .. Len(groups) PROVE Decided(g)'
    <3>1. Sent(g)' \subseteq Sent(g)
      <4>1. g \in call[c].out <=> c \in Sent(g)
        BY DEF Sent
      <4> QED BY <2>1, <4>1, PlacesMove
    <3> QED BY <1>0, <1>3, <2>1, <3>1, DecidedFrame DEF DecideInv
  <2> QED BY <1>0, <2>2 DEF DecideInv
<1> QED BY <1>4, <1>5

\* Sampling a group marks its trace.
LEMMA DecideSampled ==
  ASSUME TypeInv, PlaceInv, DecideInv, [Next]_vars,
         NEW c \in Callers, Sampled(c) \/ SampledLocal(c)
  PROVE  DecideInv'
<1>0. UNCHANGED <<fate, groupOf, groups, ended, accepted>> /\ call[c].pc = "undecided"
  BY DEF Sampled, SampledLocal, Mark, Queue!AddInterest
<1>1. PICK h \in 1 .. Len(groups) :
        /\ h = call[c].cur
        /\ Held(h) = {c} /\ Sent(h) = {} /\ Stored(h) = {} /\ ended[h] = <<>>
  BY <1>0, Evaluated
<1>2. PICK pc \in {"notify", "next"}, cur \in {h, 0} :
        Moves(c, pc, call[c].todo, cur, call[c].out \union {h})
  BY <1>1, CallSteps
<1>3. \A g : Stored(g)' = Stored(g)
  BY <1>0 DEF Stored
<1>4. Ruled(h, "sampled") \/ Ruled(h, "local")
  BY <1>1, RuledStep DEF Sampled, SampledLocal, Verdicts
<1>5. groups[h].tid \in TraceIDs
  BY GroupType
<1>6. now \in marks'[groups[h].tid]
  BY <1>1, <1>5, NotedStep DEF Sampled, SampledLocal, Noted
<1>7. ASSUME NEW g \in 1 .. Len(groups), g # h PROVE Decided(g)'
  <2>1. Sent(g)' \subseteq Sent(g)
    <3>1. g \in call[c].out \union {h} <=> c \in Sent(g)
      BY <1>7 DEF Sent
    <3> QED BY <1>2, <3>1, PlacesMove
  <2>2. verdict'[g] = verdict[g]
    BY <1>4, <1>7 DEF Ruled, TypeInv, GroupTypes
  <2> QED BY <1>0, <1>3, <2>1, <2>2, DecidedFrame DEF DecideInv
<1>8. Decided(h)'
  BY <1>0, <1>1, <1>3, <1>4, <1>6 DEF Decided, Ruled
<1> QED BY <1>0, <1>7, <1>8 DEF DecideInv

\* A record is stored under the trace and time of its group.
LEMMA DecideStore ==
  ASSUME TypeInv, PlaceInv, DecideInv, [Next]_vars,
         NEW c \in Callers, Store(c) \/ StoreFails(c)
  PROVE  DecideInv'
<1>0. groups' = groups /\ call[c].pc = "undecided" /\ Len(fate) = Len(accepted)
  BY DEF Store, StoreFails, TypeInv, QueueTypes
<1>1. PICK h \in 1 .. Len(groups) :
        /\ h = call[c].cur
        /\ Held(h) = {c} /\ Sent(h) = {} /\ Stored(h) = {} /\ ended[h] = <<>>
  BY <1>0, Evaluated
<1>a. PICK v \in Unsampled : verdict' = [verdict EXCEPT ![h] = v]
  BY <1>1 DEF Store, StoreFails
<1>2. Moves(c, "next", call[c].todo, 0, call[c].out) /\ Ruled(h, v)
  BY <1>1, <1>a, CallSteps, RuledStep DEF Unsampled, Verdicts
<1>3. \A g : Sent(g)' = Sent(g)
  BY <1>2, PlacesMove DEF Sent
<1>4. \A g \in 1 .. Len(groups) : g # h => verdict'[g] = verdict[g]
  BY <1>2 DEF Ruled, TypeInv, GroupTypes
<1>5. CASE Store(c)
  <2>1. Kept(h) /\ ended' = ended
    BY <1>1, <1>5, KeptStep DEF Store
  <2>2. ASSUME NEW g \in 1 .. Len(groups), g # h PROVE Decided(g)'
    <3>1. Stored(g)' = Stored(g)
      BY <2>1, <2>2, StoredKept
    <3>2. \A d \in Stored(g) : accepted'[d] = accepted[d]
      BY <1>0, <2>1 DEF Kept, Stored
    <3> QED BY <1>0, <1>3, <1>4, <2>1, <2>2, <3>1, <3>2, DecidedFrame DEF DecideInv
  <2>3. Decided(h)'
    <3>1. Stored(h)' = {Len(accepted) + 1} /\ Sent(h)' = {}
      BY <1>0, <1>1, <1>3, <2>1, StoredKept
    <3>2. /\ accepted'[Len(accepted) + 1].tid = groups[h].tid
          /\ accepted'[Len(accepted) + 1].at = groups[h].began
          /\ verdict'[h] \in Unsampled /\ ended'[h] = <<>>
      BY <1>1, <1>a, <1>2, <2>1 DEF Kept, Ruled
    <3> QED BY <1>0, <3>1, <3>2 DEF Decided
  <2> QED BY <1>0, <2>2, <2>3 DEF DecideInv
<1>6. CASE StoreFails(c)
  <2>1. Left({h}, "unstored") /\ UNCHANGED <<fate, groupOf, accepted>>
    BY <1>1, <1>6, LeftStep DEF StoreFails, Ways
  <2>a. \A g : Stored(g)' = Stored(g)
    BY <2>1 DEF Stored
  <2>2. ASSUME NEW g \in 1 .. Len(groups), g # h PROVE Decided(g)'
    <3>2. ended'[g] = ended[g]
      BY <2>1, <2>2 DEF Left, TypeInv, GroupTypes
    <3> QED BY <1>0, <1>3, <1>4, <2>1, <2>a, <2>2, <3>2, DecidedFrame DEF DecideInv
  <2>3. Decided(h)'
    <3>1. Stored(h)' = {} /\ Sent(h)' = {}
      BY <1>1, <1>3, <2>a
    <3>2. ended'[h] = Append(<<>>, "unstored")
      BY <1>1, <2>1 DEF Left, TypeInv, GroupTypes
    <3>3. Head(ended'[h]) = "unstored"
      BY <3>2
    <3> QED BY <3>1, <3>3 DEF Decided
  <2> QED BY <1>0, <2>2, <2>3 DEF DecideInv
<1> QED BY <1>5, <1>6

\* What a call forwards was decided.
LEMMA DecideReturn ==
  ASSUME TypeInv, PlaceInv, DecideInv, [Next]_vars,
         NEW c \in Callers, NEW how \in {"forwarded", "refused"}, Return(c, how)
  PROVE  DecideInv'
<1>0. /\ UNCHANGED <<fate, groupOf, groups, accepted, verdict, marks>>
      /\ Len(ended) = Len(groups)
  BY DEF Return, TypeInv, GroupTypes
<1>1. Left(call[c].out, how) /\ Moves(c, "idle", {}, 0, {})
  BY LeftStep, CallSteps DEF Return, Ways
<1>2. \A g : Stored(g)' = Stored(g) /\ Sent(g)' = Sent(g) \ {c}
  BY <1>0, <1>1, PlacesMove DEF Stored
<1>3. ASSUME NEW g \in 1 .. Len(groups), g \notin call[c].out PROVE Decided(g)'
  <2>1. ended'[g] = ended[g]
    BY <1>0, <1>1, <1>3 DEF Left
  <2> QED BY <1>0, <1>2, <2>1, DecidedFrame DEF DecideInv
<1>4. ASSUME NEW g \in 1 .. Len(groups), g \in call[c].out PROVE Decided(g)'
  <2>1. c \in Sent(g) /\ Place(g) /\ Decided(g)
    BY <1>4 DEF Sent, PlaceInv, DecideInv
  <2>2. Sent(g) = {c} /\ Stored(g) = {}
    BY <2>1 DEF Place, InHands, InBatch, InStore, Gone
  <2>3. verdict[g] \in {"known", "sampled", "local"} /\ marks[groups[g].tid] # {}
    BY <2>1 DEF Decided
  <2>4. Justified(g)'
    BY <1>0, <2>3 DEF Justified, Unsampled
  <2> QED BY <1>2, <2>2, <2>4 DEF Decided
<1> QED BY <1>0, <1>3, <1>4 DEF DecideInv

\* What onMatch forwards was decided in time.
LEMMA DecideDeliver ==
  ASSUME TypeInv, PlaceInv, MarkInv, DecideInv, [Next]_vars,
         NEW d \in Queue!Waiting, NEW how \in {"forwarded", "refused"}, OnMatch(d, how)
  PROVE  DecideInv'
<1>1. /\ d \in 1 .. Len(fate) /\ fate[d] = "waiting" /\ Queue!Matches(d)
      /\ Fated(d, "delivered") /\ Left({groupOf[d]}, how)
      /\ UNCHANGED <<call, groups, groupOf, verdict, marks, accepted>>
  BY OnMatchEffect
<1>2. PICK h \in 1 .. Len(groups) : h = groupOf[d]
  BY <1>1 DEF TypeInv, GroupTypes, QueueTypes
<1>3. \A g : Sent(g)' = Sent(g) /\ Stored(g)' = Stored(g) \ {d}
  BY <1>1, StoredDelivered DEF Sent
<1>4. Len(ended) = Len(groups)
  BY DEF TypeInv, GroupTypes
<1>5. ASSUME NEW g \in 1 .. Len(groups), g # h PROVE Decided(g)'
  <2>1. ended'[g] = ended[g]
    BY <1>1, <1>2, <1>4, <1>5 DEF Left
  <2> QED BY <1>1, <1>3, <2>1, DecidedFrame DEF DecideInv
<1>6. Decided(h)'
  <2>1. d \in Stored(h) /\ Place(h) /\ Decided(h)
    BY <1>1, <1>2 DEF Stored, PlaceInv, DecideInv
  <2>2. Sent(h) = {} /\ Stored(h) = {d}
    BY <2>1 DEF Place, InHands, InBatch, InStore, Gone
  <2>3. verdict[h] \in Unsampled /\ accepted[d].tid = groups[h].tid /\ accepted[d].at = groups[h].began
    BY <2>1 DEF Decided
  <2>4. \E m \in marks[groups[h].tid] : m < groups[h].began + DecisionWait
    BY <1>1, <2>3 DEF Queue!Matches, MarkInv
  <2>5. Justified(h)'
    BY <1>1, <2>3, <2>4 DEF Justified, Unsampled
  <2> QED BY <1>3, <2>2, <2>5 DEF Decided
<1> QED BY <1>1, <1>5, <1>6 DEF DecideInv

\* Every step keeps DecideInv.
LEMMA DecideNext == TypeInv /\ PlaceInv /\ MarkInv /\ DecideInv /\ [Next]_vars => DecideInv'
<1> SUFFICES ASSUME TypeInv, PlaceInv, MarkInv, DecideInv, [Next]_vars PROVE DecideInv'
  OBVIOUS
<1>1. ASSUME UNCHANGED <<groups, verdict, ended, accepted, groupOf>>,
             \A k \in Callers : call'[k].out = call[k].out, Len(fate') = Len(fate),
             \A d \in 1 .. Len(fate) : fate'[d] = "delivered" <=> fate[d] = "delivered"
      PROVE  DecideInv'
  <2>1. \A g : Sent(g)' = Sent(g) /\ Stored(g)' = Stored(g)
    BY <1>1 DEF Sent, Stored
  <2> QED BY <1>1, <2>1, DecidedFrame DEF DecideInv
<1>2. ASSUME NEW c \in Callers, Notify(c) PROVE DecideInv'
  <2>1. UNCHANGED <<groups, verdict, ended, accepted, groupOf, fate>>
    BY <1>2 DEF Notify
  <2>2. \A k \in Callers : call'[k].out = call[k].out
    BY <1>2, CallSteps DEF Moves
  <2> QED BY <1>1, <2>1, <2>2
<1>3. ASSUME NEW c \in Callers, Step(c) PROVE DecideInv'
  BY <1>2, <1>3, DecideReceive, DecideTake, DecideSampled, DecideStore, DecideReturn DEF Step
<1>4. ASSUME NEW d \in Queue!Waiting, NEW how \in {"forwarded", "refused"}, OnMatch(d, how)
      PROVE  DecideInv'
  BY <1>4, DecideDeliver
<1>5. ASSUME NEW t \in TraceIDs, OnDecision(t) PROVE DecideInv'
  <2>1. UNCHANGED <<call, groups, verdict, ended, accepted, groupOf, fate>>
    BY <1>5 DEF OnDecision, Mark, Queue!AddInterest
  <2> QED BY <1>1, <2>1
<1>6. CASE Shutdown \/ CloseBuffer \/ ShutdownReturns \/ Tick \/ UNCHANGED vars
  <2>1. UNCHANGED <<call, groups, verdict, ended, accepted, groupOf, fate>>
    BY <1>6 DEF Shutdown, CloseBuffer, ShutdownReturns, Queue!Close, Tick, Queue!Tick, vars
  <2> QED BY <1>1, <2>1
<1>7. CASE Sweep
  <2>1. /\ UNCHANGED <<call, groups, verdict, ended, accepted, groupOf>> /\ Len(fate') = Len(fate)
        /\ \A d \in 1 .. Len(fate) :
             fate'[d] = fate[d] \/ (fate[d] = "waiting" /\ fate'[d] \in {"evicted", "early", "dropped"})
    BY <1>7, SweepEffect
  <2>2. \A d \in 1 .. Len(fate) : fate'[d] = "delivered" <=> fate[d] = "delivered"
    BY <2>1
  <2> QED BY <1>1, <2>1, <2>2
<1> QED BY <1>3, <1>4, <1>5, <1>6, <1>7 DEF Next

(* Nothing is forwarded without a decision: what Evaluate left undecided    *)
(* reaches the next consumer only through a record whose trace was marked   *)
(* before the window closed, the rest only after some mark of its trace.    *)
THEOREM NothingForwardedUndecided == Spec => []ForwardedOnDecision
<1>1. Init => PlaceInv /\ DecideInv
  BY DEF Init, PlaceInv, NoCall, DecideInv
<1>2. TypeInv /\ DecideInv => ForwardedOnDecision
  <2> SUFFICES ASSUME TypeInv, DecideInv PROVE ForwardedOnDecision
    OBVIOUS
  <2>1. \A g \in 1 .. Len(groups) :
          ended[g] # <<>> /\ Head(ended[g]) \in {"forwarded", "refused"} => Justified(g)
    BY DEF DecideInv, Decided
  <2> QED BY <2>1 DEF ForwardedOnDecision, Justified
<1> QED BY <1>1, <1>2, TypeInit, TypeNext, PlaceNext, MarkInit, MarkNext, DecideNext, PTL DEF Spec

-----------------------------------------------------------------------------
(* The groups of a call.                                                   *)

\* The groups that call c has yet to decide on or is going to forward.
Hands(c) == call[c].todo \union call[c].out \union ({call[c].cur} \ {0})

\* They are what the batch of the call has of their traces.
PartsInv == \A c \in Callers : \A g \in Hands(c) : groups[g].spans = OfTrace(call[c].td, groups[g].tid)

\* A step that gives no call a group leaves the groups of all calls alone.
LEMMA PartsKept ==
  ASSUME TypeInv, PartsInv, UNCHANGED groups,
         \A k \in Callers : (\A g \in Hands(k)' : g \in Hands(k) /\ call'[k].td = call[k].td)
  PROVE  PartsInv'
<1> SUFFICES ASSUME NEW k \in Callers, NEW g \in Hands(k)'
             PROVE  groups[g].spans = OfTrace(call'[k].td, groups[g].tid)
  BY DEF PartsInv
<1>1. g \in Hands(k) /\ call'[k].td = call[k].td
  OBVIOUS
<1>2. groups[g].spans = OfTrace(call[k].td, groups[g].tid)
  BY <1>1 DEF PartsInv
<1> QED BY <1>1, <1>2

\* The same, for a step of one call.
LEMMA PartsMove ==
  ASSUME TypeInv, PartsInv, UNCHANGED groups, NEW c \in Callers, NEW pc, NEW todo, NEW cur, NEW out,
         Moves(c, pc, todo, cur, out), todo \subseteq Hands(c), out \subseteq Hands(c),
         cur = 0 \/ cur \in Hands(c), call'[c].td = call[c].td
  PROVE  PartsInv'
<1>1. ASSUME NEW k \in Callers, NEW g \in Hands(k)'
      PROVE  g \in Hands(k) /\ call'[k].td = call[k].td
  <2>1. CASE k = c
    BY <2>1 DEF Moves, Hands
  <2>2. CASE k # c
    <3>1. call'[k] = call[k]
      BY <2>2 DEF Moves
    <3> QED BY <3>1 DEF Hands
  <2> QED BY <2>1, <2>2
<1> QED BY <1>1, PartsKept

\* Receive gives the call the parts that groupByTrace makes of its batch.
LEMMA PartsReceive ==
  ASSUME TypeInv, PartsInv, NEW c \in Callers, NEW td \in Batches, Receive(c, td)
  PROVE  PartsInv'
<1> DEFINE T     == DOMAIN GroupByTrace(td)
           order == SetToSeq(T)
           new   == [i \in 1 .. Len(order) |->
                       [tid |-> order[i], spans |-> GroupByTrace(td)[order[i]], began |-> now]]
<1>0. groups \in Seq(Group) /\ Len(groups) \in Nat /\ now \in Nat /\ call \in [Callers -> Call]
  BY DEF TypeInv, GroupTypes, QueueTypes, CallTypes
<1>1. /\ GroupByTrace(td) = [t \in TracesOf(td) |-> OfTrace(td, t)]
      /\ T \subseteq TraceIDs /\ IsFiniteSet(T)
  <2>1. td \in Traces(TraceIDs) /\ IsFiniteSet(TraceIDs)
    BY ProcessorAssumption
  <2>2. GroupByTrace(td) = [t \in TracesOf(td) |-> OfTrace(td, t)] /\ T \subseteq TraceIDs
    BY <2>1, Grouped
  <2> QED BY <2>1, <2>2, FS_Subset
<1>2. PICK n \in Nat : order \in [1 .. n -> T] /\ Len(order) = n
  BY <1>1, OrderTypes
<1>3. \A t \in T : GroupByTrace(td)[t] = OfTrace(td, t)
  <2>1. PICK f, D : f = GroupByTrace(td) /\ D = TracesOf(td)
    OBVIOUS
  <2>2. f = [t \in D |-> OfTrace(td, t)]
    BY <1>1, <2>1
  <2>3. \A t \in DOMAIN f : f[t] = OfTrace(td, t)
    BY <2>2
  <2> QED BY <2>1, <2>3
<1>4. ASSUME NEW i \in 1 .. n
      PROVE  /\ new[i] \in Group /\ new[i].spans = OfTrace(td, new[i].tid)
  <2>1. PICK t \in T : t = order[i]
    BY <1>2
  <2>2. PICK v : v = GroupByTrace(td)[t]
    OBVIOUS
  <2>3. new[i] = [tid |-> t, spans |-> v, began |-> now]
    <3> HIDE DEF order
    <3> QED BY <1>2, <2>1, <2>2
  <2>4. t \in TraceIDs /\ v \in Spans /\ v = OfTrace(td, t)
    BY <1>1, <1>3, <2>2 DEF Spans
  <2> HIDE DEF new, T
  <2> QED BY <1>0, <2>3, <2>4 DEF Group
<1>5. new \in [1 .. n -> Group]
  <2>1. new = [i \in 1 .. n |-> new[i]]
    <3> HIDE DEF order
    <3> QED BY <1>2
  <2> HIDE DEF new
  <2> QED BY <1>4, <2>1
<1>6. groups' = groups \o new
  BY DEF Receive
<1>7. call' = [call EXCEPT ![c] = [NoCall EXCEPT !.pc = "next", !.td = td,
                                   !.todo = Len(groups) + 1 .. Len(groups) + n]]
  BY <1>2 DEF Receive
<1> HIDE DEF new, order, T
<1>8. /\ \A g \in 1 .. Len(groups) : groups'[g] = groups[g]
      /\ \A i \in 1 .. n : groups'[Len(groups) + i] = new[i]
  BY <1>0, <1>5, <1>6, Grown
<1>9. ASSUME NEW k \in Callers, NEW g \in Hands(k)'
      PROVE  groups'[g].spans = OfTrace(call'[k].td, groups'[g].tid)
  <2>1. CASE k = c
    <3>1. call'[c] = [pc |-> "next", td |-> td, todo |-> Len(groups) + 1 .. Len(groups) + n,
                      cur |-> 0, out |-> {}]
      BY <1>0, <1>7 DEF NoCall
    <3>2. call'[c].td = td /\ g \in Len(groups) + 1 .. Len(groups) + n
      BY <2>1, <3>1 DEF Hands
    <3>3. PICK i \in 1 .. n : g = Len(groups) + i
      <4>1. g - Len(groups) \in 1 .. n /\ g = Len(groups) + (g - Len(groups))
        BY <1>0, <3>2
      <4> QED BY <4>1
    <3> QED BY <1>4, <1>8, <2>1, <3>2, <3>3
  <2>2. CASE k # c
    <3>1. call'[k] = call[k]
      BY <1>0, <1>7, <2>2
    <3>2. g \in Hands(k)
      BY <3>1 DEF Hands
    <3>3. g \in 1 .. Len(groups)
      BY <3>2, InHand DEF Hands
    <3>4. groups[g].spans = OfTrace(call[k].td, groups[g].tid)
      BY <3>2 DEF PartsInv
    <3> QED BY <1>8, <3>1, <3>3, <3>4
  <2> QED BY <2>1, <2>2
<1> QED BY <1>9 DEF PartsInv

\* Every step keeps the groups of the calls what they are.
LEMMA PartsNext == TypeInv /\ PartsInv /\ [Next]_vars => PartsInv'
<1> SUFFICES ASSUME TypeInv, PartsInv, [Next]_vars PROVE PartsInv'
  OBVIOUS
<1>1. ASSUME NEW c \in Callers, Step(c) PROVE PartsInv'
  <2>0. call \in [Callers -> Call] /\ call[c] \in Call
    BY DEF TypeInv, CallTypes
  <2>a. /\ call[c].todo \subseteq Hands(c) /\ call[c].out \subseteq Hands(c)
        /\ call[c].cur = 0 \/ call[c].cur \in Hands(c)
        /\ \A g \in call[c].todo : g \in 1 .. Len(groups)
    BY InHand DEF Hands
  <2>b. call[c].pc \in {"undecided", "notify"} => call[c].cur \in Hands(c)
    BY <2>a, InHand
  <2>1. ASSUME NEW td \in Batches, Receive(c, td) PROVE PartsInv'
    BY <2>1, PartsReceive
  <2>2. ASSUME NEW g \in call[c].todo, TakeKnown(c, g) PROVE PartsInv'
    <3>1. Moves(c, "next", call[c].todo \ {g}, call[c].cur, call[c].out \union {g})
      BY <2>2, CallSteps
    <3>2. UNCHANGED groups /\ call'[c].td = call[c].td
      BY <2>0, <2>2 DEF TakeKnown, Call
    <3> QED BY <2>a, <3>1, <3>2, PartsMove
  <2>3. ASSUME NEW g \in call[c].todo, TakeUnknown(c, g) PROVE PartsInv'
    <3>1. Moves(c, "undecided", call[c].todo \ {g}, g, call[c].out)
      BY <2>3, CallSteps
    <3>2. UNCHANGED groups /\ call'[c].td = call[c].td
      BY <2>0, <2>3 DEF TakeUnknown, Call
    <3> QED BY <2>a, <3>1, <3>2, PartsMove
  <2>4. CASE Sampled(c)
    <3>1. Moves(c, "notify", call[c].todo, call[c].cur, call[c].out \union {call[c].cur})
      BY <2>4, CallSteps
    <3>2. UNCHANGED groups /\ call'[c].td = call[c].td /\ call[c].cur \in Hands(c)
      BY <2>0, <2>4, <2>b DEF Sampled, Call
    <3> QED BY <2>a, <3>1, <3>2, PartsMove
  <2>5. CASE Notify(c)
    <3>1. Moves(c, "next", call[c].todo, 0, call[c].out)
      BY <2>5, CallSteps
    <3>2. UNCHANGED groups /\ call'[c].td = call[c].td
      BY <2>0, <2>5 DEF Notify, Call
    <3> QED BY <2>a, <3>1, <3>2, PartsMove
  <2>6. CASE SampledLocal(c)
    <3>1. Moves(c, "next", call[c].todo, 0, call[c].out \union {call[c].cur})
      BY <2>6, CallSteps
    <3>2. UNCHANGED groups /\ call'[c].td = call[c].td /\ call[c].cur \in Hands(c)
      BY <2>0, <2>6, <2>b DEF SampledLocal, Call
    <3> QED BY <2>a, <3>1, <3>2, PartsMove
  <2>7. CASE Store(c) \/ StoreFails(c)
    <3>1. Moves(c, "next", call[c].todo, 0, call[c].out)
      BY <2>7, CallSteps
    <3>2. UNCHANGED groups /\ call'[c].td = call[c].td
      BY <2>0, <2>7 DEF Store, StoreFails, Call
    <3> QED BY <2>a, <3>1, <3>2, PartsMove
  <2>8. ASSUME NEW how, Return(c, how) PROVE PartsInv'
    <3>1. Moves(c, "idle", {}, 0, {})
      BY <2>8, CallSteps
    <3>2. Hands(c)' = {} /\ UNCHANGED groups
      BY <2>8, <3>1 DEF Moves, Hands, Return
    <3>3. \A k \in Callers \ {c} : call'[k] = call[k]
      BY <3>1 DEF Moves
    <3>4. \A k \in Callers \ {c} : Hands(k)' = Hands(k) /\ call'[k].td = call[k].td
      BY <3>3 DEF Hands
    <3> QED BY <3>2, <3>4, PartsKept
  <2> QED BY <1>1, <2>1, <2>2, <2>3, <2>4, <2>5, <2>6, <2>7, <2>8 DEF Step
<1>2. CASE UNCHANGED <<call, groups>>
  BY <1>2 DEF PartsInv, Hands
<1>3. (\E c \in Callers : Step(c)) \/ UNCHANGED <<call, groups>>
  BY DEF Next, OnMatch, OnDecision, Shutdown, CloseBuffer, ShutdownReturns, Sweep, Tick, vars
<1> QED BY <1>1, <1>2, <1>3

(* groupByTrace makes of the batch of every call in progress what is left   *)
(* of it for each trace when the spans of the others are taken out, so no   *)
(* span is lost, repeated, reordered or moved to another resource or scope, *)
(* for batches of any size; and these are the groups that processTraces     *)
(* decides on and forwards.                                                 *)
THEOREM BatchesDividedFaithfully == Spec => []GroupsFaithful
<1>1. ASSUME TypeInv, PartsInv, NEW c \in Callers
      PROVE  /\ GroupByTrace(call[c].td) = [t \in TracesOf(call[c].td) |-> OfTrace(call[c].td, t)]
             /\ \A g \in Hands(c) : groups[g].spans = OfTrace(call[c].td, groups[g].tid)
  <2>1. call[c].td \in Batches \union {<<>>}
    BY <1>1 DEF TypeInv, CallTypes, Call
  <2>2. <<>> \in Traces(TraceIDs)
    BY DEF Traces
  <2>3. PICK td \in Traces(TraceIDs) : td = call[c].td
    BY <2>1, <2>2, ProcessorAssumption
  <2>4. GroupByTrace(td) = [t \in TracesOf(td) |-> OfTrace(td, t)]
    BY Grouped
  <2>5. \A g \in Hands(c) : groups[g].spans = OfTrace(call[c].td, groups[g].tid)
    BY <1>1 DEF PartsInv
  <2> QED BY <2>3, <2>4, <2>5
<1>2. TypeInv /\ PartsInv => GroupsFaithful
  BY <1>1 DEF GroupsFaithful, Hands
<1>3. Init => PartsInv
  BY DEF Init, NoCall, PartsInv, Hands
<1> QED BY <1>2, <1>3, TypeInit, TypeNext, PartsNext, PTL DEF Spec
=============================================================================
