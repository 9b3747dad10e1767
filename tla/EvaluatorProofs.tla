--------------------------- MODULE EvaluatorProofs ---------------------------
(***************************************************************************)
(* Theorems about the sampling policies, for every list of policies, every *)
(* number of collectors and every division of a trace among them.          *)
(***************************************************************************)
EXTENDS Evaluator, WellFoundedInduction, TLAPS

-----------------------------------------------------------------------------
(* Numbers, first members and induction over a set of numbers.             *)

\* A set of natural numbers that is not empty has a least member.
LEMMA LeastNat ==
  ASSUME NEW T, T \subseteq Nat, T # {}
  PROVE  \E m \in T : \A k \in T : m <= k
<1> DEFINE R == OpToRel(<, Nat)
<1>1. IsWellFoundedOn(R, Nat)
  BY NatLessThanWellFounded
<1>2. PICK m \in T : \A k \in T : ~ (<<k, m>> \in R)
  <2> HIDE DEF R
  <2> QED BY <1>1, WFMin, Zenon
<1>3. \A k \in T : ~ (k < m)
  BY <1>2 DEF OpToRel
<1> QED BY <1>3

\* A set that has m, and k + 1 with k, has all numbers from m to n.
LEMMA Upward ==
  ASSUME NEW m \in Nat, NEW n \in Nat, NEW G, m \in G,
         \A k \in m .. n - 1 : k \in G => k + 1 \in G
  PROVE  \A k \in m .. n : k \in G
<1> DEFINE T == (m .. n) \ G
<1> SUFFICES ASSUME T # {} PROVE FALSE
  OBVIOUS
<1>1. PICK k \in T : \A j \in T : k <= j
  <2>1. T \subseteq Nat
    OBVIOUS
  <2> HIDE DEF T
  <2> QED BY <2>1, LeastNat
<1>2. k - 1 \in m .. n - 1 /\ k - 1 \in G
  BY <1>1
<1> QED BY <1>1, <1>2

\* What the library chooses as the least and the greatest member.
LEMMA LeastIs ==
  ASSUME NEW T, T \subseteq Int, NEW m \in T, \A k \in T : m <= k
  PROVE  Min(T) = m
<1>1. Min(T) \in T /\ \A k \in T : Min(T) <= k
  BY DEF Min
<1>2. Min(T) <= m /\ m <= Min(T)
  BY <1>1
<1>3. Min(T) \in Int /\ m \in Int
  BY <1>1
<1> QED BY <1>2, <1>3

\* A greatest member is what Max returns.
LEMMA GreatestIs ==
  ASSUME NEW T, T \subseteq Int, NEW m \in T, \A k \in T : k <= m
  PROVE  Max(T) = m
<1>1. Max(T) \in T /\ \A k \in T : k <= Max(T)
  BY DEF Max
<1>2. Max(T) <= m /\ m <= Max(T)
  BY <1>1
<1>3. Max(T) \in Int /\ m \in Int
  BY <1>1
<1> QED BY <1>2, <1>3

\* The first member of a list that is in stop, if there is one.
LEMMA FirstHit ==
  ASSUME NEW r, Len(r) \in Nat, NEW stop, NEW other,
         \E i \in 1 .. Len(r) : r[i] \in stop
  PROVE  \E i \in 1 .. Len(r) : /\ FirstOf(r, stop, other) = r[i] /\ r[i] \in stop
                                /\ \A j \in 1 .. i - 1 : r[j] \notin stop
<1> DEFINE hits == {i \in 1 .. Len(r) : r[i] \in stop}
<1>1. PICK m \in hits : \A k \in hits : m <= k
  <2>1. hits \subseteq Nat /\ hits # {}
    OBVIOUS
  <2> HIDE DEF hits
  <2> QED BY <2>1, LeastNat
<1>2. m = Min(hits)
  <2>1. hits \subseteq Int
    OBVIOUS
  <2> HIDE DEF hits
  <2> QED BY <1>1, <2>1, LeastIs
<1>3. FirstOf(r, stop, other) = r[m]
  BY <1>1, <1>2 DEF FirstOf
<1> QED BY <1>1, <1>3

\* What is given otherwise.
LEMMA NoHit ==
  ASSUME NEW r, NEW stop, NEW other, \A i \in 1 .. Len(r) : r[i] \notin stop
  PROVE  FirstOf(r, stop, other) = other
BY DEF FirstOf

\* FirstOf returns a decision that stops the loop, or the other one.
LEMMA FirstOfType ==
  ASSUME NEW r, Len(r) \in Nat, NEW stop, NEW other
  PROVE  FirstOf(r, stop, other) \in stop \union {other}
BY FirstHit, NoHit
-----------------------------------------------------------------------------
(* FlattenSeq: the spans of a batch, and the answers of an OTTL policy.    *)

\* The function that FlattenSeq defines by recursion exists.
LEMMA FlattenExists ==
  ASSUME NEW S, NEW ss \in Seq(Seq(S)), Len(ss) # 0
  PROVE  \E g : g = [i \in 1 .. Len(ss) |-> IF i = 1 THEN ss[i] ELSE g[i - 1] \o ss[i]]
<1>0. PICK n \in Nat \ {0} : n = Len(ss) /\ ss \in [1 .. n -> Seq(S)]
  OBVIOUS
<1> DEFINE Rec(g, k) == \A i \in 1 .. k : g[i] = IF i = 1 THEN ss[i] ELSE g[i - 1] \o ss[i]
           G == {k \in 1 .. n : \E g \in [1 .. k -> Seq(S)] : Rec(g, k)}
<1>1. 1 \in G
  <2> DEFINE g == [i \in 1 .. 1 |-> ss[i]]
  <2>1. \A i \in 1 .. 1 : i = 1 /\ ss[i] \in Seq(S)
    OBVIOUS
  <2>2. g \in [1 .. 1 -> Seq(S)] /\ Rec(g, 1)
    BY <2>1
  <2> HIDE DEF g, Rec
  <2> QED BY <2>2
<1>2. ASSUME NEW k \in 1 .. n - 1, k \in G PROVE k + 1 \in G
  <2>1. PICK g \in [1 .. k -> Seq(S)] : Rec(g, k)
    BY <1>2
  <2> DEFINE h == [i \in 1 .. k + 1 |-> IF i = k + 1 THEN g[k] \o ss[k + 1] ELSE g[i]]
  <2>2. h \in [1 .. k + 1 -> Seq(S)]
    <3>1. g[k] \o ss[k + 1] \in Seq(S)
      BY <1>0
    <3> QED BY <3>1
  <2>3. ASSUME NEW i \in 1 .. k + 1 PROVE h[i] = IF i = 1 THEN ss[i] ELSE h[i - 1] \o ss[i]
    <3>1. CASE i = k + 1
      <4>1. h[i] = g[k] \o ss[i] /\ h[i - 1] = g[k] /\ i # 1
        BY <3>1
      <4> QED BY <4>1
    <3>2. CASE i \in 1 .. k
      <4>1. h[i] = g[i] /\ (i # 1 => h[i - 1] = g[i - 1])
        BY <3>2
      <4>2. g[i] = IF i = 1 THEN ss[i] ELSE g[i - 1] \o ss[i]
        BY <2>1, <3>2
      <4> QED BY <4>1, <4>2
    <3> QED BY <3>1, <3>2
  <2>4. Rec(h, k + 1)
    BY <2>3
  <2> HIDE DEF h, Rec
  <2> QED BY <2>2, <2>4
<1>3. n \in G
  <2>1. \A k \in 1 .. n - 1 : k \in G => k + 1 \in G
    BY <1>2
  <2>2. n \in 1 .. n
    OBVIOUS
  <2> HIDE DEF G
  <2> QED BY <1>1, <2>1, <2>2, Upward
<1>4. PICK g \in [1 .. n -> Seq(S)] : Rec(g, n)
  BY <1>3
<1>5. g = [i \in 1 .. n |-> IF i = 1 THEN ss[i] ELSE g[i - 1] \o ss[i]]
  BY <1>4
<1> QED BY <1>0, <1>5

\* The members of a sequence.
LEMMA Members ==
  ASSUME NEW S, NEW s \in Seq(S)
  PROVE  \A x : x \in ToSet(s) <=> \E j \in 1 .. Len(s) : s[j] = x
BY DEF ToSet

\* Two sequences one after the other have the members of both.
LEMMA MembersConcat ==
  ASSUME NEW S, NEW s \in Seq(S), NEW t \in Seq(S)
  PROVE  s \o t \in Seq(S) /\ ToSet(s \o t) = ToSet(s) \union ToSet(t)
<1>1. s \o t \in Seq(S) /\ Len(s \o t) = Len(s) + Len(t)
  OBVIOUS
<1>2. ASSUME NEW j \in 1 .. Len(s) PROVE (s \o t)[j] = s[j] /\ j \in 1 .. Len(s \o t)
  BY <1>1
<1>3. ASSUME NEW j \in 1 .. Len(t) PROVE (s \o t)[Len(s) + j] = t[j] /\ Len(s) + j \in 1 .. Len(s \o t)
  BY <1>1
<1>4. ASSUME NEW j \in 1 .. Len(s \o t), j > Len(s)
      PROVE  j - Len(s) \in 1 .. Len(t) /\ (s \o t)[j] = t[j - Len(s)]
  BY <1>1, <1>4
<1>5. ASSUME NEW x, x \in ToSet(s \o t) PROVE x \in ToSet(s) \union ToSet(t)
  <2>1. PICK j \in 1 .. Len(s \o t) : (s \o t)[j] = x
    BY <1>1, <1>5, Members
  <2>2. CASE j \in 1 .. Len(s)
    BY <1>2, <2>1, <2>2, Members
  <2>3. CASE j > Len(s)
    BY <1>4, <2>1, <2>3, Members
  <2> QED BY <2>2, <2>3
<1>6. ASSUME NEW x, x \in ToSet(s) PROVE x \in ToSet(s \o t)
  <2>1. PICK j \in 1 .. Len(s) : s[j] = x
    BY <1>6, Members
  <2> QED BY <1>1, <1>2, <2>1, Members
<1>7. ASSUME NEW x, x \in ToSet(t) PROVE x \in ToSet(s \o t)
  <2>1. PICK j \in 1 .. Len(t) : t[j] = x
    BY <1>7, Members
  <2> QED BY <1>1, <1>3, <2>1, Members
<1> QED BY <1>1, <1>5, <1>6, <1>7

\* FlattenSeq puts the members of all sequences into one.
LEMMA Flatten ==
  ASSUME NEW S, NEW ss \in Seq(Seq(S))
  PROVE  /\ FlattenSeq(ss) \in Seq(S)
         /\ ToSet(FlattenSeq(ss)) = UNION {ToSet(ss[i]) : i \in 1 .. Len(ss)}
<1>1. CASE Len(ss) = 0
  <2>1. FlattenSeq(ss) = <<>> /\ ToSet(<<>>) = {} /\ <<>> \in Seq(S)
    BY <1>1 DEF FlattenSeq, ToSet
  <2>2. {ToSet(ss[i]) : i \in 1 .. Len(ss)} = {}
    BY <1>1
  <2> QED BY <2>1, <2>2
<1>2. CASE Len(ss) # 0
  <2> DEFINE n == Len(ss)
             Rec(g) == [i \in 1 .. n |-> IF i = 1 THEN ss[i] ELSE g[i - 1] \o ss[i]]
             F == CHOOSE g : g = Rec(g)
             All(k) == UNION {ToSet(ss[i]) : i \in 1 .. k}
             G == {k \in 1 .. n : F[k] \in Seq(S) /\ ToSet(F[k]) = All(k)}
  <2>1. FlattenSeq(ss) = F[n]
    BY <1>2 DEF FlattenSeq
  <2>2. F = Rec(F)
    <3>1. \E g : g = Rec(g)
      BY <1>2, FlattenExists
    <3> HIDE DEF Rec
    <3> QED BY <3>1
  <2> HIDE DEF F
  <2>3. \A i \in 1 .. n : F[i] = IF i = 1 THEN ss[i] ELSE F[i - 1] \o ss[i]
    <3>1. \A i \in 1 .. n : Rec(F)[i] = IF i = 1 THEN ss[i] ELSE F[i - 1] \o ss[i]
      OBVIOUS
    <3> HIDE DEF Rec
    <3> QED BY <2>2, <3>1
  <2> HIDE DEF Rec
  <2>4. 1 \in G
    <3>1. F[1] = ss[1]
      BY <1>2, <2>3
    <3>2. All(1) = ToSet(ss[1])
      OBVIOUS
    <3> QED BY <1>2, <3>1, <3>2
  <2>5. ASSUME NEW k \in 1 .. n - 1, k \in G PROVE k + 1 \in G
    <3>1. F[k + 1] = F[k] \o ss[k + 1]
      <4>1. k + 1 \in 1 .. n /\ k + 1 # 1 /\ (k + 1) - 1 = k
        OBVIOUS
      <4> HIDE DEF n
      <4> QED BY <2>3, <4>1
    <3>2. All(k + 1) = All(k) \union ToSet(ss[k + 1])
      <4>1. 1 .. k + 1 = (1 .. k) \union {k + 1}
        OBVIOUS
      <4> QED BY <4>1
    <3>3. F[k] \in Seq(S) /\ ss[k + 1] \in Seq(S) /\ ToSet(F[k]) = All(k)
      BY <2>5
    <3> HIDE DEF All
    <3>4. F[k + 1] \in Seq(S) /\ ToSet(F[k + 1]) = All(k + 1)
      <4>1. PICK a, b : a = F[k] /\ b = ss[k + 1]
        OBVIOUS
      <4>2. a \o b \in Seq(S) /\ ToSet(a \o b) = ToSet(a) \union ToSet(b)
        BY <3>3, <4>1, MembersConcat
      <4> QED BY <3>1, <3>2, <3>3, <4>1, <4>2
    <3> QED BY <3>4
  <2>6. n \in G
    <3>1. \A k \in 1 .. n - 1 : k \in G => k + 1 \in G
      BY <2>5
    <3>2. n \in Nat /\ n \in 1 .. n
      BY <1>2
    <3> HIDE DEF G, n
    <3> QED BY <2>4, <3>1, <3>2, Upward
  <2> QED BY <2>1, <2>6
<1> QED BY <1>1, <1>2

\* FlattenSeq goes through the sequences from the first to the last.
LEMMA FlattenSteps ==
  ASSUME NEW S, NEW ss \in Seq(Seq(S)), Len(ss) # 0
  PROVE  \E f : /\ FlattenSeq(ss) = f[Len(ss)]
                /\ \A i \in 1 .. Len(ss) : f[i] = IF i = 1 THEN ss[i] ELSE f[i - 1] \o ss[i]
<1> DEFINE n == Len(ss)
           Rec(g) == [i \in 1 .. n |-> IF i = 1 THEN ss[i] ELSE g[i - 1] \o ss[i]]
           F == CHOOSE g : g = Rec(g)
<1>1. FlattenSeq(ss) = F[n]
  BY DEF FlattenSeq
<1>2. F = Rec(F)
  <2>1. \E g : g = Rec(g)
    BY FlattenExists
  <2> HIDE DEF Rec
  <2> QED BY <2>1
<1> HIDE DEF F
<1>3. \A i \in 1 .. n : F[i] = IF i = 1 THEN ss[i] ELSE F[i - 1] \o ss[i]
  <2>1. \A i \in 1 .. n : Rec(F)[i] = IF i = 1 THEN ss[i] ELSE F[i - 1] \o ss[i]
    OBVIOUS
  <2> HIDE DEF Rec
  <2> QED BY <1>2, <2>1
<1> QED BY <1>1, <1>3

\* A sequence that comes last is at the end of the flattened one.
LEMMA FlattenAppend ==
  ASSUME NEW S, NEW ss \in Seq(Seq(S)), Len(ss) # 0, NEW x \in Seq(S)
  PROVE  FlattenSeq(Append(ss, x)) = FlattenSeq(ss) \o x
<1>0. PICK n \in Nat \ {0} : n = Len(ss)
  OBVIOUS
<1>1. PICK f : /\ FlattenSeq(ss) = f[n]
               /\ \A i \in 1 .. n : f[i] = IF i = 1 THEN ss[i] ELSE f[i - 1] \o ss[i]
  BY <1>0, FlattenSteps
<1>2. PICK ts \in Seq(Seq(S)) : ts = Append(ss, x)
  <2>1. \A T : \A a \in Seq(T), b \in T : Append(a, b) \in Seq(T)
    OBVIOUS
  <2>2. Append(ss, x) \in Seq(Seq(S))
    BY <2>1
  <2> QED BY <2>2
<1>3. Len(ts) = n + 1 /\ ts[n + 1] = x /\ \A i \in 1 .. n : ts[i] = ss[i]
  BY <1>0, <1>2
<1>4. PICK g : /\ FlattenSeq(ts) = g[n + 1]
               /\ \A i \in 1 .. n + 1 : g[i] = IF i = 1 THEN ts[i] ELSE g[i - 1] \o ts[i]
  <2>1. Len(ts) # 0
    BY <1>3
  <2>2. \E g : /\ FlattenSeq(ts) = g[Len(ts)]
               /\ \A i \in 1 .. Len(ts) : g[i] = IF i = 1 THEN ts[i] ELSE g[i - 1] \o ts[i]
    BY <2>1, FlattenSteps
  <2> QED BY <1>3, <2>2
<1> DEFINE G == {i \in 1 .. n : g[i] = f[i]}
<1>5. 1 \in G
  <2>1. 1 \in 1 .. n /\ 1 \in 1 .. n + 1
    OBVIOUS
  <2>2. f[1] = ss[1] /\ g[1] = ts[1] /\ ts[1] = ss[1]
    BY <1>1, <1>3, <1>4, <2>1
  <2> QED BY <2>1, <2>2
<1>6. \A k \in 1 .. n - 1 : k \in G => k + 1 \in G
  <2> SUFFICES ASSUME NEW k \in 1 .. n - 1, g[k] = f[k]
               PROVE  k + 1 \in 1 .. n /\ g[k + 1] = f[k + 1]
    BY DEF G
  <2>1. k + 1 \in 1 .. n /\ k + 1 \in 1 .. n + 1 /\ k + 1 # 1 /\ (k + 1) - 1 = k
    OBVIOUS
  <2>2. g[k + 1] = g[k] \o ts[k + 1] /\ f[k + 1] = f[k] \o ss[k + 1]
    BY <1>1, <1>4, <2>1
  <2> QED BY <1>3, <2>1, <2>2
<1>7. g[n] = f[n]
  <2>1. n \in 1 .. n
    OBVIOUS
  <2>2. n \in G
    <3> HIDE DEF G
    <3> QED BY <1>5, <1>6, <2>1, Upward
  <2> QED BY <2>2
<1>8. g[n + 1] = g[n] \o ts[n + 1]
  <2>1. n + 1 \in 1 .. n + 1 /\ n + 1 # 1 /\ (n + 1) - 1 = n
    OBVIOUS
  <2> QED BY <1>4, <2>1
<1> QED BY <1>1, <1>2, <1>3, <1>4, <1>7, <1>8

\* The spans of a batch are those of its ResourceSpans.
LEMMA BatchSpans ==
  ASSUME NEW td \in Seq(Arrivals)
  PROVE  /\ SpanSeq(td) \in Seq(Trace)
         /\ Spans(td) = UNION {ToSet(td[i].spans) : i \in 1 .. Len(td)}
<1> DEFINE ss == [i \in 1 .. Len(td) |-> td[i].spans]
<1>1. ss \in Seq(Seq(Trace)) /\ Len(ss) = Len(td)
  <2>1. \A i \in 1 .. Len(td) : td[i].spans \in Seq(Trace)
    BY ArrivalAssumption
  <2> QED BY <2>1
<1>2. \A i \in 1 .. Len(td) : ss[i] = td[i].spans
  OBVIOUS
<1>3. SpanSeq(td) = FlattenSeq(ss)
  BY DEF SpanSeq
<1> HIDE DEF ss
<1>4. /\ FlattenSeq(ss) \in Seq(Trace)
      /\ ToSet(FlattenSeq(ss)) = UNION {ToSet(ss[i]) : i \in 1 .. Len(td)}
  BY <1>1, Flatten
<1>5. {ToSet(ss[i]) : i \in 1 .. Len(td)} = {ToSet(td[i].spans) : i \in 1 .. Len(td)}
  BY <1>2
<1> QED BY <1>3, <1>4, <1>5 DEF Spans

\* The first span of a batch, from which a trace's ID is read.
LEMMA FirstSpan ==
  ASSUME NEW td \in Seq(Arrivals), td # <<>>
  PROVE  td[1].spans # <<>> /\ td[1].spans[1] \in Trace /\ td[1].spans[1] \in Spans(td)
<1>1. Len(td) # 0 /\ td[1] \in Arrivals
  OBVIOUS
<1>2. td[1].spans \in Seq(Trace) /\ td[1].spans # <<>>
  BY <1>1, ArrivalAssumption
<1>3. td[1].spans[1] \in Trace /\ td[1].spans[1] \in ToSet(td[1].spans)
  BY <1>2, Members
<1>4. ToSet(td[1].spans) \subseteq Spans(td)
  BY <1>1, BatchSpans
<1> QED BY <1>2, <1>3, <1>4

\* Spans of a batch are spans of the trace.
LEMMA SpansOfTrace ==
  ASSUME NEW td \in Seq(Arrivals)
  PROVE  Spans(td) \subseteq Trace
<1>1. \A x \in Spans(td) : \E j \in 1 .. Len(SpanSeq(td)) : SpanSeq(td)[j] = x
  BY BatchSpans, Members DEF Spans
<1>2. SpanSeq(td) \in Seq(Trace)
  BY BatchSpans
<1> QED BY <1>1, <1>2

-----------------------------------------------------------------------------
(* Latency: the running window, and the duration it stands for.            *)

\* The values of a window.
Times == [min : Nat, max : Nat]

\* The function that Window defines by recursion exists.
LEMMA WindowExists ==
  ASSUME NEW spans \in Seq(Trace)
  PROVE  \E w \in [0 .. Len(spans) -> Times] :
           w = [n \in 0 .. Len(spans) |->
                  IF n = 0 THEN [min |-> 0, max |-> 0] ELSE Widen(w[n - 1], spans[n])]
<1>0. PICK N \in Nat : N = Len(spans)
  OBVIOUS
<1> DEFINE Zero == [min |-> 0, max |-> 0]
           Rec(w, k) == \A i \in 0 .. k : w[i] = IF i = 0 THEN Zero ELSE Widen(w[i - 1], spans[i])
           G == {k \in 0 .. N : \E w \in [0 .. k -> Times] : Rec(w, k)}
<1>1. 0 \in G
  <2> DEFINE w == [i \in 0 .. 0 |-> Zero]
  <2>1. w \in [0 .. 0 -> Times] /\ Rec(w, 0)
    BY DEF Times
  <2> HIDE DEF w, Rec
  <2> QED BY <2>1
<1>2. ASSUME NEW k \in 0 .. N - 1, k \in G PROVE k + 1 \in G
  <2>1. PICK w \in [0 .. k -> Times] : Rec(w, k)
    BY <1>2
  <2> DEFINE v == [i \in 0 .. k + 1 |-> IF i = k + 1 THEN Widen(w[k], spans[k + 1]) ELSE w[i]]
  <2>2. v \in [0 .. k + 1 -> Times]
    <3>1. w[k] \in Times /\ spans[k + 1] \in Trace
      BY <1>0
    <3>2. Widen(w[k], spans[k + 1]) \in Times
      BY <3>1, ArrivalAssumption DEF Widen, Times
    <3> QED BY <3>2
  <2>3. ASSUME NEW i \in 0 .. k + 1
        PROVE  v[i] = IF i = 0 THEN Zero ELSE Widen(v[i - 1], spans[i])
    <3>1. CASE i = k + 1
      <4>1. v[i] = Widen(w[k], spans[i]) /\ v[i - 1] = w[k] /\ i # 0
        BY <3>1
      <4> QED BY <4>1
    <3>2. CASE i \in 0 .. k
      <4>1. v[i] = w[i] /\ (i # 0 => v[i - 1] = w[i - 1])
        BY <3>2
      <4>2. w[i] = IF i = 0 THEN Zero ELSE Widen(w[i - 1], spans[i])
        BY <2>1, <3>2
      <4> QED BY <4>1, <4>2
    <3> QED BY <3>1, <3>2
  <2>4. Rec(v, k + 1)
    BY <2>3
  <2> HIDE DEF v, Rec
  <2> QED BY <2>2, <2>4
<1>3. N \in G
  <2>1. \A k \in 0 .. N - 1 : k \in G => k + 1 \in G
    BY <1>2
  <2>2. N \in 0 .. N
    OBVIOUS
  <2> HIDE DEF G
  <2> QED BY <1>1, <2>1, <2>2, Upward
<1>4. PICK w \in [0 .. N -> Times] : Rec(w, N)
  BY <1>3
<1>5. w = [n \in 0 .. N |-> IF n = 0 THEN Zero ELSE Widen(w[n - 1], spans[n])]
  BY <1>4
<1> QED BY <1>0, <1>5

\* A batch is Started if all its spans have a start, in whatever order they are.
LEMMA StartedSpans ==
  ASSUME NEW td \in Seq(Arrivals)
  PROVE  Started(td) <=> \A s \in Spans(td) : s.start # 0
<1>1. PICK spans \in Seq(Trace) : spans = SpanSeq(td)
  BY BatchSpans
<1>2. \A x : x \in Spans(td) <=> \E j \in 1 .. Len(spans) : spans[j] = x
  BY <1>1, Members DEF Spans
<1> QED BY <1>1, <1>2 DEF Started

\* What Window is, span by span.
LEMMA WindowSteps ==
  ASSUME NEW spans \in Seq(Trace)
  PROVE  /\ Window(spans) \in [0 .. Len(spans) -> Times]
         /\ Window(spans)[0] = [min |-> 0, max |-> 0]
         /\ \A n \in 1 .. Len(spans) : Window(spans)[n] = Widen(Window(spans)[n - 1], spans[n])
<1> DEFINE Rec(w) == [n \in 0 .. Len(spans) |->
                        IF n = 0 THEN [min |-> 0, max |-> 0] ELSE Widen(w[n - 1], spans[n])]
           W == CHOOSE w : w = Rec(w)
<1>1. Window(spans) = W
  BY DEF Window
<1>2. W = Rec(W)
  <2>1. \E w : w = Rec(w)
    BY WindowExists
  <2> HIDE DEF Rec
  <2> QED BY <2>1
<1> HIDE DEF W
<1>3. \A n \in 0 .. Len(spans) :
        W[n] = IF n = 0 THEN [min |-> 0, max |-> 0] ELSE Widen(W[n - 1], spans[n])
  <2>1. \A n \in 0 .. Len(spans) :
          Rec(W)[n] = IF n = 0 THEN [min |-> 0, max |-> 0] ELSE Widen(W[n - 1], spans[n])
    OBVIOUS
  <2> HIDE DEF Rec
  <2> QED BY <1>2, <2>1
<1>4. DOMAIN W = 0 .. Len(spans) /\ W = [n \in 0 .. Len(spans) |-> W[n]]
  BY <1>2
<1> HIDE DEF Rec
<1> DEFINE G == {n \in 0 .. Len(spans) : W[n] \in Times}
<1>5. 0 \in G
  BY <1>3 DEF Times
<1>6. \A k \in 0 .. Len(spans) - 1 : k \in G => k + 1 \in G
  <2> SUFFICES ASSUME NEW k \in 0 .. Len(spans) - 1, W[k] \in Times PROVE W[k + 1] \in Times
    OBVIOUS
  <2>1. W[k + 1] = Widen(W[k], spans[k + 1]) /\ spans[k + 1] \in Trace
    BY <1>3
  <2> QED BY <2>1, ArrivalAssumption DEF Widen, Times
<1>7. \A n \in 0 .. Len(spans) : n \in G
  <2>1. Len(spans) \in Nat
    OBVIOUS
  <2> HIDE DEF G
  <2> QED BY <1>5, <1>6, <2>1, Upward
<1>8. W \in [0 .. Len(spans) -> Times]
  <2>1. \A n \in 0 .. Len(spans) : W[n] \in Times
    BY <1>7
  <2> QED BY <1>4, <2>1, Zenon
<1>9. W[0] = [min |-> 0, max |-> 0] /\ \A n \in 1 .. Len(spans) : W[n] = Widen(W[n - 1], spans[n])
  BY <1>3
<1> QED BY <1>1, <1>8, <1>9

\* Spans that follow leave the windows of those before them as they are.
LEMMA WindowPrefix ==
  ASSUME NEW spans \in Seq(Trace), NEW more \in Seq(Trace)
  PROVE  \A n \in 0 .. Len(spans) : Window(spans \o more)[n] = Window(spans)[n]
<1>1. PICK all \in Seq(Trace) : all = spans \o more
  <2>1. spans \o more \in Seq(Trace)
    OBVIOUS
  <2> QED BY <2>1
<1>2. PICK N \in Nat : N = Len(spans)
  OBVIOUS
<1>3. Len(all) \in Nat /\ N <= Len(all) /\ \A n \in 1 .. N : all[n] = spans[n]
  BY <1>1, <1>2
<1>4. PICK v, w : v = Window(all) /\ w = Window(spans)
  OBVIOUS
<1>5. w[0] = [min |-> 0, max |-> 0] /\ \A n \in 1 .. N : w[n] = Widen(w[n - 1], spans[n])
  BY <1>2, <1>4, WindowSteps
<1>6. v[0] = [min |-> 0, max |-> 0] /\ \A n \in 1 .. Len(all) : v[n] = Widen(v[n - 1], all[n])
  BY <1>4, WindowSteps
<1> DEFINE G == {n \in 0 .. N : v[n] = w[n]}
<1>7. 0 \in G
  BY <1>5, <1>6
<1>8. \A k \in 0 .. N - 1 : k \in G => k + 1 \in G
  <2> SUFFICES ASSUME NEW k \in 0 .. N - 1, v[k] = w[k] PROVE v[k + 1] = w[k + 1]
    OBVIOUS
  <2>1. k + 1 \in 1 .. N /\ k + 1 \in 1 .. Len(all) /\ (k + 1) - 1 = k
    BY <1>3
  <2>2. v[k + 1] = Widen(v[k], all[k + 1]) /\ w[k + 1] = Widen(w[k], spans[k + 1])
    BY <1>5, <1>6, <2>1
  <2> QED BY <1>3, <2>1, <2>2
<1>9. \A n \in 0 .. N : n \in G
  <2> HIDE DEF G
  <2> QED BY <1>7, <1>8, Upward
<1> QED BY <1>1, <1>2, <1>4, <1>9

\* Latency is decided by the first spans that are far enough apart, whatever follows them.
LEMMA LatencyAppend ==
  ASSUME NEW td \in Seq(Arrivals), NEW rs \in Arrivals, NEW e, latency(e, td) = "Sampled"
  PROVE  latency(e, Append(td, rs)) = "Sampled"
<1>1. PICK spans \in Seq(Trace) : spans = SpanSeq(td)
  BY BatchSpans
<1>2. PICK n \in 1 .. Len(spans) :
        InThreshold(e, Milliseconds(Window(spans)[n].max - Window(spans)[n].min))
  BY <1>1 DEF latency
<1> DEFINE ss == [i \in 1 .. Len(td) |-> td[i].spans]
           ts == [i \in 1 .. Len(Append(td, rs)) |-> Append(td, rs)[i].spans]
<1>3. \A a \in Arrivals : a.spans \in Seq(Trace)
  BY ArrivalAssumption
<1>4. ss \in Seq(Seq(Trace)) /\ Len(ss) = Len(td)
  BY <1>3
<1>5. Len(ss) # 0
  <2> SUFFICES ASSUME Len(ss) = 0 PROVE FALSE
    OBVIOUS
  <2>1. Spans(td) = {}
    <3>1. 1 .. Len(td) = {}
      BY <1>4
    <3> QED BY <3>1, BatchSpans
  <2>2. spans[n] \in Spans(td)
    BY <1>1, Members DEF Spans
  <2> QED BY <2>1, <2>2
<1>6. ts = Append(ss, rs.spans)
  <2>1. Len(Append(td, rs)) = Len(td) + 1 /\ \A i \in 1 .. Len(td) : Append(td, rs)[i] = td[i]
    OBVIOUS
  <2>2. Append(td, rs)[Len(td) + 1] = rs /\ Len(td) \in Nat
    OBVIOUS
  <2>3. /\ Append(ss, rs.spans) \in Seq(Seq(Trace)) /\ Len(Append(ss, rs.spans)) = Len(td) + 1
        /\ \A i \in 1 .. Len(td) : Append(ss, rs.spans)[i] = ss[i]
        /\ Append(ss, rs.spans)[Len(td) + 1] = rs.spans
    <3> HIDE DEF ss
    <3> QED BY <1>3, <1>4
  <2>4. ts \in Seq(Seq(Trace)) /\ Len(ts) = Len(td) + 1
    BY <1>3, <2>1, <2>2
  <2>5. \A i \in 1 .. Len(td) + 1 : ts[i] = Append(ss, rs.spans)[i]
    BY <2>1, <2>2, <2>3
  <2> HIDE DEF ss, ts
  <2> QED BY <2>3, <2>4, <2>5
<1>7. SpanSeq(td) = FlattenSeq(ss) /\ SpanSeq(Append(td, rs)) = FlattenSeq(ts)
  BY DEF SpanSeq
<1> HIDE DEF ss, ts
<1>8. SpanSeq(Append(td, rs)) = spans \o rs.spans /\ rs.spans \in Seq(Trace)
  BY <1>1, <1>3, <1>4, <1>5, <1>6, <1>7, FlattenAppend
<1>9. PICK all : all = spans \o rs.spans
  OBVIOUS
<1>10. Window(all)[n] = Window(spans)[n] /\ n \in 1 .. Len(all)
  <2>1. Len(spans) \in Nat /\ Len(all) = Len(spans) + Len(rs.spans) /\ Len(rs.spans) \in Nat
    BY <1>8, <1>9
  <2>2. n \in 0 .. Len(spans)
    BY <2>1
  <2> QED BY <1>8, <1>9, <2>1, <2>2, WindowPrefix
<1>11. \E k \in 1 .. Len(all) :
         InThreshold(e, Milliseconds(Window(all)[k].max - Window(all)[k].min))
  BY <1>2, <1>10
<1> QED BY <1>8, <1>9, <1>11 DEF latency

\* Of a longer window the start is no later and the end no earlier.
LEMMA WindowRange ==
  ASSUME NEW spans \in Seq(Trace), \A i \in 1 .. Len(spans) : spans[i].start # 0
  PROVE  \A n \in 1 .. Len(spans) :
           /\ \E i \in 1 .. n : Window(spans)[n].min = spans[i].start
           /\ \E i \in 1 .. n : Window(spans)[n].max = spans[i].end
           /\ \A i \in 1 .. n : /\ Window(spans)[n].min <= spans[i].start
                                /\ spans[i].end <= Window(spans)[n].max
<1>1. PICK w : w = Window(spans)
  OBVIOUS
<1>2. /\ w \in [0 .. Len(spans) -> Times] /\ w[0] = [min |-> 0, max |-> 0]
      /\ \A n \in 1 .. Len(spans) : w[n] = Widen(w[n - 1], spans[n])
  BY <1>1, WindowSteps
<1>3. \A i \in 1 .. Len(spans) : spans[i].start \in Nat \ {0} /\ spans[i].end \in Nat
  BY ArrivalAssumption
<1> DEFINE Tight(n) == /\ \E i \in 1 .. n : w[n].min = spans[i].start
                       /\ \E i \in 1 .. n : w[n].max = spans[i].end
                       /\ \A i \in 1 .. n : w[n].min <= spans[i].start /\ spans[i].end <= w[n].max
           G == {n \in 1 .. Len(spans) : Tight(n)}
<1>4. ASSUME Len(spans) # 0 PROVE 1 \in G
  <2>1. 1 \in 1 .. Len(spans) /\ w[1 - 1] = w[0]
    BY <1>4
  <2>2. w[1] = [min |-> spans[1].start, max |-> spans[1].end]
    <3>1. w[1] = Widen(w[0], spans[1]) /\ w[0].min = 0
      BY <1>2, <2>1
    <3> QED BY <3>1 DEF Widen
  <2>3. w[1].min = spans[1].start /\ w[1].max = spans[1].end
    BY <2>2
  <2>4. Tight(1)
    BY <1>3, <2>1, <2>3
  <2> QED BY <2>1, <2>4
<1>5. ASSUME NEW k \in 1 .. Len(spans) - 1, k \in G PROVE k + 1 \in G
  <2>1. PICK i \in 1 .. k : w[k].min = spans[i].start
    BY <1>5
  <2>2. PICK j \in 1 .. k : w[k].max = spans[j].end
    BY <1>5
  <2>3. \A l \in 1 .. k : w[k].min <= spans[l].start /\ spans[l].end <= w[k].max
    BY <1>5
  <2>4. k + 1 \in 1 .. Len(spans) /\ (k + 1) - 1 = k /\ i \in 1 .. Len(spans) /\ j \in 1 .. Len(spans)
    OBVIOUS
  <2>5. w[k].min # 0 /\ w[k].min \in Nat /\ w[k].max \in Nat
    BY <1>3, <2>1, <2>2, <2>4
  <2> DEFINE s == spans[k + 1]
  <2>6. w[k + 1] = [min |-> IF s.start < w[k].min THEN s.start ELSE w[k].min,
                    max |-> IF s.end > w[k].max THEN s.end ELSE w[k].max]
    BY <1>2, <2>4, <2>5 DEF Widen
  <2>7. /\ w[k + 1].min = IF s.start < w[k].min THEN s.start ELSE w[k].min
        /\ w[k + 1].max = IF s.end > w[k].max THEN s.end ELSE w[k].max
    BY <2>6
  <2>8. \A l \in 1 .. k + 1 : l \in 1 .. Len(spans) /\ (l \in 1 .. k \/ l = k + 1)
    BY <2>4
  <2>9. s.start \in Nat /\ s.end \in Nat
    BY <1>3, <2>4
  <2>10. \E l \in 1 .. k + 1 : w[k + 1].min = spans[l].start
    BY <2>1, <2>7
  <2>11. \E l \in 1 .. k + 1 : w[k + 1].max = spans[l].end
    BY <2>2, <2>7
  <2>12. ASSUME NEW l \in 1 .. k + 1
         PROVE  w[k + 1].min <= spans[l].start /\ spans[l].end <= w[k + 1].max
    <3>1. spans[l].start \in Nat /\ spans[l].end \in Nat
      BY <1>3, <2>8
    <3>2. CASE l = k + 1
      BY <2>5, <2>7, <2>9, <3>2
    <3>3. CASE l \in 1 .. k
      <4>1. w[k].min <= spans[l].start /\ spans[l].end <= w[k].max
        BY <2>3, <3>3
      <4> QED BY <2>5, <2>7, <2>9, <3>1, <4>1
    <3> QED BY <2>8, <3>2, <3>3
  <2> QED BY <2>4, <2>10, <2>11, <2>12
<1>6. ASSUME NEW n \in 1 .. Len(spans) PROVE n \in G
  <2>1. 1 \in G /\ Len(spans) \in Nat /\ \A k \in 1 .. Len(spans) - 1 : k \in G => k + 1 \in G
    BY <1>4, <1>5
  <2> HIDE DEF G
  <2> QED BY <2>1, Upward
<1>7. \A n \in 1 .. Len(spans) : Tight(n)
  BY <1>6
<1> QED BY <1>1, <1>7

\* Truncating to milliseconds keeps the order.
LEMMA MillisecondsMonotone ==
  ASSUME NEW a \in Int, NEW b \in Int, a <= b
  PROVE  Milliseconds(a) \in Int /\ Milliseconds(b) \in Int /\ Milliseconds(a) <= Milliseconds(b)
<1>1. \A x, y \in Nat : x <= y => /\ x \div NsPerMs \in Nat /\ y \div NsPerMs \in Nat
                                  /\ x \div NsPerMs <= y \div NsPerMs
  <2> SUFFICES ASSUME NEW x \in Nat, NEW y \in Nat, x <= y
               PROVE  /\ x \div NsPerMs \in Nat /\ y \div NsPerMs \in Nat
                      /\ x \div NsPerMs <= y \div NsPerMs
    OBVIOUS
  <2> QED BY EvaluatorAssumption
<1>2. CASE a >= 0
  BY <1>1, <1>2 DEF Milliseconds
<1>3. CASE a < 0 /\ b >= 0
  <2>1. (-a) \div NsPerMs \in Nat /\ b \div NsPerMs \in Nat
    BY <1>1, <1>3
  <2> QED BY <1>3, <2>1 DEF Milliseconds
<1>4. CASE b < 0
  <2>1. -b \in Nat /\ -a \in Nat /\ -b <= -a
    BY <1>4
  <2>2. /\ (-b) \div NsPerMs \in Nat /\ (-a) \div NsPerMs \in Nat
        /\ (-b) \div NsPerMs <= (-a) \div NsPerMs
    BY <1>1, <2>1
  <2> QED BY <1>4, <2>2 DEF Milliseconds
<1> QED BY <1>2, <1>3, <1>4

\* Latency without an upper bound looks for two spans that are far enough apart.
LEMMA LatencyPair ==
  ASSUME NEW td \in Seq(Arrivals), Started(td), NEW e, e.upper = 0, e.threshold \in Int
  PROVE  latency(e, td) = IF \E s, t \in Spans(td) : Milliseconds(t.end - s.start) >= e.threshold
                            THEN "Sampled" ELSE "NotSampled"
<1>1. PICK spans \in Seq(Trace) : spans = SpanSeq(td)
  BY BatchSpans
<1>2. PICK w : w = Window(spans)
  OBVIOUS
<1>3. \A x : x \in Spans(td) <=> \E j \in 1 .. Len(spans) : spans[j] = x
  BY <1>1, Members DEF Spans
<1>4. \A i \in 1 .. Len(spans) : spans[i].start \in Nat /\ spans[i].end \in Nat
  BY ArrivalAssumption
<1>5. \A n \in 1 .. Len(spans) :
        /\ \E i \in 1 .. n : w[n].min = spans[i].start
        /\ \E i \in 1 .. n : w[n].max = spans[i].end
        /\ \A i \in 1 .. n : w[n].min <= spans[i].start /\ spans[i].end <= w[n].max
  <2>1. \A i \in 1 .. Len(spans) : spans[i].start # 0
    BY <1>1 DEF Started
  <2> QED BY <1>2, <2>1, WindowRange
<1> DEFINE Found == \E n \in 1 .. Len(spans) : InThreshold(e, Milliseconds(w[n].max - w[n].min))
           Apart == \E s, t \in Spans(td) : Milliseconds(t.end - s.start) >= e.threshold
<1>6. ASSUME Found PROVE Apart
  <2>1. PICK n \in 1 .. Len(spans) : Milliseconds(w[n].max - w[n].min) >= e.threshold
    BY <1>6 DEF InThreshold
  <2>2. PICK i \in 1 .. n : w[n].min = spans[i].start
    BY <1>5
  <2>3. PICK j \in 1 .. n : w[n].max = spans[j].end
    BY <1>5
  <2>4. spans[i] \in Spans(td) /\ spans[j] \in Spans(td)
    BY <1>3
  <2> QED BY <2>1, <2>2, <2>3, <2>4
<1>7. ASSUME Apart PROVE Found
  <2>1. PICK s, t \in Spans(td) : Milliseconds(t.end - s.start) >= e.threshold
    BY <1>7
  <2>2. PICK i \in 1 .. Len(spans), j \in 1 .. Len(spans) : spans[i] = s /\ spans[j] = t
    BY <1>3, <2>1
  <2>3. PICK n : n = Len(spans) /\ n \in 1 .. Len(spans) /\ i \in 1 .. n /\ j \in 1 .. n
    BY <2>2
  <2>4. PICK k \in 1 .. n : w[n].min = spans[k].start
    BY <1>5, <2>3
  <2>5. PICK l \in 1 .. n : w[n].max = spans[l].end
    BY <1>5, <2>3
  <2>6. w[n].min <= s.start /\ t.end <= w[n].max
    BY <1>5, <2>2, <2>3
  <2>7. w[n].min \in Nat /\ w[n].max \in Nat /\ s.start \in Nat /\ t.end \in Nat
    BY <1>4, <2>2, <2>3, <2>4, <2>5
  <2>8. /\ t.end - s.start \in Int /\ w[n].max - w[n].min \in Int
        /\ t.end - s.start <= w[n].max - w[n].min
    <3>1. PICK a \in Nat, b \in Nat, c \in Nat, d \in Nat :
            a = w[n].min /\ b = w[n].max /\ c = s.start /\ d = t.end
      BY <2>7
    <3>2. a <= c /\ d <= b
      BY <2>6, <3>1
    <3>3. d - c \in Int /\ b - a \in Int /\ d - c <= b - a
      BY <3>2
    <3> QED BY <3>1, <3>3
  <2>9. Milliseconds(w[n].max - w[n].min) >= e.threshold
    <3>1. PICK a \in Int, b \in Int : a = t.end - s.start /\ b = w[n].max - w[n].min /\ a <= b
      BY <2>8
    <3>2. Milliseconds(a) \in Int /\ Milliseconds(b) \in Int /\ Milliseconds(a) <= Milliseconds(b)
      BY <3>1, MillisecondsMonotone
    <3>3. Milliseconds(a) >= e.threshold
      BY <2>1, <3>1
    <3>4. Milliseconds(b) >= e.threshold
      BY <3>2, <3>3
    <3> QED BY <3>1, <3>4
  <2> QED BY <2>3, <2>9 DEF InThreshold
<1>8. latency(e, td) = IF Found THEN "Sampled" ELSE "NotSampled"
  BY <1>1, <1>2 DEF latency
<1> HIDE DEF Found, Apart
<1>9. latency(e, td) = IF Apart THEN "Sampled" ELSE "NotSampled"
  BY <1>6, <1>7, <1>8
<1> QED BY <1>9 DEF Apart

-----------------------------------------------------------------------------
(* Policies that are not compound.                                         *)

LocalTypes   == {"always_sample", "probabilistic"}
WitnessTypes == {"status_code", "string_attribute", "numeric_attribute", "boolean_attribute",
                 "trace_state", "trace_flags"}
SharedTypes  == LocalTypes \union WitnessTypes \union {"latency", "ottl_condition"}

\* What buildShared returns without an error.
ValidShared(e) == e.type \in SharedTypes /\ (e.type = "latency" => e.threshold \in Int)

\* A policy that reports no error and has no upper bound only ever looks for a witness.
Steady(e) == /\ ~(e.type = "ottl_condition" /\ e.mode = "propagate")
             /\ ~(e.type = "latency" /\ e.upper # 0)

\* EvaluateShared by type.
LEMMA SharedIs ==
  ASSUME NEW e, NEW td
  PROVE  /\ e.type = "always_sample"     => EvaluateShared(e, td) = "SampledLocal"
         /\ e.type = "latency"           => EvaluateShared(e, td) = latency(e, td)
         /\ e.type = "status_code"       => EvaluateShared(e, td) = statusCode(e, td)
         /\ e.type = "string_attribute"  => EvaluateShared(e, td) = stringAttribute(e, td)
         /\ e.type = "numeric_attribute" => EvaluateShared(e, td) = numericAttribute(e, td)
         /\ e.type = "boolean_attribute" => EvaluateShared(e, td) = booleanAttribute(e, td)
         /\ e.type = "probabilistic"     => EvaluateShared(e, td) = probabilistic(e, td)
         /\ e.type = "trace_state"       => EvaluateShared(e, td) = traceState(e, td)
         /\ e.type = "trace_flags"       => EvaluateShared(e, td) = traceFlags(td)
         /\ e.type = "ottl_condition"    => EvaluateShared(e, td) = ottlCondition(e, td)
BY DEF EvaluateShared

\* The answers of an OTTL policy on one span.
Answers(e, s) == (IF e.onSpan THEN <<s.ottl>> ELSE <<>>) \o (IF e.onEvent THEN s.events ELSE <<>>)

\* The answers of an OTTL policy are outcomes.
LEMMA AnswersType ==
  ASSUME NEW e, NEW s \in Trace
  PROVE  Answers(e, s) \in Seq(Outcomes)
<1>1. s.ottl \in Outcomes /\ s.events \in Seq(Outcomes)
  BY ArrivalAssumption
<1>2. <<s.ottl>> \in Seq(Outcomes) /\ <<>> \in Seq(Outcomes)
  BY <1>1
<1>3. (IF e.onSpan THEN <<s.ottl>> ELSE <<>>) \in Seq(Outcomes)
  BY <1>2
<1>4. (IF e.onEvent THEN s.events ELSE <<>>) \in Seq(Outcomes)
  BY <1>1, <1>2
<1>5. \A a, b \in Seq(Outcomes) : a \o b \in Seq(Outcomes)
  OBVIOUS
<1> QED BY <1>3, <1>4, <1>5 DEF Answers

\* An OTTL policy yields one of three results, and an error only in propagate mode.
LEMMA OttlResult ==
  ASSUME NEW e, NEW td \in Seq(Arrivals)
  PROVE  /\ ottlCondition(e, td) \in {"Sampled", "NotSampled", "error"}
         /\ e.mode # "propagate" =>
              ottlCondition(e, td) =
                IF \E s \in Spans(td) : "yes" \in ToSet(Answers(e, s)) THEN "Sampled" ELSE "NotSampled"
<1>1. PICK spans \in Seq(Trace) : spans = SpanSeq(td)
  BY BatchSpans
<1> DEFINE ss == [i \in 1 .. Len(spans) |-> Answers(e, spans[i])]
<1>2. ss \in Seq(Seq(Outcomes)) /\ Len(ss) = Len(spans) /\ \A i \in 1 .. Len(spans) : ss[i] = Answers(e, spans[i])
  BY AnswersType
<1> HIDE DEF ss
<1>3. PICK all : all = FlattenSeq(ss)
  OBVIOUS
<1>4. all \in Seq(Outcomes) /\ ToSet(all) = UNION {ToSet(ss[i]) : i \in 1 .. Len(ss)}
  BY <1>2, <1>3, Flatten
<1> DEFINE evals == [i \in 1 .. Len(all) |-> Eval(e, all[i])]
           first == FirstOf(evals, {"yes", "error"}, "no")
<1>5. ottlCondition(e, td) = CASE first = "yes" -> "Sampled"
                               [] first = "no" -> "NotSampled" [] OTHER -> "error"
  BY <1>1, <1>3 DEF ottlCondition, Answers, ss
<1>6. Len(evals) = Len(all) /\ \A i \in 1 .. Len(all) : evals[i] = Eval(e, all[i])
  BY <1>4
<1> HIDE DEF evals
<1>7. first \in {"yes", "error"} \union {"no"}
  BY <1>4, <1>6, FirstOfType
<1>8. ASSUME e.mode # "propagate"
      PROVE  first = IF \E s \in Spans(td) : "yes" \in ToSet(Answers(e, s)) THEN "yes" ELSE "no"
  <2>1. \A i \in 1 .. Len(all) : /\ all[i] \in Outcomes /\ evals[i] # "error"
                                 /\ evals[i] = "yes" <=> all[i] = "yes"
    BY <1>4, <1>6, <1>8 DEF Eval, Outcomes
  <2>2. "yes" \in ToSet(all) <=> \E s \in Spans(td) : "yes" \in ToSet(Answers(e, s))
    <3>1. \A x : x \in Spans(td) <=> \E j \in 1 .. Len(spans) : spans[j] = x
      BY <1>1, Members DEF Spans
    <3>2. "yes" \in ToSet(all) <=> \E i \in 1 .. Len(spans) : "yes" \in ToSet(Answers(e, spans[i]))
      BY <1>2, <1>4
    <3> QED BY <3>1, <3>2
  <2>3. CASE "yes" \in ToSet(all)
    <3>1. PICK i \in 1 .. Len(all) : evals[i] = "yes"
      BY <1>4, <2>1, <2>3, Members
    <3>2. \E j \in 1 .. Len(evals) : first = evals[j] /\ evals[j] \in {"yes", "error"}
      BY <1>4, <1>6, <3>1, FirstHit
    <3>3. first = "yes"
      BY <1>6, <2>1, <3>2
    <3> QED BY <2>2, <2>3, <3>3
  <2>4. CASE "yes" \notin ToSet(all)
    <3>1. \A i \in 1 .. Len(evals) : evals[i] \notin {"yes", "error"}
      BY <1>4, <1>6, <2>1, <2>4, Members
    <3>2. first = "no"
      BY <3>1, NoHit
    <3> QED BY <2>2, <2>4, <3>2
  <2> QED BY <2>3, <2>4
<1> HIDE DEF first
<1>9. ottlCondition(e, td) \in {"Sampled", "NotSampled", "error"}
  BY <1>5, <1>7
<1>10. ASSUME e.mode # "propagate"
       PROVE  ottlCondition(e, td) =
                IF \E s \in Spans(td) : "yes" \in ToSet(Answers(e, s)) THEN "Sampled" ELSE "NotSampled"
  BY <1>5, <1>8, <1>10
<1> QED BY <1>9, <1>10

\* What an evaluator may return: kept spans are reported unless its type is local.
LEMMA SharedResult ==
  ASSUME NEW e, ValidShared(e), NEW td \in Seq(Arrivals)
  PROVE  /\ e.type \in LocalTypes => EvaluateShared(e, td) \in {"SampledLocal", "NotSampled"}
         /\ e.type \notin LocalTypes => EvaluateShared(e, td) \in {"Sampled", "NotSampled", "error"}
         /\ EvaluateShared(e, td) = "error" => e.type = "ottl_condition" /\ e.mode = "propagate"
<1>1. CASE e.type \in LocalTypes
  BY <1>1, SharedIs DEF LocalTypes, probabilistic
<1>2. CASE e.type \in WitnessTypes
  BY <1>2, SharedIs DEF LocalTypes, WitnessTypes, statusCode, stringAttribute, numericAttribute,
       booleanAttribute, traceState, traceFlags, hasSpanWithCondition, hasResourceOrSpanWithCondition
<1>3. CASE e.type = "latency"
  BY <1>3, SharedIs DEF LocalTypes, latency
<1>4. CASE e.type = "ottl_condition"
  BY <1>4, SharedIs, OttlResult DEF LocalTypes
<1> QED BY <1>1, <1>2, <1>3, <1>4 DEF ValidShared, SharedTypes

\* What a latency policy keeps of td it keeps of ud.
SlowToo(e, ud, td) == latency(e, td) = "Sampled" => latency(e, ud) = "Sampled"

\* Batch ud has the spans and resources of batch td, and perhaps more.
Covers(ud, td) == Spans(td) \subseteq Spans(ud) /\ Resources(td) \subseteq Resources(ud)

\* Spans that join a batch take away no witness.
LEMMA SharedGrows ==
  ASSUME NEW e, ValidShared(e), ~(e.type = "ottl_condition" /\ e.mode = "propagate"),
         NEW td \in Seq(Arrivals), NEW ud \in Seq(Arrivals), Covers(ud, td),
         e.type = "latency" => SlowToo(e, ud, td), EvaluateShared(e, td) \in Keep
  PROVE  EvaluateShared(e, ud) \in Keep
<1>1. Spans(td) \subseteq Spans(ud) /\ Resources(td) \subseteq Resources(ud)
  BY DEF Covers
<1>2. CASE e.type = "always_sample"
  BY <1>2, SharedIs DEF Keep
<1>3. CASE e.type = "probabilistic"
  <2>1. td # <<>> /\ Hash(e.seed, td[1].spans[1].tid) % numHashBuckets < e.threshold
    BY <1>3, SharedIs DEF probabilistic, Keep
  <2>2. td[1].spans[1] \in Trace /\ td[1].spans[1] \in Spans(ud)
    BY <1>1, <2>1, FirstSpan
  <2>3. ud # <<>>
    <3>1. Spans(<<>>) = {}
      <4>1. <<>> \in Seq(Arrivals) /\ 1 .. Len(<<>>) = {}
        OBVIOUS
      <4> QED BY <4>1, BatchSpans
    <3> QED BY <2>2, <3>1
  <2>4. ud[1].spans # <<>> /\ ud[1].spans[1].tid = td[1].spans[1].tid
    BY <2>2, <2>3, FirstSpan, ArrivalAssumption
  <2>5. probabilistic(e, ud) = "SampledLocal"
    BY <2>1, <2>3, <2>4 DEF probabilistic
  <2> QED BY <1>3, <2>5, SharedIs DEF Keep
<1>4. CASE e.type = "status_code"
  BY <1>1, <1>4, SharedIs DEF Keep, statusCode, hasSpanWithCondition
<1>5. CASE e.type = "string_attribute"
  BY <1>1, <1>5, SharedIs
  DEF Keep, stringAttribute, hasSpanWithCondition, hasResourceOrSpanWithCondition
<1>6. CASE e.type = "numeric_attribute"
  BY <1>1, <1>6, SharedIs
  DEF Keep, numericAttribute, hasSpanWithCondition, hasResourceOrSpanWithCondition
<1>7. CASE e.type = "boolean_attribute"
  BY <1>1, <1>7, SharedIs
  DEF Keep, booleanAttribute, hasSpanWithCondition, hasResourceOrSpanWithCondition
<1>8. CASE e.type = "trace_state"
  BY <1>1, <1>8, SharedIs DEF Keep, traceState, hasSpanWithCondition
<1>9. CASE e.type = "trace_flags"
  BY <1>1, <1>9, SharedIs DEF Keep, traceFlags, hasSpanWithCondition
<1>10. CASE e.type = "latency"
  <2>1. latency(e, td) \in {"Sampled", "NotSampled"}
    BY DEF latency
  <2> QED BY <1>10, <2>1, SharedIs DEF Keep, SlowToo
<1>11. CASE e.type = "ottl_condition"
  <2>1. e.mode # "propagate"
    BY <1>11
  <2>2. \E s \in Spans(td) : "yes" \in ToSet(Answers(e, s))
    BY <1>11, <2>1, OttlResult, SharedIs DEF Keep
  <2>3. \E s \in Spans(ud) : "yes" \in ToSet(Answers(e, s))
    BY <1>1, <2>2
  <2> QED BY <1>11, <2>1, <2>3, OttlResult, SharedIs DEF Keep
<1> QED BY <1>2, <1>3, <1>4, <1>5, <1>6, <1>7, <1>8, <1>9, <1>10, <1>11
        DEF ValidShared, SharedTypes, LocalTypes, WitnessTypes

\* The order of the spans does not matter to a policy that looks for a witness.
LEMMA SharedSame ==
  ASSUME NEW e, ValidShared(e), Steady(e),
         NEW td \in Seq(Arrivals), NEW ud \in Seq(Arrivals), Covers(ud, td), Covers(td, ud),
         Started(td), Started(ud)
  PROVE  EvaluateShared(e, td) = EvaluateShared(e, ud)
<1>0. ASSUME e.type = "latency" PROVE SlowToo(e, ud, td) /\ SlowToo(e, td, ud)
  <2>1. e.upper = 0 /\ e.threshold \in Int
    BY <1>0 DEF Steady, ValidShared
  <2>2. Spans(td) = Spans(ud)
    BY DEF Covers
  <2>3. latency(e, td) = latency(e, ud)
    BY <2>1, <2>2, LatencyPair
  <2> QED BY <2>3 DEF SlowToo
<1>1. EvaluateShared(e, td) \in Keep <=> EvaluateShared(e, ud) \in Keep
  BY <1>0, SharedGrows DEF Steady
<1>2. EvaluateShared(e, td) # "error" /\ EvaluateShared(e, ud) # "error"
  BY SharedResult DEF Steady
<1> QED BY <1>1, <1>2, SharedResult DEF Keep

-----------------------------------------------------------------------------
(* Compound policies.                                                      *)

ValidPolicy(e) ==
  \/ ValidShared(e)
  \/ /\ e.type \in {"and", "drop"} /\ Len(e.subs) \in Nat
     /\ \A i \in 1 .. Len(e.subs) : ValidShared(e.subs[i])
  \/ e.type = "not" /\ ValidShared(e.sub)

\* allSubsMatch: no sub-policy drops, so an error is one that a sub-policy reports.
LEMMA AllMatch ==
  ASSUME NEW subs, Len(subs) \in Nat, \A i \in 1 .. Len(subs) : ValidShared(subs[i]),
         NEW td \in Seq(Arrivals)
  PROVE  /\ allSubsMatch(subs, td) \in {"match", "NotSampled", "error"}
         /\ allSubsMatch(subs, td) = "match" <=>
              \A i \in 1 .. Len(subs) : EvaluateShared(subs[i], td) \in Keep
         /\ allSubsMatch(subs, td) = "error" =>
              \E i \in 1 .. Len(subs) : subs[i].type = "ottl_condition" /\ subs[i].mode = "propagate"
<1> DEFINE r == [i \in 1 .. Len(subs) |-> EvaluateShared(subs[i], td)]
           stop == {"NotSampled", "Dropped", "error"}
           first == FirstOf(r, stop, "match")
<1>1. Len(r) = Len(subs) /\ \A i \in 1 .. Len(subs) : r[i] = EvaluateShared(subs[i], td)
  OBVIOUS
<1>2. allSubsMatch(subs, td) = IF first = "Dropped" THEN "error" ELSE first
  BY DEF allSubsMatch
<1> HIDE DEF r
<1>3. \A i \in 1 .. Len(subs) :
        /\ r[i] \in Keep \union {"NotSampled", "error"}
        /\ r[i] = "error" => subs[i].type = "ottl_condition" /\ subs[i].mode = "propagate"
  BY <1>1, SharedResult DEF Keep
<1>4. CASE \E i \in 1 .. Len(r) : r[i] \in stop
  <2>1. PICK i \in 1 .. Len(r) : first = r[i] /\ r[i] \in stop
    BY <1>1, <1>4, FirstHit
  <2>2. allSubsMatch(subs, td) = r[i]
    BY <1>1, <1>2, <1>3, <2>1 DEF Keep
  <2> QED BY <1>1, <1>3, <2>1, <2>2 DEF Keep
<1>5. CASE \A i \in 1 .. Len(r) : r[i] \notin stop
  <2>1. first = "match"
    BY <1>5, NoHit
  <2> QED BY <1>1, <1>2, <1>3, <1>5, <2>1
<1> QED BY <1>4, <1>5

\* EvaluatePolicy by type.
LEMMA PolicyIs ==
  ASSUME NEW e, NEW td
  PROVE  /\ e.type = "and"  => EvaluatePolicy(e, td) = andPolicy(e, td)
         /\ e.type = "not"  => EvaluatePolicy(e, td) = notPolicy(e, td)
         /\ e.type = "drop" => EvaluatePolicy(e, td) = dropPolicy(e, td)
         /\ e.type \notin {"and", "not", "drop"} => EvaluatePolicy(e, td) = EvaluateShared(e, td)
BY DEF EvaluatePolicy

\* The types do not overlap.
LEMMA SharedNotCompound == SharedTypes \intersect {"and", "not", "drop"} = {}
BY DEF SharedTypes, LocalTypes, WitnessTypes

\* What a policy may return, and of which policies it may be an error or a drop.
LEMMA PolicyResult ==
  ASSUME NEW e, ValidPolicy(e), NEW td \in Seq(Arrivals)
  PROVE  /\ EvaluatePolicy(e, td) \in Keep \union {"NotSampled", "Dropped", "error"}
         /\ EvaluatePolicy(e, td) = "error" => Reports(e)
         /\ EvaluatePolicy(e, td) = "Dropped" => e.type = "drop"
         /\ EvaluatePolicy(e, td) = "SampledLocal" => e.type \in LocalTypes
<1>1. CASE ValidShared(e)
  <2>1. EvaluatePolicy(e, td) = EvaluateShared(e, td)
    BY <1>1, PolicyIs, SharedNotCompound DEF ValidShared
  <2> QED BY <1>1, <2>1, SharedResult DEF Keep, Reports
<1>2. CASE /\ e.type \in {"and", "drop"} /\ Len(e.subs) \in Nat
           /\ \A i \in 1 .. Len(e.subs) : ValidShared(e.subs[i])
  <2>1. /\ allSubsMatch(e.subs, td) \in {"match", "NotSampled", "error"}
        /\ allSubsMatch(e.subs, td) = "error" => Reports(e)
    BY <1>2, AllMatch DEF Reports
  <2>2. CASE e.type = "and"
    BY <2>1, <2>2, PolicyIs DEF andPolicy, Keep
  <2>3. CASE e.type = "drop"
    BY <2>1, <2>3, PolicyIs DEF dropPolicy, Keep
  <2> QED BY <1>2, <2>2, <2>3
<1>3. CASE e.type = "not" /\ ValidShared(e.sub)
  <2>1. /\ EvaluateShared(e.sub, td) \in {"Sampled", "SampledLocal", "NotSampled", "error"}
        /\ EvaluateShared(e.sub, td) = "error" => Reports(e)
    BY <1>3, SharedResult DEF Reports
  <2>2. EvaluatePolicy(e, td) = notPolicy(e, td)
    BY <1>3, PolicyIs
  <2> QED BY <2>1, <2>2 DEF notPolicy, Keep
<1> QED BY <1>1, <1>2, <1>3 DEF ValidPolicy

\* The sub-policies of a policy without errors to report and without upper bounds.
LEMMA SubsSteady ==
  ASSUME NEW e, ValidPolicy(e), ~Reports(e), ~Bounded(e)
  PROVE  /\ ValidShared(e) => Steady(e)
         /\ e.type \in {"and", "drop"} => \A i \in 1 .. Len(e.subs) : Steady(e.subs[i])
         /\ e.type = "not" => Steady(e.sub)
BY DEF Reports, Bounded, Steady

\* Traces with the same spans get the same decision of a policy.
LEMMA PolicySame ==
  ASSUME NEW e, ValidPolicy(e), ~Reports(e), ~Bounded(e),
         NEW td \in Seq(Arrivals), NEW ud \in Seq(Arrivals), Covers(ud, td), Covers(td, ud),
         Started(td), Started(ud)
  PROVE  EvaluatePolicy(e, td) = EvaluatePolicy(e, ud)
<1>1. CASE ValidShared(e)
  <2>1. /\ EvaluatePolicy(e, td) = EvaluateShared(e, td)
        /\ EvaluatePolicy(e, ud) = EvaluateShared(e, ud)
    BY <1>1, PolicyIs, SharedNotCompound DEF ValidShared
  <2> QED BY <1>1, <2>1, SharedSame, SubsSteady
<1>2. CASE /\ e.type \in {"and", "drop"} /\ Len(e.subs) \in Nat
           /\ \A i \in 1 .. Len(e.subs) : ValidShared(e.subs[i])
  <2>1. \A i \in 1 .. Len(e.subs) : EvaluateShared(e.subs[i], td) = EvaluateShared(e.subs[i], ud)
    BY <1>2, SharedSame, SubsSteady
  <2>2. [i \in 1 .. Len(e.subs) |-> EvaluateShared(e.subs[i], td)]
          = [i \in 1 .. Len(e.subs) |-> EvaluateShared(e.subs[i], ud)]
    BY <2>1
  <2>3. allSubsMatch(e.subs, td) = allSubsMatch(e.subs, ud)
    BY <2>2 DEF allSubsMatch
  <2> QED BY <1>2, <2>3, PolicyIs DEF andPolicy, dropPolicy
<1>3. CASE e.type = "not" /\ ValidShared(e.sub)
  <2>1. EvaluateShared(e.sub, td) = EvaluateShared(e.sub, ud)
    BY <1>3, SharedSame, SubsSteady
  <2> QED BY <1>3, <2>1, PolicyIs DEF notPolicy
<1> QED BY <1>1, <1>2, <1>3 DEF ValidPolicy

\* A policy that keeps a trace keeps one with more spans.
LEMMA PolicyGrows ==
  ASSUME NEW e, ValidPolicy(e), ~Halts(e), e.type # "not",
         NEW td \in Seq(Arrivals), NEW ud \in Seq(Arrivals), Covers(ud, td),
         \A f : SlowToo(f, ud, td), EvaluatePolicy(e, td) \in Keep
  PROVE  EvaluatePolicy(e, ud) \in Keep
<1>0. ~Reports(e) /\ e.type # "drop"
  BY DEF Halts
<1>1. CASE ValidShared(e)
  <2>1. /\ EvaluatePolicy(e, td) = EvaluateShared(e, td)
        /\ EvaluatePolicy(e, ud) = EvaluateShared(e, ud)
    BY <1>1, PolicyIs, SharedNotCompound DEF ValidShared
  <2>2. ~(e.type = "ottl_condition" /\ e.mode = "propagate")
    BY <1>0 DEF Reports
  <2> QED BY <1>1, <2>1, <2>2, SharedGrows
<1>2. CASE /\ e.type = "and" /\ Len(e.subs) \in Nat
           /\ \A i \in 1 .. Len(e.subs) : ValidShared(e.subs[i])
  <2>1. allSubsMatch(e.subs, td) = "match"
    BY <1>2, AllMatch, PolicyIs DEF andPolicy, Keep
  <2>2. \A i \in 1 .. Len(e.subs) : EvaluateShared(e.subs[i], td) \in Keep
    BY <1>2, <2>1, AllMatch
  <2>3. \A i \in 1 .. Len(e.subs) : EvaluateShared(e.subs[i], ud) \in Keep
    <3>1. \A i \in 1 .. Len(e.subs) :
            ~(e.subs[i].type = "ottl_condition" /\ e.subs[i].mode = "propagate")
      BY <1>0, <1>2 DEF Reports
    <3> QED BY <1>2, <2>2, <3>1, SharedGrows
  <2>4. allSubsMatch(e.subs, ud) = "match"
    BY <1>2, <2>3, AllMatch
  <2> QED BY <1>2, <2>4, PolicyIs DEF andPolicy, Keep
<1> QED BY <1>0, <1>1, <1>2 DEF ValidPolicy

-----------------------------------------------------------------------------
(* Build and the chain.                                                    *)

\* What buildShared accepts is an evaluator of a shared type.
LEMMA BuildShared ==
  ASSUME NEW cfg, SharedConfig(cfg), buildShared(cfg) # Invalid
  PROVE  ValidShared(buildShared(cfg)) /\ cfg.type \in SharedTypes
<1> USE DEF SharedTypes, LocalTypes, WitnessTypes, ValidShared
<1>1. CASE cfg.type \in {"always_sample", "trace_flags", "boolean_attribute"}
  BY <1>1 DEF buildShared
<1>2. CASE cfg.type = "latency"
  <2>1. buildShared(cfg) = NewLatency(cfg)
    BY <1>2 DEF buildShared
  <2> QED BY <1>2, <2>1 DEF NewLatency, SharedConfig
<1>3. CASE cfg.type = "status_code"
  <2>1. buildShared(cfg) = NewStatusCodeFilter(cfg)
    BY <1>3 DEF buildShared
  <2> QED BY <1>3, <2>1 DEF NewStatusCodeFilter
<1>4. CASE cfg.type = "string_attribute"
  <2>1. buildShared(cfg) = NewStringAttributeFilter(cfg)
    BY <1>4 DEF buildShared
  <2>2. cfg \in [type : {cfg.type}, key : STRING, values : SUBSET STRING, regex : BOOLEAN]
    BY <1>4 DEF SharedConfig
  <2>3. [cfg EXCEPT !.values = @ \ {""}].type = cfg.type
    BY <2>2
  <2> QED BY <1>4, <2>1, <2>3 DEF NewStringAttributeFilter
<1>5. CASE cfg.type = "numeric_attribute"
  BY <1>5 DEF buildShared, NewNumericAttributeFilter
<1>6. CASE cfg.type = "probabilistic"
  BY <1>6 DEF buildShared, NewProbabilisticSampler
<1>7. CASE cfg.type = "trace_state"
  <2>1. buildShared(cfg) = NewTraceStateFilter(cfg)
    BY <1>7 DEF buildShared
  <2>2. cfg \in [type : {cfg.type}, key : STRING, values : SUBSET STRING]
    BY <1>7 DEF SharedConfig
  <2>3. [cfg EXCEPT !.values = @ \ {""}].type = cfg.type
    BY <2>2
  <2> QED BY <1>7, <2>1, <2>3 DEF NewTraceStateFilter
<1>8. CASE cfg.type = "ottl_condition"
  <2>1. buildShared(cfg) = NewOTTLConditionFilter(cfg)
    BY <1>8 DEF buildShared
  <2> QED BY <1>8, <2>1 DEF NewOTTLConditionFilter
<1>9. CASE cfg.type \notin SharedTypes
  BY <1>9 DEF buildShared
<1> QED BY <1>1, <1>2, <1>3, <1>4, <1>5, <1>6, <1>7, <1>8, <1>9

\* No compound policy nested in another gets through, so a built policy is valid.
LEMMA BuildPolicy ==
  ASSUME NEW cfg, PolicyConfig(cfg), buildPolicy(cfg) # Invalid
  PROVE  ValidPolicy(buildPolicy(cfg))
<1>1. CASE cfg.type \notin {"and", "not", "drop"}
  <2>1. buildPolicy(cfg) = buildShared(cfg)
    BY <1>1 DEF buildPolicy
  <2> QED BY <2>1, BuildShared DEF PolicyConfig, ValidPolicy
<1>2. CASE cfg.type \in {"and", "not", "drop"}
  <2>1. Len(cfg.subs) \in Nat /\ \A i \in 1 .. Len(cfg.subs) : SharedConfig(cfg.subs[i])
    BY <1>2 DEF PolicyConfig
  <2>2. PICK subs : subs = buildSubs(cfg)
    OBVIOUS
  <2>3. /\ Len(subs) = Len(cfg.subs) /\ DOMAIN subs = 1 .. Len(cfg.subs)
        /\ \A i \in 1 .. Len(cfg.subs) : subs[i] = buildShared(cfg.subs[i])
    BY <2>1, <2>2 DEF buildSubs
  <2>4. Invalid \notin ToSet(subs)
    BY <1>2, <2>2 DEF buildPolicy
  <2>5. \A i \in 1 .. Len(subs) : ValidShared(subs[i])
    <3> SUFFICES ASSUME NEW i \in 1 .. Len(subs) PROVE ValidShared(subs[i])
      OBVIOUS
    <3>1. subs[i] # Invalid
      BY <2>3, <2>4 DEF ToSet
    <3> QED BY <2>1, <2>3, <3>1, BuildShared
  <2>6. CASE cfg.type = "not"
    <3>1. buildPolicy(cfg) = [type |-> "not", sub |-> subs[1]]
      BY <2>2, <2>4, <2>6 DEF buildPolicy
    <3>2. ValidShared(subs[1])
      BY <2>3, <2>5, <2>6 DEF PolicyConfig
    <3> QED BY <3>1, <3>2 DEF ValidPolicy
  <2>7. CASE cfg.type \in {"and", "drop"}
    <3>1. buildPolicy(cfg) = [type |-> cfg.type, subs |-> subs]
      BY <2>2, <2>4, <2>7 DEF buildPolicy
    <3>2. buildPolicy(cfg).type = cfg.type /\ buildPolicy(cfg).subs = subs
      BY <3>1
    <3> QED BY <2>1, <2>3, <2>5, <2>7, <3>2 DEF ValidPolicy
  <2> QED BY <1>2, <2>6, <2>7
<1> QED BY <1>1, <1>2

ValidChain(c) == Len(c) \in Nat /\ \A i \in 1 .. Len(c) : ValidPolicy(c[i])

\* What Build accepts is a chain of valid policies.
LEMMA BuildChain ==
  ASSUME NEW policies \in Configs, Build(policies) # NoChain
  PROVE  ValidChain(Build(policies))
<1>1. Len(policies) \in Nat /\ \A i \in 1 .. Len(policies) : PolicyConfig(policies[i])
  BY ConfigAssumption
<1>2. /\ Build(policies) = [i \in 1 .. Len(policies) |-> buildPolicy(policies[i])]
      /\ \A i \in 1 .. Len(policies) : buildPolicy(policies[i]) # Invalid
  <2> DEFINE evs == [i \in 1 .. Len(policies) |-> buildPolicy(policies[i])]
  <2>1. Build(policies) = IF \E i \in 1 .. Len(evs) : evs[i] = Invalid THEN NoChain ELSE evs
    BY DEF Build
  <2>2. Len(evs) = Len(policies) /\ \A i \in 1 .. Len(policies) : evs[i] = buildPolicy(policies[i])
    BY <1>1
  <2> HIDE DEF evs
  <2>3. Build(policies) = evs /\ \A i \in 1 .. Len(policies) : buildPolicy(policies[i]) # Invalid
    BY <2>1, <2>2
  <2> QED BY <2>3 DEF evs
<1>3. Len(Build(policies)) = Len(policies)
  BY <1>1, <1>2
<1>4. \A i \in 1 .. Len(policies) : ValidPolicy(Build(policies)[i])
  BY <1>1, <1>2, BuildPolicy
<1> QED BY <1>1, <1>3, <1>4 DEF ValidChain

Stops == {"Sampled", "SampledLocal", "Dropped", "error"}

\* The result of a chain is that of its first policy that has one.
LEMMA ChainResult ==
  ASSUME NEW c, ValidChain(c), NEW td \in Seq(Arrivals)
  PROVE  \/ /\ ChainEvaluate(c, td) = "NotSampled"
            /\ \A i \in 1 .. Len(c) : EvaluatePolicy(c[i], td) \notin Stops
         \/ \E i \in 1 .. Len(c) :
              /\ ChainEvaluate(c, td) = EvaluatePolicy(c[i], td)
              /\ EvaluatePolicy(c[i], td) \in Stops
              /\ \A j \in 1 .. i - 1 : EvaluatePolicy(c[j], td) \notin Stops
<1> DEFINE r == [i \in 1 .. Len(c) |-> EvaluatePolicy(c[i], td)]
<1>1. ChainEvaluate(c, td) = FirstOf(r, Stops, "NotSampled")
  BY DEF ChainEvaluate, Stops
<1>2. /\ Len(c) \in Nat /\ Len(r) = Len(c)
      /\ \A i \in 1 .. Len(c) : r[i] = EvaluatePolicy(c[i], td)
  BY DEF ValidChain
<1> HIDE DEF r
<1>3. CASE \E i \in 1 .. Len(r) : r[i] \in Stops
  <2>1. PICK i \in 1 .. Len(r) : /\ FirstOf(r, Stops, "NotSampled") = r[i] /\ r[i] \in Stops
                                 /\ \A j \in 1 .. i - 1 : r[j] \notin Stops
    BY <1>2, <1>3, FirstHit
  <2>2. \A j \in 1 .. i - 1 : j \in 1 .. Len(c)
    BY <1>2
  <2> QED BY <1>1, <1>2, <2>1, <2>2
<1>4. CASE \A i \in 1 .. Len(r) : r[i] \notin Stops
  BY <1>1, <1>2, <1>4, NoHit
<1> QED BY <1>3, <1>4


-----------------------------------------------------------------------------
(* The collectors of a fleet.                                              *)

(* The chain is what Build made of the configuration; a batch holds spans   *)
(* of the trace, and none without a chain; a decision is what the chain     *)
(* yields for the batch it was made on.                                     *)
Evaluated(c) ==
  decision[c] # "pending" => /\ chain # NoChain /\ batch[c] # <<>>
                             /\ decision[c] = ChainEvaluate(chain, batch[c])

EvalInv ==
  /\ config \in Configs /\ chain = Build(config)
  /\ batch \in [Collectors -> Seq(Arrivals)]
  /\ DOMAIN decision = Collectors
  /\ chain = NoChain => \A c \in Collectors : batch[c] = <<>>
  /\ \A c \in Collectors : Evaluated(c)

\* Initially the chain is what Build makes of the configuration, and nothing has arrived.
LEMMA EvalInit == Init => EvalInv
BY DEF Init, EvalInv, Evaluated

\* A batch does not change once it is decided on, and a decision is made once.
LEMMA EvalNext == EvalInv /\ [Next]_vars => EvalInv'
<1> SUFFICES ASSUME EvalInv, [Next]_vars PROVE EvalInv'
  OBVIOUS
<1> USE DEF EvalInv
<1>1. ASSUME NEW c \in Collectors, NEW rs \in Arrivals, Arrive(c, rs) PROVE EvalInv'
  <2>1. /\ batch' = [batch EXCEPT ![c] = Append(@, rs)] /\ chain # NoChain
        /\ decision[c] = "pending" /\ UNCHANGED <<config, chain, decision>>
    BY <1>1 DEF Arrive
  <2>2. batch' \in [Collectors -> Seq(Arrivals)]
    BY <2>1
  <2>3. \A d \in Collectors : Evaluated(d)'
    BY <2>1 DEF Evaluated
  <2> QED BY <2>1, <2>2, <2>3
<1>2. ASSUME NEW c \in Collectors, Evaluate(c) PROVE EvalInv'
  <2>1. /\ decision' = [decision EXCEPT ![c] = ChainEvaluate(chain, batch[c])]
        /\ batch[c] # <<>> /\ UNCHANGED <<config, chain, batch>>
    BY <1>2 DEF Evaluate
  <2>2. \A d \in Collectors : Evaluated(d)'
    BY <2>1 DEF Evaluated
  <2>3. DOMAIN decision' = Collectors
    BY <2>1
  <2> QED BY <2>1, <2>2, <2>3
<1>3. CASE UNCHANGED vars
  BY <1>3 DEF vars, Evaluated
<1> QED BY <1>1, <1>2, <1>3 DEF Next

\* The inductive invariant holds in every reachable state.
LEMMA EvalInvariant == Spec => []EvalInv
BY EvalInit, EvalNext, PTL DEF Spec

\* With a chain there is at least what Build guarantees; a decision is made on
\* a batch of the trace.
LEMMA Facts ==
  ASSUME EvalInv, chain # NoChain
  PROVE  /\ ValidChain(chain)
         /\ Policies = {chain[i] : i \in 1 .. Len(chain)}
         /\ \A c \in Collectors : batch[c] \in Seq(Arrivals)
BY BuildChain DEF EvalInv, Policies

(* Whatever the policies are, a decision is one of the four of evaluator.go *)
(* or an error, and an error means that an OTTL policy in propagate mode is *)
(* configured: Chain.Evaluate and the compound policies make up no other.   *)
THEOREM DecisionsAreExplained == Spec => []DecisionOK
<1>1. EvalInv => DecisionOK
  <2> SUFFICES ASSUME EvalInv, NEW c \in Collectors, decision[c] # "pending"
               PROVE  /\ decision[c] \in Decisions \union {"pending", "error"}
                      /\ decision[c] = "error" => \E e \in Policies : Reports(e)
    BY DEF DecisionOK
  <2>1. chain # NoChain /\ decision[c] = ChainEvaluate(chain, batch[c])
    BY DEF EvalInv, Evaluated
  <2>2. ValidChain(chain) /\ batch[c] \in Seq(Arrivals)
        /\ Policies = {chain[i] : i \in 1 .. Len(chain)}
    BY <2>1, Facts
  <2>3. CASE decision[c] = "NotSampled"
    BY <2>3 DEF Decisions
  <2>4. CASE \E i \in 1 .. Len(chain) : /\ decision[c] = EvaluatePolicy(chain[i], batch[c])
                                        /\ decision[c] \in Stops
    <3>1. PICK i \in 1 .. Len(chain) : /\ decision[c] = EvaluatePolicy(chain[i], batch[c])
                                       /\ decision[c] \in Stops
      BY <2>4
    <3>2. decision[c] = "error" => Reports(chain[i])
      BY <2>2, <3>1, PolicyResult DEF ValidChain
    <3> QED BY <2>2, <3>1, <3>2 DEF Decisions, Stops
  <2> QED BY <2>1, <2>2, <2>3, <2>4, ChainResult
<1> QED BY <1>1, EvalInvariant, PTL


\* A policy that decides without looking at the spans decides the same on
\* every part of the trace: always_sample, and the hash of the one trace ID.
LEMMA LocalSame ==
  ASSUME NEW e, ValidPolicy(e), e.type \in LocalTypes,
         NEW td \in Seq(Arrivals), NEW ud \in Seq(Arrivals), td # <<>>, ud # <<>>
  PROVE  EvaluatePolicy(e, td) = EvaluatePolicy(e, ud)
<1>1. /\ EvaluatePolicy(e, td) = EvaluateShared(e, td)
      /\ EvaluatePolicy(e, ud) = EvaluateShared(e, ud)
  BY PolicyIs DEF LocalTypes
<1>2. CASE e.type = "always_sample"
  BY <1>1, <1>2, SharedIs
<1>3. CASE e.type = "probabilistic"
  <2>1. /\ EvaluateShared(e, td) = probabilistic(e, td)
        /\ EvaluateShared(e, ud) = probabilistic(e, ud)
    BY <1>3, SharedIs
  <2>2. td[1].spans # <<>> /\ ud[1].spans # <<>> /\ td[1].spans[1].tid = ud[1].spans[1].tid
    BY FirstSpan, ArrivalAssumption
  <2> QED BY <1>1, <2>1, <2>2 DEF probabilistic
<1> QED BY <1>2, <1>3 DEF LocalTypes

\* Where no policy can end the chain early, one that keeps is enough.
LEMMA OneKeeps ==
  ASSUME NEW c, ValidChain(c), NEW td \in Seq(Arrivals),
         \A i \in 1 .. Len(c) : ~Halts(c[i]),
         \E i \in 1 .. Len(c) : EvaluatePolicy(c[i], td) \in Keep
  PROVE  ChainEvaluate(c, td) \in Keep
<1>1. PICK i \in 1 .. Len(c) : /\ ChainEvaluate(c, td) = EvaluatePolicy(c[i], td)
                               /\ EvaluatePolicy(c[i], td) \in Stops
  BY ChainResult DEF Keep, Stops
<1>2. EvaluatePolicy(c[i], td) # "Dropped" /\ EvaluatePolicy(c[i], td) # "error"
  BY PolicyResult DEF ValidChain, Halts
<1> QED BY <1>1, <1>2 DEF Keep, Stops

(* A collector that keeps its spans and tells nobody is right that the      *)
(* others keep theirs: however the trace is divided among the collectors,   *)
(* the policy that said SampledLocal says so everywhere, and no policy      *)
(* before it ends the chain with anything but a keep.                       *)
THEOREM LocalIsUniform == Spec => []LocalUniform
<1>1. EvalInv => LocalUniform
  <2> SUFFICES ASSUME EvalInv, \A e \in Policies : ~Halts(e),
                      NEW c \in Collectors, NEW d \in Collectors,
                      decision[c] = "SampledLocal", decision[d] # "pending"
               PROVE  decision[d] \in Keep
    BY DEF LocalUniform
  <2>1. /\ chain # NoChain /\ batch[c] # <<>> /\ batch[d] # <<>>
        /\ decision[c] = ChainEvaluate(chain, batch[c])
        /\ decision[d] = ChainEvaluate(chain, batch[d])
    BY DEF EvalInv, Evaluated
  <2>2. /\ ValidChain(chain) /\ batch[c] \in Seq(Arrivals) /\ batch[d] \in Seq(Arrivals)
        /\ \A i \in 1 .. Len(chain) : ~Halts(chain[i])
    BY <2>1, Facts
  <2>3. PICK i \in 1 .. Len(chain) : EvaluatePolicy(chain[i], batch[c]) = "SampledLocal"
    BY <2>1, <2>2, ChainResult
  <2>4. ValidPolicy(chain[i])
    BY <2>2 DEF ValidChain
  <2>5. EvaluatePolicy(chain[i], batch[d]) = "SampledLocal"
    BY <2>1, <2>2, <2>3, <2>4, PolicyResult, LocalSame
  <2> QED BY <2>1, <2>2, <2>5, OneKeeps DEF Keep
<1> QED BY <1>1, EvalInvariant, PTL

\* A batch with every ResourceSpans of another has its spans and resources.
LEMMA Within ==
  ASSUME NEW td \in Seq(Arrivals), NEW ud \in Seq(Arrivals),
         \A i \in 1 .. Len(td) : \E k \in 1 .. Len(ud) : td[i] = ud[k]
  PROVE  Covers(ud, td)
<1>1. ASSUME NEW s \in Spans(td) PROVE s \in Spans(ud)
  <2>1. PICK i \in 1 .. Len(td) : s \in ToSet(td[i].spans)
    BY BatchSpans
  <2>2. PICK k \in 1 .. Len(ud) : td[i] = ud[k]
    OBVIOUS
  <2> QED BY <2>1, <2>2, BatchSpans
<1>2. ASSUME NEW a \in Resources(td) PROVE a \in Resources(ud)
  <2>1. PICK i \in 1 .. Len(td) : a = td[i].attrs
    BY DEF Resources
  <2>2. PICK k \in 1 .. Len(ud) : td[i] = ud[k]
    OBVIOUS
  <2> QED BY <2>1, <2>2 DEF Resources
<1> QED BY <1>1, <1>2 DEF Covers

\* Spans that join a batch leave those it has.
LEMMA AppendCovers ==
  ASSUME NEW td \in Seq(Arrivals), NEW rs \in Arrivals
  PROVE  Append(td, rs) \in Seq(Arrivals) /\ Covers(Append(td, rs), td)
<1>1. /\ Append(td, rs) \in Seq(Arrivals) /\ Len(Append(td, rs)) = Len(td) + 1
      /\ Len(td) \in Nat /\ \A i \in 1 .. Len(td) : Append(td, rs)[i] = td[i]
  OBVIOUS
<1>2. \A i \in 1 .. Len(td) : i \in 1 .. Len(Append(td, rs)) /\ td[i] = Append(td, rs)[i]
  BY <1>1
<1> QED BY <1>1, <1>2, Within

(* A processor may decide on the part of a trace that it has: with policies *)
(* that look for a witness, spans that arrive later never turn a keep into  *)
(* something else.                                                          *)
THEOREM KeepsStayKept == Spec => KeepMonotone
<1> DEFINE A == (\A e \in Policies : ~Halts(e) /\ e.type # "not") =>
                  \A c \in Collectors :
                    chain # NoChain /\ ChainEvaluate(chain, batch[c]) \in Keep
                      => ChainEvaluate(chain, batch'[c]) \in Keep
<1>1. EvalInv /\ [Next]_vars => [A]_vars
  <2> SUFFICES ASSUME EvalInv, [Next]_vars,
                      \A e \in Policies : ~Halts(e) /\ e.type # "not",
                      NEW c \in Collectors, chain # NoChain,
                      ChainEvaluate(chain, batch[c]) \in Keep
               PROVE  ChainEvaluate(chain, batch'[c]) \in Keep
    OBVIOUS
  <2>1. /\ ValidChain(chain) /\ batch[c] \in Seq(Arrivals)
        /\ \A i \in 1 .. Len(chain) : ~Halts(chain[i]) /\ chain[i].type # "not"
    BY Facts
  <2>2. /\ batch'[c] \in Seq(Arrivals) /\ Covers(batch'[c], batch[c])
        /\ \A f : SlowToo(f, batch'[c], batch[c])
    <3>1. batch'[c] = batch[c] \/ \E rs \in Arrivals : batch'[c] = Append(batch[c], rs)
      BY DEF Next, vars, Arrive, Evaluate, EvalInv
    <3>2. Covers(batch[c], batch[c]) /\ \A f : SlowToo(f, batch[c], batch[c])
      BY DEF Covers, SlowToo
    <3>3. \A rs \in Arrivals : \A f : SlowToo(f, Append(batch[c], rs), batch[c])
      BY <2>1, LatencyAppend DEF SlowToo
    <3> QED BY <2>1, <3>1, <3>2, <3>3, AppendCovers
  <2>3. PICK i \in 1 .. Len(chain) : EvaluatePolicy(chain[i], batch[c]) \in Keep
    BY <2>1, ChainResult DEF Keep
  <2>4. ValidPolicy(chain[i])
    BY <2>1 DEF ValidChain
  <2>5. EvaluatePolicy(chain[i], batch'[c]) \in Keep
    BY <2>1, <2>2, <2>3, <2>4, PolicyGrows
  <2> QED BY <2>1, <2>2, <2>5, OneKeeps
<1>2. Spec => [][A]_vars
  BY <1>1, EvalInit, EvalNext, PTL DEF Spec
<1> QED BY <1>2 DEF KeepMonotone

\* The same spans in another order.
LEMMA Reordered ==
  ASSUME NEW td \in Seq(Arrivals), NEW p \in Bijection(1 .. Len(td), 1 .. Len(td)),
         NEW ud, ud = [i \in 1 .. Len(td) |-> td[p[i]]]
  PROVE  ud \in Seq(Arrivals) /\ Covers(ud, td) /\ Covers(td, ud)
<1>1. /\ p \in [1 .. Len(td) -> 1 .. Len(td)]
      /\ \A k \in 1 .. Len(td) : \E i \in 1 .. Len(td) : p[i] = k
  BY DEF Bijection, Injection, Surjection
<1>2. ud \in [1 .. Len(td) -> Arrivals] /\ Len(td) \in Nat
  <2>1. \A k \in 1 .. Len(td) : td[k] \in Arrivals
    OBVIOUS
  <2> QED BY <1>1, <2>1
<1>3. ud \in Seq(Arrivals) /\ Len(ud) = Len(td)
  BY <1>2
<1>4. \A i \in 1 .. Len(ud) : ud[i] = td[p[i]] /\ p[i] \in 1 .. Len(td)
  BY <1>1, <1>3
<1>5. \A k \in 1 .. Len(td) : \E i \in 1 .. Len(ud) : td[k] = ud[i]
  <2> SUFFICES ASSUME NEW k \in 1 .. Len(td) PROVE \E i \in 1 .. Len(ud) : td[k] = ud[i]
    OBVIOUS
  <2>1. PICK i \in 1 .. Len(td) : p[i] = k
    BY <1>1
  <2> QED BY <1>3, <1>4, <2>1
<1>6. \A i \in 1 .. Len(ud) : \E k \in 1 .. Len(td) : ud[i] = td[k]
  BY <1>4
<1> QED BY <1>3, <1>5, <1>6, Within

(* groupByTrace and the senders choose the order of the spans in a batch,   *)
(* and the decision does not depend on it: every policy but latency with an *)
(* upper bound, and every error mode but propagate, answers for the set of  *)
(* spans and resources.                                                     *)
THEOREM OrderDoesNotMatter == Spec => []OrderIndependent
<1>1. EvalInv => OrderIndependent
  <2> SUFFICES ASSUME EvalInv, \A e \in Policies : ~Reports(e) /\ ~Bounded(e),
                      NEW c \in Collectors, decision[c] # "pending", Started(batch[c]),
                      NEW p \in Bijection(1 .. Len(batch[c]), 1 .. Len(batch[c]))
               PROVE  ChainEvaluate(chain, [i \in 1 .. Len(batch[c]) |-> batch[c][p[i]]]) = decision[c]
    BY DEF OrderIndependent
  <2>1. chain # NoChain /\ decision[c] = ChainEvaluate(chain, batch[c])
    BY DEF EvalInv, Evaluated
  <2>2. /\ ValidChain(chain) /\ batch[c] \in Seq(Arrivals)
        /\ \A i \in 1 .. Len(chain) : ~Reports(chain[i]) /\ ~Bounded(chain[i])
    BY <2>1, Facts
  <2>3. PICK ud : ud = [i \in 1 .. Len(batch[c]) |-> batch[c][p[i]]]
    OBVIOUS
  <2>4. ud \in Seq(Arrivals) /\ Covers(ud, batch[c]) /\ Covers(batch[c], ud)
    BY <2>2, <2>3, Reordered
  <2>5. \A i \in 1 .. Len(chain) : EvaluatePolicy(chain[i], ud) = EvaluatePolicy(chain[i], batch[c])
    <3>1. Started(ud)
      BY <2>2, <2>4, StartedSpans DEF Covers
    <3> QED BY <2>2, <2>4, <3>1, PolicySame DEF ValidChain
  <2>6. ChainEvaluate(chain, ud) = ChainEvaluate(chain, batch[c])
    BY <2>5 DEF ChainEvaluate
  <2> QED BY <2>1, <2>3, <2>6
<1> QED BY <1>1, EvalInvariant, PTL

\* The latest end and the earliest start of a batch are those of two spans.
LEMMA DurationPair ==
  ASSUME NEW td \in Seq(Arrivals), td # <<>>, Started(td)
  PROVE  \E s, t \in Spans(td) :
           /\ Duration(td) = Milliseconds(t.end - s.start)
           /\ \A u, v \in Spans(td) : v.end - u.start <= t.end - s.start
<1> DEFINE spans  == SpanSeq(td)
           starts == {spans[i].start : i \in 1 .. Len(spans)}
           ends   == {spans[i].end : i \in 1 .. Len(spans)}
           n      == Len(spans)
<1>1. spans \in Seq(Trace)
  BY BatchSpans
<1>2. n \in Nat /\ n # 0
  <2>1. Spans(td) # {}
    BY FirstSpan
  <2>2. \E j \in 1 .. Len(spans) : TRUE
    BY <1>1, <2>1, Members DEF Spans
  <2> QED BY <1>1, <2>2
<1>3. n \in 1 .. Len(spans)
  BY <1>2
<1>4. \A i \in 1 .. n : /\ spans[i] \in Trace /\ spans[i].start \in Int /\ spans[i].end \in Int
                        /\ spans[i] \in Spans(td)
  BY <1>1, Members, ArrivalAssumption DEF Spans
<1>5. PICK i \in 1 .. n, j \in 1 .. n :
        \A k \in 1 .. n : spans[i].start <= spans[k].start /\ spans[k].end <= spans[j].end
  BY <1>1, <1>3, WindowRange DEF Started
<1> HIDE DEF spans, n
<1>6. Min(starts) = spans[i].start
  <2>1. /\ spans[i].start \in starts /\ starts \subseteq Int
        /\ \A x \in starts : spans[i].start <= x
    BY <1>4, <1>5 DEF n
  <2> HIDE DEF starts
  <2> QED BY <2>1, LeastIs
<1>7. Max(ends) = spans[j].end
  <2>1. /\ spans[j].end \in ends /\ ends \subseteq Int
        /\ \A x \in ends : x <= spans[j].end
    BY <1>4, <1>5 DEF n
  <2> HIDE DEF ends
  <2> QED BY <2>1, GreatestIs
<1>8. Duration(td) = Milliseconds(spans[j].end - spans[i].start)
  BY <1>6, <1>7 DEF Duration, spans
<1>9. \A u, v \in Spans(td) : v.end - u.start <= spans[j].end - spans[i].start
  <2> SUFFICES ASSUME NEW u \in Spans(td), NEW v \in Spans(td)
               PROVE  v.end - u.start <= spans[j].end - spans[i].start
    OBVIOUS
  <2>1. PICK k \in 1 .. n, l \in 1 .. n : u = spans[k] /\ v = spans[l]
    BY <1>1, Members DEF Spans, spans, n
  <2> QED BY <1>4, <1>5, <2>1
<1> QED BY <1>4, <1>8, <1>9

(* Latency without an upper bound means the duration of the trace as far as *)
(* the collector has it, although latency keeps a running window and stops  *)
(* at the first span after which the window is long enough.                 *)
THEOREM LatencyMeansDuration == Spec => []LatencyIsDuration
<1>1. EvalInv => LatencyIsDuration
  <2> SUFFICES ASSUME EvalInv, NEW c \in Collectors, Decided(c, "latency"), chain[1].upper = 0,
                      Started(batch[c])
               PROVE  decision[c] = "Sampled" <=> Duration(batch[c]) >= chain[1].threshold
    BY DEF LatencyIsDuration
  <2> DEFINE e == chain[1]
             td == batch[c]
  <2>1. /\ chain # NoChain /\ td # <<>> /\ decision[c] = ChainEvaluate(chain, td)
        /\ Len(chain) = 1 /\ e.type = "latency"
    BY DEF EvalInv, Evaluated, Decided
  <2>2. ValidChain(chain) /\ td \in Seq(Arrivals) /\ ValidPolicy(e)
    BY <2>1, Facts DEF ValidChain
  <2>3. e.threshold \in Int
    BY <2>1, <2>2 DEF ValidPolicy, ValidShared
  <2>4. EvaluatePolicy(e, td) = latency(e, td)
    BY <2>1, PolicyIs, SharedIs
  <2>5. latency(e, td) = IF \E s, t \in Spans(td) : Milliseconds(t.end - s.start) >= e.threshold
                           THEN "Sampled" ELSE "NotSampled"
    BY <2>2, <2>3, LatencyPair
  <2>6. decision[c] = "Sampled" <=> latency(e, td) = "Sampled"
    BY <2>1, <2>2, <2>4, <2>5, ChainResult DEF Stops
  <2>7. PICK s \in Spans(td), t \in Spans(td) :
          /\ Duration(td) = Milliseconds(t.end - s.start)
          /\ \A u, v \in Spans(td) : v.end - u.start <= t.end - s.start
    BY <2>1, <2>2, DurationPair
  <2>8. \A u \in Spans(td) : u.start \in Int /\ u.end \in Int
    BY <2>2, SpansOfTrace, ArrivalAssumption
  <2>9. \A u, v \in Spans(td) :
          /\ Milliseconds(v.end - u.start) \in Int /\ Duration(td) \in Int
          /\ Milliseconds(v.end - u.start) <= Duration(td)
    BY <2>7, <2>8, MillisecondsMonotone
  <2> HIDE DEF e, td
  <2>10. latency(e, td) = "Sampled" <=> Duration(td) >= e.threshold
    BY <2>3, <2>5, <2>7, <2>9
  <2> QED BY <2>6, <2>10 DEF e, td
<1> QED BY <1>1, EvalInvariant, PTL
=============================================================================
