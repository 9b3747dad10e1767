------------------------------- MODULE Split -------------------------------
(***************************************************************************)
(* groupByTrace (split.go): the spans of a ptrace.Traces, divided by trace *)
(* with their ResourceSpans and ScopeSpans kept.                           *)
(*                                                                         *)
(* A Traces is a sequence of ResourceSpans [res, scopes], scopes a sequence*)
(* of ScopeSpans [scope, spans], spans a sequence of [id, tid].  A         *)
(* resource or scope stands for its attributes and its schema URL.         *)
(***************************************************************************)
EXTENDS Integers, Sequences, SequencesExt

Span(tids)          == [id : Nat, tid : tids]
ScopeSpans(tids)    == [scope : STRING, spans : Seq(Span(tids))]
ResourceSpans(tids) == [res : STRING, scopes : Seq(ScopeSpans(tids))]
Traces(tids)        == Seq(ResourceSpans(tids))

\* The map f with key k set to v.
With(f, k, v) == [x \in DOMAIN f \union {k} |-> IF x = k THEN v ELSE f[x]]

\* The keys of rsMap and ssMap.
RSKey(tid, r) == <<tid, r>>
\* Mutant: the scope is looked up without the resource it belongs to.
SSKeyNoResource(tid, r, s) == <<tid, s>>
SSKey(tid, r, s) == <<tid, r, s>>

(* The ResourceSpans of the span's trace exists: an empty copy is appended  *)
(* to the trace's Traces, itself made on first use, unless rsMap has it.    *)
WithResource(td, st, tid, r) ==
  IF RSKey(tid, r) \in DOMAIN st.rsMap THEN st
  ELSE LET t == IF tid \in DOMAIN st.out THEN st.out[tid] ELSE <<>>
       IN  [st EXCEPT
              !.out = With(@, tid, Append(t, [res |-> td[r].res, scopes |-> <<>>])),
              !.rsMap = With(@, RSKey(tid, r), Len(t) + 1)]

\* Likewise the ScopeSpans; ssMap names it by its place in the group.
WithScope(td, st, tid, r, s) ==
  IF SSKey(tid, r, s) \in DOMAIN st.ssMap THEN st
  ELSE LET rst == WithResource(td, st, tid, r)
           at  == rst.rsMap[RSKey(tid, r)]
           new == [scope |-> td[r].scopes[s].scope, spans |-> <<>>]
       IN  [rst EXCEPT
              !.out[tid][at].scopes = Append(@, new),
              !.ssMap = With(@, SSKey(tid, r, s), <<at, Len(rst.out[tid][at].scopes) + 1>>)]

\* The body of the innermost loop.
AddSpan(td, st, r, s, span) ==
  LET tid == span.tid
      sst == WithScope(td, st, tid, r, s)
      at  == sst.ssMap[SSKey(tid, r, s)]
  IN  [sst EXCEPT !.out[tid][at[1]].scopes[at[2]].spans = Append(@, span)]

\* The loops over the spans of a ScopeSpans, the ScopeSpans of a ResourceSpans
\* and the ResourceSpans.
SpanLoop(td, st, r, s) ==
  LET spans == td[r].scopes[s].spans
      after[k \in 0 .. Len(spans)] ==
        IF k = 0 THEN st ELSE AddSpan(td, after[k - 1], r, s, spans[k])
  IN  after[Len(spans)]

ScopeLoop(td, st, r) ==
  LET after[s \in 0 .. Len(td[r].scopes)] ==
        IF s = 0 THEN st ELSE SpanLoop(td, after[s - 1], r, s)
  IN  after[Len(td[r].scopes)]

NoGroups == [out |-> <<>>, rsMap |-> <<>>, ssMap |-> <<>>]

GroupByTrace(td) ==
  LET after[r \in 0 .. Len(td)] ==
        IF r = 0 THEN NoGroups ELSE ScopeLoop(td, after[r - 1], r)
  IN  after[Len(td)].out
-----------------------------------------------------------------------------
(* What groupByTrace should return for trace t: td with the spans of other  *)
(* traces, and what that leaves empty, taken out.                           *)
KeptSpans(spans, t) ==
  FlattenSeq([k \in 1 .. Len(spans) |-> IF spans[k].tid = t THEN <<spans[k]>> ELSE <<>>])

KeptScope(ss, t) ==
  LET spans == KeptSpans(ss.spans, t)
  IN  IF spans = <<>> THEN <<>> ELSE <<[ss EXCEPT !.spans = spans]>>

KeptScopes(scopes, t) == FlattenSeq([s \in 1 .. Len(scopes) |-> KeptScope(scopes[s], t)])

KeptResource(rs, t) ==
  LET scopes == KeptScopes(rs.scopes, t)
  IN  IF scopes = <<>> THEN <<>> ELSE <<[rs EXCEPT !.scopes = scopes]>>

OfTrace(td, t) == FlattenSeq([r \in 1 .. Len(td) |-> KeptResource(td[r], t)])

TracesOf(td) ==
  {span.tid : span \in UNION {ToSet(ss.spans) : ss \in UNION {ToSet(rs.scopes) : rs \in ToSet(td)}}}
=============================================================================
