----------------------------- MODULE Evaluator -----------------------------
(***************************************************************************)
(* The sampling policies of the retroactive_sampling processor             *)
(* (processor/retroactivesampling/internal/evaluator).                     *)
(*                                                                         *)
(* Build turns the configured policies into a chain; every collector of a  *)
(* fleet runs the same chain, each on the part of a trace that reached it. *)
(* A batch is a sequence of ResourceSpans, each with the attributes of its *)
(* resource and its spans in the order the code visits them (the ScopeSpans*)
(* level only groups spans and is flattened).                              *)
(*                                                                         *)
(* The result of an evaluation is a Decision, or "error" for the pair      *)
(* (NotSampled, err).  An attribute value is a record [kind, val].         *)
(***************************************************************************)
EXTENDS Integers, Sequences, SequencesExt

CONSTANTS
  Collectors,          \* the processors a trace's spans are spread over
  Configs,             \* the policy lists an operator may configure
  Arrivals,            \* the ResourceSpans that may arrive
  MaxArrivals,         \* bound: ResourceSpans per batch
  Hash(_, _),          \* external: fnv32a(seed, trace ID)
  RegexMatch(_, _),    \* external: MatchString of a compiled expression
  ValidRegexes,        \* external: what regexp.Compile accepts
  MinInt64, MaxInt64,  \* the range of int64
  NsPerMs,             \* timestamp units in a millisecond
  Unset                \* a key the operator left out of the configuration

ASSUME EvaluatorAssumption ==
  /\ NsPerMs \in Nat \ {0}
  /\ MinInt64 \in Int /\ MaxInt64 \in Int /\ MinInt64 < 0 /\ 0 < MaxInt64
  /\ MaxArrivals \in Nat

\* The spans of the trace that is evaluated.
Trace == UNION {ToSet(rs.spans) : rs \in Arrivals}

Outcomes == {"yes", "no", "error"}

\* groupByTrace hands over spans of one trace, and no ResourceSpans without one.
ASSUME ArrivalAssumption ==
  /\ \A rs \in Arrivals : rs.spans \in Seq(Trace) /\ rs.spans # <<>>
  /\ \A s \in Trace : /\ s.start \in Nat /\ s.end \in Nat
                      /\ s.ottl \in Outcomes /\ s.events \in Seq(Outcomes)
  /\ \A s, t \in Trace : s.tid = t.tid

\* Decoding fills the structure that belongs to the type of a policy.
SharedConfig(cfg) ==
  /\ cfg.type = "latency" =>
       cfg \in [type : {cfg.type}, threshold : Int, upper : Int \union {Unset}]
  /\ cfg.type = "string_attribute" =>
       cfg \in [type : {cfg.type}, key : STRING, values : SUBSET STRING, regex : BOOLEAN]
  /\ cfg.type = "trace_state" =>
       cfg \in [type : {cfg.type}, key : STRING, values : SUBSET STRING]

PolicyConfig(cfg) ==
  /\ SharedConfig(cfg)
  /\ cfg.type \in {"and", "not", "drop"} =>
       Len(cfg.subs) \in Nat /\ \A i \in 1 .. Len(cfg.subs) : SharedConfig(cfg.subs[i])
  /\ cfg.type = "not" => Len(cfg.subs) = 1

ASSUME ConfigAssumption ==
  \A policies \in Configs :
    Len(policies) \in Nat /\ \A i \in 1 .. Len(policies) : PolicyConfig(policies[i])

VARIABLES
  config,    \* the configured policies, the same at every collector
  chain,     \* what Build returned: a sequence of evaluators, or NoChain
  batch,     \* by collector: the spans of the trace in its next batch
  decision   \* by collector: the result for its batch, "pending" before it

vars == <<config, chain, batch, decision>>

Decisions   == {"NotSampled", "Sampled", "SampledLocal", "Dropped"}

\* What a builder returns with an error, and what Build then returns.
Invalid   == [type |-> "invalid"]
NoChain   == <<Invalid>>
-----------------------------------------------------------------------------
(* pdata accessors: the zero value stands for a value of another kind.      *)

Int64(v) == IF v.kind = "int"  THEN v.val ELSE 0
Bool(v)  == IF v.kind = "bool" THEN v.val ELSE FALSE
Str(v)   == IF v.kind = "str"  THEN v.val ELSE ""

Has(attrs, key) == key \in DOMAIN attrs

\* The spans of a batch in the order in which the loops visit them.
SpanSeq(td) == FlattenSeq([i \in 1 .. Len(td) |-> td[i].spans])

\* The spans of a batch, and the attributes of its resources.
Spans(td)     == ToSet(SpanSeq(td))
Resources(td) == {td[i].attrs : i \in 1 .. Len(td)}

\* Mutant: every span has to satisfy the condition.
hasOnlySpansWithCondition(td, spans) ==
  IF spans = Spans(td) THEN "Sampled" ELSE "NotSampled"

\* spans are those of the batch for which the callback returns true.
hasSpanWithCondition(td, spans) == IF spans # {} THEN "Sampled" ELSE "NotSampled"

\* Mutant: only the first resource is looked at.
hasFirstResourceOrSpanWithCondition(td, resources, spans) ==
  IF td # <<>> /\ td[1].attrs \in resources THEN "Sampled" ELSE hasSpanWithCondition(td, spans)

\* The same with a callback for resources.
hasResourceOrSpanWithCondition(td, resources, spans) ==
  IF resources # {} THEN "Sampled" ELSE hasSpanWithCondition(td, spans)

\* The first member of results that is in stop, or other.
FirstOf(results, stop, other) ==
  LET hits == {i \in 1 .. Len(results) : results[i] \in stop}
  IN  IF hits = {} THEN other ELSE results[Min(hits)]
-----------------------------------------------------------------------------
(* The policies.                                                            *)

Milliseconds(d) == IF d >= 0 THEN d \div NsPerMs ELSE -((-d) \div NsPerMs)

\* Mutant: the start of the window is not moved back.
WidenKeepsStart(w, s) ==
  IF w.min = 0 THEN [min |-> s.start, max |-> s.end]
  ELSE [w EXCEPT !.max = IF s.end > @ THEN s.end ELSE @]

\* minTime and maxTime after one more span, with 0 as "not set yet".
Widen(w, s) ==
  IF w.min = 0 THEN [min |-> s.start, max |-> s.end]
  ELSE [min |-> IF s.start < w.min THEN s.start ELSE w.min,
        max |-> IF s.end > w.max THEN s.end ELSE w.max]

\* The same after the first n spans, as the closure that latency passes down has it.
Window(spans) ==
  LET w[n \in 0 .. Len(spans)] ==
        IF n = 0 THEN [min |-> 0, max |-> 0] ELSE Widen(w[n - 1], spans[n])
  IN  w

InThreshold(e, ms) ==
  IF e.upper = 0 THEN ms >= e.threshold ELSE e.threshold < ms /\ ms <= e.upper

latency(e, td) ==
  LET spans == SpanSeq(td)
      w     == Window(spans)
  IN  IF \E n \in 1 .. Len(spans) : InThreshold(e, Milliseconds(w[n].max - w[n].min))
        THEN "Sampled" ELSE "NotSampled"

numHashBuckets == 16384

\* The trace ID is read from the batch's first span.
probabilistic(e, td) ==
  IF td # <<>> /\ td[1].spans # <<>>
       /\ Hash(e.seed, td[1].spans[1].tid) % numHashBuckets < e.threshold
    THEN "SampledLocal" ELSE "NotSampled"

statusCode(e, td) == hasSpanWithCondition(td, {s \in Spans(td) : s.status \in e.codes})

\* An LRU cache of earlier answers stands before the expressions.
matcher(e, s) == IF e.regex THEN \E r \in e.values : RegexMatch(r, s) ELSE s \in e.values

stringAttribute(e, td) ==
  hasResourceOrSpanWithCondition(td,
    {a \in Resources(td) : Has(a, e.key) /\ matcher(e, Str(a[e.key]))},
    {s \in Spans(td) : /\ Has(s.attrs, e.key)
                       /\ Str(s.attrs[e.key]) # "" /\ matcher(e, Str(s.attrs[e.key]))})

numericAttribute(e, td) ==
  LET inRange(a) == /\ Has(a, e.key)
                    /\ e.min <= Int64(a[e.key]) /\ Int64(a[e.key]) <= e.max
  IN  hasResourceOrSpanWithCondition(td, {a \in Resources(td) : inRange(a)},
                                         {s \in Spans(td) : inRange(s.attrs)})

booleanAttribute(e, td) ==
  LET same(a) == Has(a, e.key) /\ Bool(a[e.key]) = e.value
  IN  hasResourceOrSpanWithCondition(td, {a \in Resources(td) : same(a)},
                                         {s \in Spans(td) : same(s.attrs)})

\* A trace state that does not parse, or lacks the key, matches nothing.
traceState(e, td) ==
  hasSpanWithCondition(td,
    {s \in Spans(td) : Has(s.tracestate, e.key) /\ s.tracestate[e.key] \in e.values})

traceFlags(td) == hasSpanWithCondition(td, {s \in Spans(td) : s.flags % 2 = 1})

\* Mutant: the error mode is ignored.
EvalPropagates(e, outcome) == outcome

(* What the OTTL conditions yield on a span and on its events is part of    *)
(* the span: "yes", "no" or "error".  Only the propagate mode reports an    *)
(* error; the first answer that is not "no" decides.                        *)
Eval(e, outcome) == IF outcome = "error" /\ e.mode # "propagate" THEN "no" ELSE outcome

ottlCondition(e, td) ==
  LET spans == SpanSeq(td)
      answers(s) == (IF e.onSpan THEN <<s.ottl>> ELSE <<>>)
                      \o (IF e.onEvent THEN s.events ELSE <<>>)
      all == FlattenSeq([i \in 1 .. Len(spans) |-> answers(spans[i])])
      first == FirstOf([i \in 1 .. Len(all) |-> Eval(e, all[i])], {"yes", "error"}, "no")
  IN  CASE first = "yes" -> "Sampled" [] first = "no" -> "NotSampled" [] OTHER -> "error"

\* An evaluator that is not a compound policy.
EvaluateShared(e, td) ==
  CASE e.type = "always_sample"     -> "SampledLocal"
    [] e.type = "latency"           -> latency(e, td)
    [] e.type = "status_code"       -> statusCode(e, td)
    [] e.type = "string_attribute"  -> stringAttribute(e, td)
    [] e.type = "numeric_attribute" -> numericAttribute(e, td)
    [] e.type = "boolean_attribute" -> booleanAttribute(e, td)
    [] e.type = "probabilistic"     -> probabilistic(e, td)
    [] e.type = "trace_state"       -> traceState(e, td)
    [] e.type = "trace_flags"       -> traceFlags(td)
    [] e.type = "ottl_condition"    -> ottlCondition(e, td)

\* allSubsMatch: "match", "NotSampled" or "error"; a nested drop is an error.
allSubsMatch(subs, td) ==
  LET first == FirstOf([i \in 1 .. Len(subs) |-> EvaluateShared(subs[i], td)],
                       {"NotSampled", "Dropped", "error"}, "match")
  IN  IF first = "Dropped" THEN "error" ELSE first

\* Mutant: and hands on the kind of decision its sub-policies made.
andPolicyLocal(e, td) ==
  LET m == allSubsMatch(e.subs, td) IN IF m = "match" THEN "SampledLocal" ELSE m

andPolicy(e, td) ==
  LET m == allSubsMatch(e.subs, td) IN IF m = "match" THEN "Sampled" ELSE m

dropPolicy(e, td) ==
  LET m == allSubsMatch(e.subs, td) IN IF m = "match" THEN "Dropped" ELSE m

notPolicy(e, td) ==
  LET d == EvaluateShared(e.sub, td)
  IN  CASE d \in {"Sampled", "SampledLocal"} -> "NotSampled"
        [] d = "NotSampled"                  -> "Sampled"
        [] OTHER                             -> "error"

EvaluatePolicy(e, td) ==
  CASE e.type = "and"  -> andPolicy(e, td)
    [] e.type = "not"  -> notPolicy(e, td)
    [] e.type = "drop" -> dropPolicy(e, td)
    [] OTHER           -> EvaluateShared(e, td)

\* Chain.Evaluate: the first result other than NotSampled.
ChainEvaluate(c, td) ==
  FirstOf([i \in 1 .. Len(c) |-> EvaluatePolicy(c[i], td)],
          {"Sampled", "SampledLocal", "Dropped", "error"}, "NotSampled")
-----------------------------------------------------------------------------
(* Build.  Decoding gives a key that is not configured its zero value.      *)

Decoded(v) == IF v = Unset THEN 0 ELSE v

NewLatency(cfg) ==
  [type |-> cfg.type, threshold |-> cfg.threshold, upper |-> Decoded(cfg.upper)]

NewStatusCodeFilter(cfg) ==
  IF cfg.codes # {} /\ cfg.codes \subseteq {"OK", "ERROR", "UNSET"} THEN cfg ELSE Invalid

NewStringAttributeFilter(cfg) ==
  IF ~cfg.regex THEN [cfg EXCEPT !.values = @ \ {""}]
  ELSE IF cfg.values \subseteq ValidRegexes THEN cfg ELSE Invalid

\* A bound of 0 is taken for a bound that is not configured.
NewNumericAttributeFilter(cfg) ==
  [type |-> cfg.type, key |-> cfg.key,
   min |-> IF Decoded(cfg.min) = 0 THEN MinInt64 ELSE cfg.min,
   max |-> IF Decoded(cfg.max) = 0 THEN MaxInt64 ELSE cfg.max]

NewProbabilisticSampler(cfg) ==
  [type |-> cfg.type, seed |-> cfg.seed, threshold |-> (cfg.percentage * numHashBuckets) \div 100]

\* Empty values are left out, as are those too long for a trace state, of which
\* the model has none.
NewTraceStateFilter(cfg) == [cfg EXCEPT !.values = @ \ {""}]

NewOTTLConditionFilter(cfg) == IF cfg.onSpan \/ cfg.onEvent THEN cfg ELSE Invalid

buildShared(cfg) ==
  CASE cfg.type \in {"always_sample", "trace_flags", "boolean_attribute"} -> cfg
    [] cfg.type = "latency"           -> NewLatency(cfg)
    [] cfg.type = "status_code"       -> NewStatusCodeFilter(cfg)
    [] cfg.type = "string_attribute"  -> NewStringAttributeFilter(cfg)
    [] cfg.type = "numeric_attribute" -> NewNumericAttributeFilter(cfg)
    [] cfg.type = "probabilistic"     -> NewProbabilisticSampler(cfg)
    [] cfg.type = "trace_state"       -> NewTraceStateFilter(cfg)
    [] cfg.type = "ottl_condition"    -> NewOTTLConditionFilter(cfg)
    [] OTHER                          -> Invalid

\* Sub-policies are shared policies: a compound policy cannot be nested.
buildSubs(cfg) == [i \in 1 .. Len(cfg.subs) |-> buildShared(cfg.subs[i])]

buildPolicy(cfg) ==
  LET subs == buildSubs(cfg)
  IN  IF cfg.type \notin {"and", "not", "drop"} THEN buildShared(cfg)
      ELSE IF Invalid \in ToSet(subs) THEN Invalid
      ELSE IF cfg.type = "not" THEN [type |-> "not", sub |-> subs[1]]
      ELSE [type |-> cfg.type, subs |-> subs]

Build(policies) ==
  LET evs == [i \in 1 .. Len(policies) |-> buildPolicy(policies[i])]
  IN  IF \E i \in 1 .. Len(evs) : evs[i] = Invalid THEN NoChain ELSE evs
-----------------------------------------------------------------------------
(* A fleet with one configuration evaluates the parts of one trace.         *)

Init ==
  /\ config \in Configs
  /\ chain = Build(config)
  /\ batch = [c \in Collectors |-> <<>>]
  /\ decision = [c \in Collectors |-> "pending"]

\* Spans of the trace reach collector c (its processor runs only if Build did).
Arrive(c, rs) ==
  /\ chain # NoChain
  /\ decision[c] = "pending" /\ Len(batch[c]) < MaxArrivals
  /\ batch' = [batch EXCEPT ![c] = Append(@, rs)]
  /\ UNCHANGED <<config, chain, decision>>

\* processTraces evaluates the spans of the trace in its batch.
Evaluate(c) ==
  /\ decision[c] = "pending" /\ batch[c] # <<>>
  /\ decision' = [decision EXCEPT ![c] = ChainEvaluate(chain, batch[c])]
  /\ UNCHANGED <<config, chain, batch>>

Next ==
  \/ \E c \in Collectors, rs \in Arrivals : Arrive(c, rs)
  \/ \E c \in Collectors : Evaluate(c)

Spec == Init /\ [][Next]_vars
-----------------------------------------------------------------------------
(* Properties.                                                              *)

Keep == {"Sampled", "SampledLocal"}

\* Policies whose errors are reported, and policies that may end the chain.
Reports(e) == \/ e.type = "ottl_condition" /\ e.mode = "propagate"
              \/ /\ e.type \in {"and", "drop"}
                 /\ \E i \in 1 .. Len(e.subs) :
                      e.subs[i].type = "ottl_condition" /\ e.subs[i].mode = "propagate"
              \/ e.type = "not" /\ e.sub.type = "ottl_condition" /\ e.sub.mode = "propagate"
Halts(e)   == e.type = "drop" \/ Reports(e)

\* A latency policy with an upper bound, alone or in a compound policy.
Bounded(e) == \/ e.type = "latency" /\ e.upper # 0
              \/ /\ e.type \in {"and", "drop"}
                 /\ \E i \in 1 .. Len(e.subs) :
                      e.subs[i].type = "latency" /\ e.subs[i].upper # 0
              \/ e.type = "not" /\ e.sub.type = "latency" /\ e.sub.upper # 0

Policies == IF chain = NoChain THEN {} ELSE {chain[i] : i \in 1 .. Len(chain)}

(* A decision is one of the four of evaluator.go, or an error; an error is   *)
(* reported only for an OTTL policy in propagate mode, never for a drop      *)
(* nested in a compound policy, because Build accepts no such chain.         *)
DecisionOK ==
  \A c \in Collectors :
    /\ decision[c] \in Decisions \union {"pending", "error"}
    /\ decision[c] = "error" => \E e \in Policies : Reports(e)

\* Every span of the batch has a start: latency takes a start of 0 for "no
\* span seen yet" and begins its window again at the next one.
Started(td) == LET spans == SpanSeq(td) IN \A i \in 1 .. Len(spans) : spans[i].start # 0

(* The order in which spans were put into a batch does not change what is    *)
(* decided, for every chain without an error to report and without a         *)
(* latency policy with an upper bound: groupByTrace and the senders choose   *)
(* the order, the policies do not depend on it. The batch must be Started:   *)
(* spans (0,10) and (50,60) give latency 10 in this order, 60 in the other.  *)
OrderIndependent ==
  (\A e \in Policies : ~Reports(e) /\ ~Bounded(e)) =>
    \A c \in Collectors : decision[c] # "pending" /\ Started(batch[c]) =>
      \A p \in Bijection(1 .. Len(batch[c]), 1 .. Len(batch[c])) :
        ChainEvaluate(chain, [i \in 1 .. Len(batch[c]) |-> batch[c][p[i]]]) = decision[c]

(* "policies that work on partial spans": with the policies that only look   *)
(* for a witness (no not, no drop, no error to report) spans that join a     *)
(* batch at its end never turn a keep into something else, so a processor    *)
(* may decide on the part of a trace that it has. A latency policy is one of *)
(* them, with an upper bound and with spans that have no start too: it       *)
(* answers at the first span at which its window is long enough.             *)
KeepMonotone ==
  [][(\A e \in Policies : ~Halts(e) /\ e.type # "not") =>
       \A c \in Collectors :
         chain # NoChain /\ ChainEvaluate(chain, batch[c]) \in Keep
           => ChainEvaluate(chain, batch'[c]) \in Keep]_vars

(* A collector that keeps spans without telling the coordinator is right     *)
(* that the others do so too: with no policy that can end the chain early,   *)
(* SampledLocal at one collector means that every collector keeps its spans. *)
LocalUniform ==
  (\A e \in Policies : ~Halts(e)) =>
    \A c, d \in Collectors :
      decision[c] = "SampledLocal" /\ decision[d] # "pending" => decision[d] \in Keep

\* The trace's duration as far as a batch shows it: earliest start to latest end.
Duration(td) ==
  LET spans == SpanSeq(td)
      starts == {spans[i].start : i \in 1 .. Len(spans)}
      ends   == {spans[i].end : i \in 1 .. Len(spans)}
  IN  Milliseconds(Max(ends) - Min(starts))

\* Collector c has evaluated a chain of a single policy of type t.
Decided(c, t) == Policies # {} /\ Len(chain) = 1 /\ chain[1].type = t /\ decision[c] # "pending"

(* Latency without an upper bound means the duration of the trace, earliest  *)
(* start to latest end, although the code asks after every span and keeps a  *)
(* running window, as long as every span of the batch has a start.           *)
LatencyIsDuration ==
  \A c \in Collectors :
    Decided(c, "latency") /\ chain[1].upper = 0 /\ Started(batch[c])
      => (decision[c] = "Sampled" <=> Duration(batch[c]) >= chain[1].threshold)
-----------------------------------------------------------------------------
(* What the documentation says and the code does not do.                    *)

(* "skip coordinator; all collectors make the same decision": if one          *)
(* collector keeps its spans on its own, so does every other.                *)
LocalSameEverywhere ==
  \A c, d \in Collectors :
    decision[c] = "SampledLocal" /\ decision[d] # "pending" => decision[d] \in Keep
=============================================================================
