----------------------------- MODULE MCEvaluator ----------------------------
(* Evaluator on small configurations and batches for TLC.                  *)
EXTENDS Evaluator

CONSTANT none     \* the value of Unset: a key left out

MinInt == -9
MCHash(seed, tid) == 16384 + 8192            \* bucket 8192 of 16384
MCRegexMatch(r, s) == r = ".*" \/ r = s

\* One span of the trace that no policy below matches.
Plain == [tid |-> "t1", start |-> 10, end |-> 20, status |-> "UNSET", attrs |-> <<>>,
          tracestate |-> <<>>, flags |-> 0, ottl |-> "no", events |-> <<"no">>]
RS(attrs, spans) == [attrs |-> attrs, spans |-> spans]
Val(kind, val)   == [kind |-> kind, val |-> val]

AllArrivals == {
  RS(<<>>, <<Plain>>),
  RS([env |-> Val("str", "prod")], <<[Plain EXCEPT !.start = 30, !.end = 40]>>),
  RS([env |-> Val("int", 3)],
     <<[Plain EXCEPT !.status = "ERROR", !.ottl = "error"],
       [Plain EXCEPT !.start = 5, !.flags = 3, !.events = <<"no", "yes">>]>>),
  RS(<<>>, <<[Plain EXCEPT !.start = 0, !.end = 10]>>),
  RS(<<>>, <<[Plain EXCEPT !.attrs = [env |-> Val("bool", TRUE)],
                           !.tracestate = [ot |-> "on"], !.end = 45]>>)}

Shared == {
  [type |-> "always_sample"],
  [type |-> "latency", threshold |-> 2, upper |-> none],
  [type |-> "latency", threshold |-> 1, upper |-> 2],
  [type |-> "status_code", codes |-> {"ERROR"}],
  [type |-> "status_code", codes |-> {}],
  [type |-> "string_attribute", key |-> "env", values |-> {"prod", ""}, regex |-> FALSE],
  [type |-> "string_attribute", key |-> "env", values |-> {".*"}, regex |-> TRUE],
  [type |-> "string_attribute", key |-> "env", values |-> {"("}, regex |-> TRUE],
  [type |-> "numeric_attribute", key |-> "env", min |-> 1, max |-> none],
  [type |-> "boolean_attribute", key |-> "env", value |-> TRUE],
  [type |-> "probabilistic", seed |-> 0, percentage |-> 50],
  [type |-> "probabilistic", seed |-> 0, percentage |-> 51],
  [type |-> "trace_state", key |-> "ot", values |-> {"on"}],
  [type |-> "trace_flags"],
  [type |-> "ottl_condition", onSpan |-> TRUE, onEvent |-> TRUE, mode |-> "propagate"],
  [type |-> "ottl_condition", onSpan |-> TRUE, onEvent |-> TRUE, mode |-> "ignore"],
  [type |-> "ottl_condition", onSpan |-> FALSE, onEvent |-> FALSE, mode |-> "ignore"],
  [type |-> "span_count"]}

Error     == [type |-> "status_code", codes |-> {"ERROR"}]
Slow      == [type |-> "latency", threshold |-> 2, upper |-> none]
IsProd    == [type |-> "string_attribute", key |-> "env", values |-> {"prod"}, regex |-> FALSE]
Always    == [type |-> "always_sample"]
Half      == [type |-> "probabilistic", seed |-> 0, percentage |-> 51]
Ottl      == [type |-> "ottl_condition", onSpan |-> TRUE, onEvent |-> FALSE, mode |-> "ignore"]
AndOf(p, q)  == [type |-> "and", subs |-> <<p, q>>]
DropOf(p, q) == [type |-> "drop", subs |-> <<p, q>>]
NotOf(p)     == [type |-> "not", subs |-> <<p>>]

AllConfigs ==
  {<<p>> : p \in Shared} \union {<<NotOf(p)>> : p \in {Error, Slow, Half, Ottl}} \union
  {<<>>,
   <<AndOf(IsProd, Slow)>>, <<AndOf(Always, Half)>>, <<AndOf(DropOf(Error, Error), Error)>>,
   <<DropOf(IsProd, Always), Always>>, <<Error, Half>>, <<NotOf(IsProd), Half>>,
   <<AndOf(Ottl, Slow), Error, Always>>, <<DropOf(Ottl, Slow), NotOf(Error)>>}

DropConfigs    == {<<DropOf(IsProd, Always), Always>>}
=============================================================================
