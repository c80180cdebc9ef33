------------------------------ MODULE Rollups ------------------------------
(***************************************************************************)
(* What the two rollup tables hold and what the console reads from them:   *)
(* the aggregations of 012_rollups.sql, recompute_rollups.py and           *)
(* query/repository.py.                                                    *)
(*                                                                         *)
(* A row of spans_raw is a record [tenant, trace, span, version, minute,   *)
(* service, tool, method, category, error, eligible, duration, helper].    *)
(* The stored states of an aggregating table are sums, maxima and samples  *)
(* over the rows that were aggregated into it, so a table is modelled by   *)
(* how many times each row was: a function from rows to Nat.               *)
(***************************************************************************)
EXTENDS Integers, FiniteSets, FiniteSetsExt

CONSTANTS TrustMultiple,   \* CLOCK_TRUST_MULTIPLE
          ZeroPercent      \* CLOCK_ZERO_FRACTION, in percent

SameSpan(q, r) == q.tenant = r.tenant /\ q.trace = r.trace /\ q.span = r.span

\* A mutated form of Newest: every version of a span counts.
AllRows(S) == S

\* LATEST_SPANS: each span once, as its highest normalization_version has it.
Newest(S) == {r \in S : \A q \in S : SameSpan(q, r) => q.version <= r.version}

Once(S, rows) == [r \in rows |-> IF r \in S THEN 1 ELSE 0]

Counted(table) == {r \in DOMAIN table : table[r] > 0}

Total(table, S) == SumFunctionOnSet(table, S)

-----------------------------------------------------------------------------
(***************************************************************************)
(* The minute rollup.                                                      *)
(***************************************************************************)

KeyOf(r) == [minute |-> r.minute, service |-> r.service, method |-> r.method,
             tool |-> r.tool, category |-> r.category]

\* Durations with their multiplicity: what a quantile state is merged from.
Samples(table, S) == [r \in {q \in S : q.eligible} |-> table[r]]

\* One row of ROLLUP, from the rows S of one key.
RollupRow(table, key, S) ==
  [key    |-> key,
   calls  |-> Total(table, S),
   errors |-> Total(table, {r \in S : r.error}),
   helper |-> Total(table, {r \in S : r.helper}),
   last   |-> Max({r.minute : r \in S})]

\* A mutated form of Rollup: one row per minute and category, whatever the tool.
CoarseRollup(table, tenant, since) ==
  LET S == {r \in Counted(table) : r.tenant = tenant /\ r.minute >= since}
      keys == {[KeyOf(r) EXCEPT !.tool = (CHOOSE q \in S : q.service = r.service).tool] : r \in S}
  IN  {RollupRow(table, k, {r \in S : r.minute = k.minute /\ r.service = k.service
                                        /\ r.category = k.category}) : k \in keys}

Rollup(table, tenant, since) ==
  LET S == {r \in Counted(table) : r.tenant = tenant /\ r.minute >= since}
  IN  {RollupRow(table, k, {r \in S : KeyOf(r) = k}) : k \in {KeyOf(r) : r \in S}}

FailureCategories ==
  {"ok", "tool_error", "server_exception", "unknown_tool", "invalid_arguments",
   "protocol_error", "pending_input", "cancelled", "unauthorized", "forbidden", "unclassified"}

CallsIn(X) == SumFunction([x \in X |-> x.calls])

\* _breakdown: a category the API does not know is not counted.
Breakdown(R) ==
  [c \in FailureCategories |-> CallsIn({x \in R : x.key.category = c})]

-----------------------------------------------------------------------------
(***************************************************************************)
(* Latency, with the caveat about the clock it was measured on.            *)
(***************************************************************************)

\* The smallest duration that at least half of the samples do not exceed.
Median(samples) ==
  LET upTo(d) == Total(samples, {r \in DOMAIN samples : r.duration <= d})
      durations == {r.duration : r \in Counted(samples)}
  IN  Min({d \in durations : 2 * upTo(d) >= Total(samples, DOMAIN samples)})

ClockWarning(p50, tick, count, zeros) ==
  CASE tick = 0 \/ count = 0                      -> "none"
    [] tick # 0 /\ count # 0 /\ p50 # 0
         /\ p50 < tick * TrustMultiple            -> "quantised"
    [] tick # 0 /\ count # 0 /\ ~ (p50 # 0 /\ p50 < tick * TrustMultiple)
         /\ 100 * zeros > count * ZeroPercent     -> "mostly zero"
    [] OTHER                                      -> "none"

NoLatency == [count |-> 0, p50 |-> 0, max |-> 0, zeros |-> 0, tick |-> 0, warning |-> "none"]

Latency(samples) ==
  LET seen  == Counted(samples)
      count == Total(samples, seen)
      zeros == Total(samples, {r \in seen : r.duration = 0})
      ticks == {r.duration : r \in seen} \ {0}
      tick  == IF ticks = {} THEN 0 ELSE Min(ticks)
  IN  IF count = 0 THEN NoLatency
      ELSE [count |-> count, p50 |-> Median(samples), max |-> Max({r.duration : r \in seen}),
            zeros |-> zeros, tick |-> tick,
            warning |-> ClockWarning(Median(samples), tick, count, zeros)]

\* _rollup_latency: the tool calls of the tenant, of one server or of all ("").
RollupLatency(table, tenant, since, server) ==
  Latency(Samples(table, {r \in Counted(table) :
                            /\ r.tenant = tenant /\ r.minute >= since
                            /\ r.method = "tools/call" /\ server \in {"", r.service}}))

-----------------------------------------------------------------------------
(***************************************************************************)
(* The two views that read the rollup.                                     *)
(***************************************************************************)

ToolCalls(R)  == {x \in R : x.key.method = "tools/call"}
CallsOf(R)    == CallsIn(ToolCalls(R))
ErrorsOf(R)   == SumFunction([x \in ToolCalls(R) |-> x.errors])
ToolsOf(R)    == Cardinality({x.key.tool : x \in R} \ {""})
Classified(R) == {x \in R : x.key.category \notin {"", "ok", "protocol_error"}}

Overview(table, tenant, since) ==
  LET R == Rollup(table, tenant, since)
  IN  [servers   |-> Cardinality({x.key.service : x \in R}),
       tools     |-> ToolsOf(R),
       calls     |-> CallsOf(R),
       errors    |-> ErrorsOf(R),
       breakdown |-> Breakdown(R),
       helper    |-> SumFunction([x \in Classified(R) |-> x.helper]),
       failed    |-> CallsIn(Classified(R)),
       latency   |-> RollupLatency(table, tenant, since, "")]

Server(table, tenant, since, name) ==
  LET R == {x \in Rollup(table, tenant, since) : x.key.service = name}
  IN  [server    |-> name,
       calls     |-> CallsOf(R),
       errors    |-> ErrorsOf(R),
       tools     |-> ToolsOf(R),
       breakdown |-> Breakdown(R),
       latency   |-> RollupLatency(table, tenant, since, name),
       last      |-> Max({x.last : x \in R})]

Servers(table, tenant, since) ==
  {Server(table, tenant, since, name) :
     name \in {x.key.service : x \in Rollup(table, tenant, since)} \ {""}}
=============================================================================
