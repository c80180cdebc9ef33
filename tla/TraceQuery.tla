----------------------------- MODULE TraceQuery -----------------------------
(***************************************************************************)
(* The query API over spans_raw (query/app.py, query/repository.py): the   *)
(* paginated trace lists, one trace in detail, the capability tables and   *)
(* the filter options, read while the normalizer inserts late spans and    *)
(* replays of spans that are already there.                                *)
(*                                                                         *)
(* rows is spans_raw, locator is trace_locator, now is the clock of every  *)
(* host in the unit of the span times, reader is one client paging through *)
(* a list.  The reads without a continuation (detail, capabilities,        *)
(* options) are operators on the current rows.                             *)
(***************************************************************************)
EXTENDS SpanRow, Filters, FiniteSetsExt, SequencesExt

CONSTANTS
  Spans,            \* the decoded spans the normalizer may be given
  OldCategories,    \* what an earlier taxonomy may have derived for them
  Principals,       \* API key |-> [tenant, scopes], the keys the authenticator knows
  Keys,             \* the keys callers present
  Requests,         \* list requests: [view, query, where, limit, window]
  MaxNow,           \* bound: the clock stops here
  DayLength,        \* the length of a day, toDate() of a time
  BindStep,         \* the precision at which the driver binds a cursor's time
  TraceSettle,      \* TRACE_SETTLE_SECONDS
  TraceSpanCap,     \* TRACE_SPAN_CAP
  TraceDetailCap,   \* TRACE_DETAIL_CAP
  CapabilityCap     \* CAPABILITY_ROW_CAP

VARIABLES rows, locator, now, reader

vars == <<rows, locator, now, reader>>

Old == 1        \* rows of an earlier normalization_version
Current == 2

TenantOf(s) == ToRow(s, Current).tenant
Tenants == {TenantOf(s) : s \in Spans}
TraceIds == {s.trace : s \in Spans}
SpanIds == {s.span : s \in Spans}
Day(time) == time \div DayLength

Idle == [phase |-> "idle"]

CapabilityKinds ==
  [tool     |-> [method |-> "tools/call",     name |-> "tool"],
   prompt   |-> [method |-> "prompts/get",    name |-> "prompt"],
   resource |-> [method |-> "resources/read", name |-> "resource"],
   protocol |-> [method |-> "",               name |-> "method"]]

Categories ==
  {"ok", "tool_error", "server_exception", "unknown_tool", "invalid_arguments",
   "protocol_error", "pending_input", "cancelled", "unauthorized", "forbidden", "unclassified"}

\* The names a capability table may show.
NamesOf(s) == {ToRow(s, Current)[CapabilityKinds[kind].name] : kind \in DOMAIN CapabilityKinds}
Items == (UNION {NamesOf(s) : s \in Spans}) \ {""}

\* Times are counted from a first instant; a tenant's span is told by its ids.
ASSUME SpansAssumption ==
  \A s \in Spans :
    /\ s.start \in Nat /\ s.duration \in Nat
    /\ \A u \in Spans : s # u => <<TenantOf(s), s.trace, s.span>> # <<TenantOf(u), u.trace, u.span>>

\* What the SDKs stamp: a failure kind is a category the pages know, as an older
\* taxonomy's are; only a tool's calls bear its name, of what gets a category.
ASSUME KindsAssumption ==
  /\ OldCategories \subseteq Categories
  /\ \A s \in Spans :
       /\ Attr(s, "mcpobs.failure.kind") \in Categories \cup {""}
       /\ Attr(s, "gen_ai.tool.name") # "" /\ Classify(s) # "" =>
            Attr(s, "mcp.method.name") = "tools/call"

\* Two ids of traces, two of spans, and two names of an item, are two texts.
ASSUME OrderAssumption ==
  \A texts \in {TraceIds, SpanIds, Items} : \A t, u \in texts :
    Order[t] \in Int /\ (Order[t] = Order[u] => t = u)

\* A list is one of the two that are paged; app.py bounds its limit below by 1.
ASSUME ListsAssumption ==
  \A request \in Requests :
    request.view \in {"traces", "errors"} /\ request.limit \in Nat \ {0} /\ request.window \in Nat
ASSUME CapAssumption == {CapabilityCap, TraceSpanCap} \subseteq Nat \ {0}
ASSUME ClockAssumption == MaxNow \in Nat /\ DayLength \in Nat \ {0} /\ BindStep \in Nat \ {0}

-----------------------------------------------------------------------------
(***************************************************************************)
(* Reading spans_raw.                                                      *)
(***************************************************************************)

Scoped(tenant, since) == {r \in rows : r.tenant = tenant /\ r.time >= since}

\* ORDER BY: S in the strict order Before.
Ordered(S, Before(_, _)) ==
  [i \in 1 .. Cardinality(S) |->
     CHOOSE r \in S : Cardinality({q \in S : Before(q, r)}) = i - 1]

First(n, seq) == SubSeq(seq, 1, IF Len(seq) < n THEN Len(seq) ELSE n)

\* A mutated form of Newest: every version is read.
AllVersions(S) == S

\* LATEST_SPANS: the newest normalization of each span.
Newest(S) ==
  {r \in S : \A q \in S : q.trace = r.trace /\ q.span = r.span => q.version <= r.version}

LatestSpans(tenant, since) == Newest(Scoped(tenant, since))

\* anyLastIf(column, column != ''): any of the values that are there.
AnyOf(S, column) ==
  LET values == {r[column] : r \in S} \ {""} IN IF values = {} THEN {""} ELSE values

\* TRACE_LIST_CATEGORY_SQL: a failure, else what is not ok, else ok, else nothing.
Severity(r) ==
  FirstRule(<< <<r.error, 3>>, <<r.category \notin {"", "ok"}, 2>>, <<r.category = "ok", 1>>,
               <<TRUE, 0>> >>)

\* A mutated form: argMax over mcp_is_error alone.
FailedCategories(S) == {r.category : r \in {q \in S : \A p \in S : p.error => q.error}}

WorstCategories(S) == {r.category : r \in {q \in S : \A p \in S : Severity(p) <= Severity(q)}}

\* The list's row of the trace whose spans are S, with the values that were picked.
Summary(S, picked) ==
  LET times == {r.time : r \in S}
  IN  [trace     |-> (CHOOSE r \in S : TRUE).trace,
       start     |-> Min(times),
       duration  |-> Max(times) + Max({r.duration : r \in S}) - Min(times),
       spans     |-> Cardinality(S),
       errors    |-> Cardinality({r \in S : r.error}),
       root      |-> \E r \in S : r.parent = "",
       newest    |-> Max(times),
       server    |-> picked.server,
       tool      |-> picked.tool,
       method    |-> picked.method,
       transport |-> picked.transport,
       category  |-> picked.category]

\* The rows the list query may return for it.
SummariesOf(S) ==
  {Summary(S, picked) :
     picked \in [server : AnyOf(S, "server"), tool : AnyOf(S, "tool"), method : AnyOf(S, "method"),
                 transport : AnyOf(S, "transport"), category : WorstCategories(S)]}

\* The rows the grouped subquery may return, and its outcomes: one row per trace.
TraceRows(tenant, since) ==
  LET L == LatestSpans(tenant, since)
  IN  UNION {SummariesOf({r \in L : r.trace = t}) : t \in {r.trace : r \in L}}

TraceLists(tenant, since) ==
  LET all == TraceRows(tenant, since)
  IN  {list \in SUBSET all : \A t \in {a.trace : a \in all} :
                               \E row \in list : {r \in list : r.trace = t} = {row}}

ListComplete(summary) == summary.root \/ now - summary.newest >= TraceSettle

-----------------------------------------------------------------------------
(***************************************************************************)
(* The paginated lists.                                                    *)
(***************************************************************************)

\* ORDER BY start_time DESC, trace_id DESC.
ListedBefore(a, b) ==
  a.start > b.start \/ (a.start = b.start /\ Order[a.trace] > Order[b.trace])

Bound(time) == time - (time % BindStep)

\* Mutated forms of BelowCursor: the time alone, and the last item once more.
BelowTime(cursor, row) == cursor = <<>> \/ row.start < Bound(cursor[1])
AtOrBelowCursor(cursor, row) ==
  \/ cursor = <<>>
  \/ row.start < Bound(cursor[1])
  \/ row.start = Bound(cursor[1]) /\ Order[row.trace] <= Order[cursor[2]]

\* The keyset predicate; cursor is <<>> on the first page.
BelowCursor(cursor, row) ==
  \/ cursor = <<>>
  \/ row.start < Bound(cursor[1])
  \/ row.start = Bound(cursor[1]) /\ Order[row.trace] < Order[cursor[2]]

\* The errors view keeps failures only, unless a category is asked for.
FailuresOnly(filters) ==
  /\ filters.view = "errors"
  /\ "failure_category" \notin DOMAIN filters.values
  /\ \A cond \in filters.conditions : cond.field # "failure_category"

Shown(filters, row, spans) ==
  /\ FailuresOnly(filters) => row.category \notin NotAFailureSql
  /\ Keeps(filters, "where", row, spans)

PageOf(list, filters, spans, cursor, limit) ==
  LET found == Ordered({r \in list : Shown(filters, r, spans) /\ BelowCursor(cursor, r)},
                       ListedBefore)
      items == First(limit, found)
  IN  [items |-> items,
       next  |-> IF Len(found) > limit THEN <<items[limit].start, items[limit].trace>> ELSE <<>>]

Authenticated(key) == key \in DOMAIN Principals /\ "read" \in Principals[key].scopes

\* When each trace of the reader's scope starts, as its next page will see it.
Starts(r) ==
  LET L == LatestSpans(r.tenant, now - r.request.window)
  IN  [t \in {s.trace : s \in L} |-> Min({s.time : s \in {u \in L : u.trace = t}})]

\* The traces every outcome of the list query keeps.
SureMatches(r) ==
  LET since == now - r.request.window
      all   == TraceRows(r.tenant, since)
      spans == Scoped(r.tenant, since)
  IN  {row.trace : row \in all} \ {row.trace : row \in {a \in all : ~ Shown(r.filters, a, spans)}}

\* Where the bound time differs from the cursor, it skips what starts in between.
Hidden(r, starts) ==
  {t \in DOMAIN starts :
     r.cursor # <<>> /\ Bound(r.cursor[1]) # r.cursor[1] /\ starts[t] >= Bound(r.cursor[1])}

\* History: the traces that matched at every page so far and did not move at all
\* (steady), or did not move up the list and were not hidden (kept).
Remember(r) ==
  LET starts == Starts(r)
      sure   == SureMatches(r)
  IN  [r EXCEPT !.steady = {t \in @ \cap sure : starts[t] = r.starts[t]},
                !.kept   = {t \in (@ \cap sure) \ Hidden(r, starts) : starts[t] <= r.starts[t]},
                !.starts = starts]

-----------------------------------------------------------------------------
(***************************************************************************)
(* One trace in detail.                                                    *)
(***************************************************************************)

\* trace_locator knows the trace on the day it was last written for the tenant.
Located(tenant, t) ==
  LET mine == {e \in locator : e.trace = t /\ e.tenant = tenant}
  IN  {e.day : e \in {d \in mine : \A o \in mine : o.seen <= d.seen}}

\* ORDER BY s_timestamp ASC, which leaves the order of one instant open; here it is
\* some order of the ids.
Earlier(a, b) == a.time < b.time \/ (a.time = b.time /\ Order[a.span] < Order[b.span])

ByTime(S) == Ordered(S, Earlier)

\* The spans of the trace stored on that day, earliest first, up to the cap.
DetailSpans(tenant, t, day) ==
  First(TraceSpanCap,
        ByTime(Newest({r \in rows : r.tenant = tenant /\ r.trace = t /\ Day(r.time) = day})))

\* _resolve_root: the earliest span whose parent is not in the trace; {} in a cycle.
Root(S) ==
  LET orphans == {r \in S : r.parent = "" \/ \A q \in S : q.span # r.parent}
  IN  IF orphans = {} THEN {} ELSE {ByTime(orphans)[1]}

\* One turn of the loop of _order_tree: the next span is drawn, unless it was (a cycle
\* of parents), and the spans under it come before the rest.
Turn(S, w) ==
  LET top  == Head(w.stack)
      kids == ByTime({r \in S : r.parent = top.row.span})
  IN  IF \E i \in DOMAIN w.out : w.out[i].row.span = top.row.span
      THEN [w EXCEPT !.stack = Tail(@)]
      ELSE [stack |-> [i \in DOMAIN kids |-> [row |-> kids[i], depth |-> top.depth + 1]]
                        \o Tail(w.stack),
            out   |-> Append(w.out, top)]

\* _order_tree: depth first from the root, siblings by time, then what is left over.
WalkFrom(S, root) ==
  LET Nodes == [row : S, depth : Nat]
      walk[w \in [stack : Seq(Nodes), out : Seq(Nodes)]] ==
        IF w.stack = <<>> THEN w.out ELSE walk[Turn(S, w)]
  IN  walk[[stack |-> <<[row |-> root, depth |-> 0]>>, out |-> <<>>]]

\* A mutated form: the spans stay in the order of time.
TimeOrder(S) ==
  LET all == ByTime(S)
      above(r) == {q \in S : q.span = r.parent}
  IN  [i \in DOMAIN all |->
         [row |-> all[i],
          depth |-> IF above(all[i]) = {} THEN 0
                    ELSE 1 + Cardinality(UNION {above(q) : q \in above(all[i])})]]

OrderTree(S) ==
  LET roots   == Root(S)
      ordered == IF roots = {} THEN <<>>
                 ELSE WalkFrom(S, CHOOSE r \in roots : TRUE)
      left    == ByTime({r \in S : \A i \in DOMAIN ordered : ordered[i].row # r})
  IN  ordered \o [i \in DOMAIN left |-> [row |-> left[i], depth |-> 0]]

FirstOr(seq, Test(_), default) ==
  IF \E i \in DOMAIN seq : Test(seq[i])
  THEN seq[CHOOSE i \in DOMAIN seq : Test(seq[i]) /\ \A j \in 1 .. i - 1 : ~ Test(seq[j])]
  ELSE default

\* _headline: the span the header is about, a tool call before any other method.
Headline(tree) ==
  FirstOr(tree, LAMBDA n : n.row.tool # "",
          FirstOr(tree, LAMBDA n : n.row.method # "", [row |-> [tool |-> "", method |-> ""]]))

\* Self time: the duration less the durations of the direct children.
SelfTime(S, r) ==
  LET spent == SumFunction([q \in {p \in S : p.parent = r.span} |-> q.duration])
  IN  IF r.duration > spent THEN r.duration - spent ELSE 0

\* _span_detail: every column of the row, and what the whole trace tells of it; its
\* share of the trace is in tenths of a percent.
SpanDetail(r, selfTime, offset, total) ==
  [row    |-> r,
   depth  |-> 0,
   self   |-> selfTime,
   offset |-> offset,
   share  |-> IF total = 0 THEN 0 ELSE (2000 * r.duration + total) \div (2 * total)]

\* The bulk map, from the id of a span to its detail, left out of a large trace.
DetailMap(tree, S, start, total) ==
  [id \in IF Len(tree) > TraceDetailCap THEN {} ELSE {r.span : r \in S} |->
     LET i == CHOOSE k \in DOMAIN tree : tree[k].row.span = id
         r == tree[i].row
     IN  [SpanDetail(r, SelfTime(S, r), r.time - start, total) EXCEPT !.depth = tree[i].depth]]

\* The DTO of a trace whose spans were read as the sequence spans.
TraceDetail(spans) ==
  LET S     == ToSet(spans)
      tree  == OrderTree(S)
      start == spans[1].time
      total == Max({r.time + r.duration : r \in S}) - start
      out   == Root(S) = {} \/ \E r \in Root(S) : r.parent = ""
  IN  [start    |-> start,
       duration |-> total,
       detail   |-> DetailMap(tree, S, start, total),
       omitted  |-> Len(tree) > TraceDetailCap,
       spans    |-> Len(tree),
       errors   |-> Cardinality({r \in S : r.category \notin {"", "ok", "pending_input"}}),
       category |-> FirstOr(tree, LAMBDA n : n.row.category \notin {"", "ok"},
                            [row |-> [category |-> "ok"]]).row.category,
       tree     |-> tree,
       complete |-> out \/ now - Max({r.time : r \in S}) >= TraceSettle]

\* span_detail: one span on demand, from the day the locator gives.  What needs the
\* whole trace to compute is 0.
OpenSpan(tenant, t, span) ==
  {SpanDetail(r, 0, 0, 0) :
     r \in UNION {Newest({q \in rows : q.tenant = tenant /\ q.trace = t /\ q.span = span
                                         /\ Day(q.time) = day}) : day \in Located(tenant, t)}}

-----------------------------------------------------------------------------
(***************************************************************************)
(* The capability tables and the filter options.                           *)
(***************************************************************************)

Breakdown(S) == [c \in Categories |-> Cardinality({r \in S : r.category = c})]

\* FailureBreakdown.failures
Failures(breakdown) == SumFunctionOnSet(breakdown, Categories \ NotAFailureSql)

\* WHERE of a capability query, on one span.
CapabilityWhere(kind, filters, r) ==
  LET k == CapabilityKinds[kind]
  IN  /\ r[k.name] # ""
      /\ IF k.method # "" THEN r.method = k.method
         ELSE r.method \notin {CapabilityKinds[o].method : o \in DOMAIN CapabilityKinds} \ {""}
      /\ Keeps(filters, "where", [name |-> r[k.name], server |-> r.server], {})

CapabilityRow(name, S) ==
  LET eligible == {r \in S : r.eligible}
  IN  [name      |-> name,
       calls     |-> Cardinality(S),
       errors    |-> Cardinality({r \in S : r.error}),
       last      |-> Max({r.time : r \in S}),
       slowest   |-> IF eligible = {} THEN 0 ELSE Max({r.duration : r \in eligible}),
       latency   |-> Cardinality(eligible),
       breakdown |-> Breakdown({r \in S : r.category # ""})]

\* The rows of the table, one for each name, before it is cut.
CapabilityTable(tenant, since, kind, filters) ==
  LET S    == {r \in LatestSpans(tenant, since) : CapabilityWhere(kind, filters, r)}
      name == CapabilityKinds[kind].name
      all  == {CapabilityRow(n, {r \in S : r[name] = n}) : n \in {r[name] : r \in S}}
  IN  {c \in all : Keeps(filters, "having", c, {})}

Capabilities(tenant, since, kind, filters) ==
  LET found == Ordered(CapabilityTable(tenant, since, kind, filters),
                       LAMBDA a, b : SortsBefore(filters, a, b))
  IN  [items     |-> First(CapabilityCap, found),
       truncated |-> Len(found) > CapabilityCap]

\* tools(): the older table of the same name, for one server or for all ("").
ToolRow(tenant, since, server, tool) ==
  LET L == LatestSpans(tenant, since)
      S == {r \in L : r.method = "tools/call" /\ r.tool = tool /\ server \in {"", r.server}}
  IN  [calls     |-> Cardinality(S),
       errors    |-> Cardinality({r \in S : r.error}),
       breakdown |-> Breakdown({r \in L : r.tool = tool /\ r.category # ""})]

\* A mutated form: every version of a span offers its values.
StaleOptions(tenant, since) ==
  LET present(column) == {r[column] : r \in Scoped(tenant, since)} \ {""}
  IN  [server |-> present("server"), tool |-> present("tool"), method |-> present("method"),
       category |-> present("category") \ {"ok"}]

FilterOptions(tenant, since) ==
  LET L == LatestSpans(tenant, since)
      present(column) == {r[column] : r \in L} \ {""}
  IN  [server |-> present("server"), tool |-> present("tool"), method |-> present("method"),
       category |-> present("category") \ {"ok"}]

-----------------------------------------------------------------------------
(***************************************************************************)
(* The behaviour.                                                          *)
(***************************************************************************)

Init ==
  /\ rows = {} /\ locator = {} /\ now = 0
  /\ reader = Idle

\* trace_locator_mv: where a stored span is found again.
LocatorRow(row) ==
  [trace |-> row.trace, tenant |-> row.tenant, day |-> Day(row.time), seen |-> now]

Store(row) ==
  /\ row \notin rows
  /\ rows' = rows \cup {row}
  /\ locator' = {e \in locator : [e EXCEPT !.seen = now] # LocatorRow(row)} \cup {LocatorRow(row)}
  /\ UNCHANGED <<now, reader>>

\* The normalizer inserts a span, for the first time or in a replay.
Insert(s) ==
  /\ s.start + s.duration <= now
  /\ Store(ToRow(s, Current))

\* Before the taxonomy changed: the category is what the older code derived.
InsertOld(s, category) ==
  /\ s.start + s.duration <= now /\ IsMcp(s)
  /\ \A r \in rows : ~ (r.trace = s.trace /\ r.span = s.span)
  /\ Store([ToRow(s, Old) EXCEPT !.category = category, !.error = IsError(category)])

\* ReplacingMergeTree keeps the newest of the locator rows with one sorting key.
MergeLocator ==
  \E e, f \in locator :
    /\ e # f /\ e.trace = f.trace /\ e.day = f.day /\ e.seen >= f.seen
    /\ locator' = locator \ {f}
    /\ UNCHANGED <<rows, now, reader>>

Tick ==
  /\ now < MaxNow /\ now' = now + 1
  /\ UNCHANGED <<rows, locator, reader>>

\* A list request: a key that may not read is refused before anything is queried.
OpenList(key, request) ==
  /\ reader.phase = "idle"
  /\ Authenticated(key)
  /\ ~ Refused(request.view, request.query)
  /\ LET filters == Parse(request.view, request.query, request.where)
         start   == [phase |-> "reading", tenant |-> Principals[key].tenant, request |-> request,
                     filters |-> filters, cursor |-> <<>>, seen |-> <<>>,
                     steady |-> {}, kept |-> {}, starts |-> <<>>]
     IN  reader' = [start EXCEPT !.starts = Starts(start),
                                 !.steady = SureMatches(start), !.kept = SureMatches(start)]
  /\ UNCHANGED <<rows, locator, now>>

\* The next page, for a window that ends now.
ReadPage ==
  /\ reader.phase = "reading"
  /\ LET r     == Remember(reader)
         since == now - r.request.window
     IN  \E list \in TraceLists(r.tenant, since) :
           LET page == PageOf(list, r.filters, Scoped(r.tenant, since), r.cursor, r.request.limit)
           IN  reader' = [r EXCEPT !.seen = @ \o [i \in DOMAIN page.items |-> page.items[i].trace],
                                   !.phase = IF page.next = <<>> THEN "done" ELSE "reading",
                                   !.cursor = IF page.next = <<>> THEN @ ELSE page.next]
  /\ UNCHANGED <<rows, locator, now>>

CloseList == reader.phase = "done" /\ reader' = Idle /\ UNCHANGED <<rows, locator, now>>

\* What the normalizer, the merges and the clock do; what a reader does.
Stores ==
  \/ \E s \in Spans : Insert(s) \/ \E c \in OldCategories : InsertOld(s, c)
  \/ MergeLocator
  \/ Tick

Reads ==
  \/ \E key \in Keys, request \in Requests : OpenList(key, request)
  \/ ReadPage
  \/ CloseList

Next == Stores \/ Reads

Spec == Init /\ [][Next]_vars

-----------------------------------------------------------------------------
(***************************************************************************)
(* Properties.  A read is quantified over what a client may ask: a tenant, *)
(* and the widest window.                                                  *)
(***************************************************************************)

AllTime == 0

Held(tenant, t) == {r \in rows : r.tenant = tenant /\ r.trace = t}

\* The list rows of one trace.
RowsOf(tenant, t) == {row \in TraceRows(tenant, AllTime) : row.trace = t}

Unfiltered(view) == Parse(view, [k \in {} |-> ""], <<>>)

ReaderOK ==
  /\ reader.phase \in {"reading", "done"}
  /\ reader.tenant \in {Principals[k].tenant : k \in DOMAIN Principals}
  /\ reader.request \in Requests
  /\ reader.filters.view \in DOMAIN Views
  /\ DOMAIN reader.filters.values \subseteq DOMAIN TraceFilters
  /\ \A cond \in reader.filters.conditions : cond.op \in Operators
  /\ reader.cursor \in {<<>>} \cup ((0 .. MaxNow) \X TraceIds)
  /\ reader.seen \in Seq(TraceIds)
  /\ reader.kept \cup reader.steady \cup DOMAIN reader.starts \subseteq TraceIds

\* Every row is a version of a span, every locator row is of a stored day, and the
\* reader's history is about traces of its own pages.
TypeOK ==
  /\ \A r \in rows : \E s \in Spans :
       /\ <<r.trace, r.span>> = <<s.trace, s.span>>
       /\ \/ r = ToRow(s, Current)
          \/ \E c \in OldCategories :
               r = [ToRow(s, Old) EXCEPT !.category = c, !.error = IsError(c)]
  /\ \A e \in locator : \E r \in Held(e.tenant, e.trace) : Day(r.time) = e.day
  /\ now \in 0 .. MaxNow
  /\ reader = Idle \/ ReaderOK

(* repository.py:_order_tree 1222-1280.  The waterfall shows every span exactly   *)
(* once, also under a cycle of parents; the nearest row above a span with a       *)
(* smaller depth is its parent; siblings are in time order; and a span is drawn   *)
(* at the margin only when its chain of parents does not reach the root.          *)
WaterfallIsATree ==
  \A tenant \in Tenants, t \in TraceIds : \A day \in Located(tenant, t) :
    LET spans == DetailSpans(tenant, t, day)
        tree  == OrderTree(ToSet(spans))
        drawn(i) == i = 1 \/ tree[i].depth > 0
    IN  /\ {tree[i].row : i \in DOMAIN tree} = ToSet(spans)
        /\ Len(tree) = Len(spans)
        /\ \A i \in DOMAIN tree : tree[i].depth > 0 =>
             \E j \in 1 .. i - 1 :
               /\ tree[j].row.span = tree[i].row.parent
               /\ tree[j].depth = tree[i].depth - 1
               /\ \A k \in j + 1 .. i - 1 :
                    /\ tree[k].depth >= tree[i].depth
                    /\ tree[k].depth = tree[i].depth => tree[k].row.time <= tree[i].row.time
        /\ Root(ToSet(spans)) # {} =>
             \A i, j \in DOMAIN tree :
               drawn(j) /\ tree[i].row.parent = tree[j].row.span => drawn(i)

(* repository.py:traces 768-858 and trace 885-1068.  A trace that is stored on    *)
(* one day and fits the cap has one start and one number of spans in the list and *)
(* in the detail, and something notable happened in one if it did in the other;   *)
(* what the list counts as failed, the detail counts too, among whatever else it  *)
(* counts (:1054; the converse is DetailRepeatsTheList); the list never gives a   *)
(* shorter duration, and never calls unfinished a trace the detail calls          *)
(* complete, unless the parents of all its spans are among them (:1016, a trace   *)
(* without a root is complete at any age).                                        *)
ListAndDetailAgree ==
  \A tenant \in Tenants, t \in TraceIds : \A day \in Located(tenant, t) :
    LET spans == DetailSpans(tenant, t, day)
    IN  (\A r \in Held(tenant, t) : Day(r.time) = day) /\ Len(spans) < TraceSpanCap =>
          \A d \in {TraceDetail(spans)}, row \in RowsOf(tenant, t) :
            /\ row.start = d.start
            /\ row.spans = d.spans
            /\ row.duration >= d.duration
            /\ row.errors <= d.errors
            /\ row.category \notin NotAFailureSql => d.errors > 0
            /\ row.category \in {"", "ok"} <=> d.category = "ok"
            /\ d.complete /\ Root(ToSet(spans)) # {} => ListComplete(row)

(* repository.py:_span_detail 1071 "duplicating sixty field assignments is how    *)
(* the bulk path and the on-demand path start disagreeing", span_detail 678 "The  *)
(* cap is supposed to be a payload optimisation, not a loss of capability".       *)
(* Every span that is drawn opens on demand as the one span there is, with what   *)
(* was drawn of it; the bulk map, unless it says that it is left out, has each of *)
(* them as it opens on demand; and the bars of the waterfall lie in the trace.    *)
EverySpanOpens ==
  \A tenant \in Tenants, t \in TraceIds : \A day \in Located(tenant, t) :
    LET spans == DetailSpans(tenant, t, day)
    IN  Located(tenant, t) = {day} /\ spans # <<>> => \A d \in {TraceDetail(spans)} :
          /\ \A i \in DOMAIN d.tree : \E o \in OpenSpan(tenant, t, d.tree[i].row.span) :
               /\ OpenSpan(tenant, t, d.tree[i].row.span) = {o}
               /\ o.row = d.tree[i].row
               /\ ~ d.omitted => /\ d.detail[o.row.span].row = o.row
                                 /\ d.detail[o.row.span].depth = d.tree[i].depth
          /\ \A id \in DOMAIN d.detail :
               LET e == d.detail[id]
               IN  /\ e.self \in 0 .. e.row.duration
                   /\ e.offset >= 0 /\ e.offset + e.row.duration <= d.duration
                   /\ e.share \in 0 .. 1000

(* tests/test_query.py:478 "The list and the detail page must not disagree about  *)
(* one trace", dtos.py:17 "The read plane's single answer to 'did this fail', and *)
(* it has to be single": one category and one count of errors for both pages.     *)
DetailRepeatsTheList ==
  \A tenant \in Tenants, t \in TraceIds : \A day \in Located(tenant, t) :
    (\A r \in Held(tenant, t) : Day(r.time) = day) =>
      \E row \in RowsOf(tenant, t) :
        LET d == TraceDetail(DetailSpans(tenant, t, day))
        IN  /\ row.errors = d.errors
            /\ row.category = d.category \/ (row.category = "" /\ d.category = "ok")

(* schema/013 "a summary outliving its spans would put rows in the console that   *)
(* 404 when clicked": a trace in a tenant's list opens, when no other tenant has  *)
(* spans of the same trace.                                                       *)
ListedTraceOpens ==
  \A r \in rows :
    (\A q \in rows : q.trace = r.trace => q.tenant = r.tenant) =>
      /\ Located(r.tenant, r.trace) # {}
      /\ \A day \in Located(r.tenant, r.trace) : DetailSpans(r.tenant, r.trace, day) # <<>>

(* dtos.py:NOT_A_FAILURE, filters.py:status, app.py:errors 333-369.  The error    *)
(* list, the status and category filters and the error counts of the list's rows  *)
(* have one definition of a failed trace, under every replay and whichever row a  *)
(* tie picks.                                                                     *)
OneDefinitionOfFailure ==
  \A tenant \in Tenants : \A row \in TraceRows(tenant, AllTime) :
    LET in(view, query) == Shown(Parse(view, query, <<>>), row, Scoped(tenant, AllTime))
    IN  /\ row.errors > 0 <=> Shown(Unfiltered("errors"), row, {})
        /\ row.errors > 0 <=> in("traces", [status |-> "error"])
        /\ row.errors > 0 => ~ in("traces", [status |-> "ok"])
        /\ row.errors > 0 => in("errors", [failure_category |-> row.category])

(* repository.py:capabilities 543-676, tools.  A span of an MCP call is counted   *)
(* in exactly one capability table, once however often it was replayed; in each   *)
(* row the breakdown adds up to the calls and its failures to the errors, as the  *)
(* older table of tools has them; and a table says that it is cut exactly if it   *)
(* is, which leaves out no name that was called more often than one it shows.     *)
CapabilitiesAddUp ==
  \A tenant \in Tenants :
    LET table(kind) == Capabilities(tenant, AllTime, kind, Unfiltered("capabilities"))
        rowsOf(kind) == ToSet(table(kind).items)
        cut(kind) ==
          CapabilityTable(tenant, AllTime, kind, Unfiltered("capabilities")) \ rowsOf(kind)
        named  == {<<r.trace, r.span>> : r \in {q \in rows :
                     /\ q.tenant = tenant /\ q.method # ""
                     /\ \A kind \in DOMAIN CapabilityKinds :
                          q.method = CapabilityKinds[kind].method =>
                            q[CapabilityKinds[kind].name] # ""}}
    IN  /\ \A kind \in DOMAIN CapabilityKinds : \A c \in rowsOf(kind) :
             /\ c.calls = SumFunction(c.breakdown)
             /\ c.errors = Failures(c.breakdown)
             /\ c.latency <= c.calls
        /\ (\A kind \in DOMAIN CapabilityKinds : ~ table(kind).truncated) =>
             Cardinality(named) =
               SumFunction([kind \in DOMAIN CapabilityKinds |->
                              SumFunction([c \in rowsOf(kind) |-> c.calls])])
        /\ \A c \in rowsOf("tool") :
             LET old == ToolRow(tenant, AllTime, "", c.name)
             IN  old = [calls |-> c.calls, errors |-> c.errors, breakdown |-> c.breakdown]
        /\ \A kind \in DOMAIN CapabilityKinds :
             /\ table(kind).truncated <=> cut(kind) # {}
             /\ \A c \in rowsOf(kind), left \in cut(kind) : c.calls >= left.calls

(* repository.py:735 "a dropdown offering a value that returns nothing is worse   *)
(* than no dropdown -- it looks like the filter is broken": a value a select      *)
(* offers keeps some trace, while no trace has two values in that column.         *)
OfferedValuesFound ==
  \A tenant \in Tenants, key \in {"server", "tool", "method", "failure_category"} :
    LET L      == LatestSpans(tenant, AllTime)
        column == IF key = "failure_category" THEN "category" ELSE key
        valuesOf(t) == {r[column] : r \in {q \in L : q.trace = t}} \ {"", "ok"}
        all    == TraceRows(tenant, AllTime)
    IN  (\A t \in TraceIds : Cardinality(valuesOf(t)) <= 1) =>
          \A value \in Offered("traces", key, FilterOptions(tenant, AllTime)) :
            \E row \in all : Shown(Parse("traces", [k \in {key} |-> value], <<>>), row, {})

(* repository.py:traces 790-800, encode_cursor 1283.  A trace that matches on     *)
(* every page read, never moves up the list and does not share the instant the    *)
(* cursor is bound at is returned by the time the list ends, although late spans  *)
(* move traces and the window moves on between the pages.                         *)
PagingFindsAll ==
  reader.phase = "done" => reader.kept \subseteq ToSet(reader.seen)

(* A trace that does not move is returned at most once.                           *)
PagingRepeatsNone ==
  reader.phase # "idle" =>
    \A i, j \in DOMAIN reader.seen : reader.seen[i] = reader.seen[j] /\ i # j =>
      reader.seen[i] \notin reader.steady

\* The items of the page that a reader r has read when it is q, and the last of the
\* page before it.
PageRead(r, q) ==
  [i \in 1 .. Len(q.seen) - Len(r.seen) |->
     LET t == q.seen[Len(r.seen) + i] IN [start |-> q.starts[t], trace |-> t]]

LastItem(cursor) == [start |-> cursor[1], trace |-> cursor[2]]

\* The page lies below the one before it, descends, and is continued from its end.
PageBelow(r, q) ==
  LET page == PageRead(r, q)
  IN  \A i \in DOMAIN page :
        /\ r.cursor # <<>> => ListedBefore(LastItem(r.cursor), page[i])
        /\ \A j \in i + 1 .. Len(page) : ListedBefore(page[i], page[j])
        /\ q.phase = "reading" /\ i = Len(page) => page[i] = LastItem(q.cursor)

(* repository.py:traces 790-800.  Every item of a page, the final page included,  *)
(* comes in the list behind all of the page before it, where each stood when it   *)
(* was read, and the items of a page behind each other, although the list changes *)
(* between the pages.  A page that is continued is not empty, so that no reader   *)
(* is sent on from where it was.                                                  *)
PagesGoDown ==
  [][reader.phase = "reading" /\ reader' # reader =>
       /\ PageBelow(reader, reader')
       /\ reader'.phase = "reading" => PageRead(reader, reader') # <<>>]_vars

(* What the list shows leads somewhere: a listed trace opens, and a value that is *)
(* offered finds one.                                                             *)
NoDeadEnds ==
  /\ ListedTraceOpens
  /\ OfferedValuesFound

(* The page of a trace leaves out nothing of what the list says of it, and each   *)
(* of its spans opens.                                                            *)
DetailMatchesList ==
  /\ ListAndDetailAgree
  /\ EverySpanOpens

(* The lists, their filters and the capability tables count the same failures,    *)
(* from whichever query.  The detail page is not one of them: it counts all that  *)
(* is notable but pending_input (:1054, DetailRepeatsTheList).                    *)
FailuresAddUp ==
  /\ OneDefinitionOfFailure
  /\ CapabilitiesAddUp

(* A reader that pages through the list misses nothing and sees nothing twice     *)
(* that stayed where it was.                                                      *)
PagingIsExact ==
  /\ TypeOK
  /\ PagingFindsAll
  /\ PagingRepeatsNone
=============================================================================
