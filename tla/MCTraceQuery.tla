---------------------------- MODULE MCTraceQuery ----------------------------
(***************************************************************************)
(* A small instance of TraceQuery.  Tenant a has three traces of two spans *)
(* that come in any order beside each other, and one of five spans of one  *)
(* day that comes alone; tenant b has a span of a trace of a's.            *)
(***************************************************************************)
EXTENDS TraceQuery, TLC

MCNumerals == [n \in {"-1", "0", "2", "9"} |->
                 CASE n = "-1" -> -1 [] n = "0" -> 0 [] n = "2" -> 2 [] OTHER -> 9]
MCWithin == {<<"fet", "fetch">>}
MCOrder ==
  [t1 |-> 1, t2 |-> 2, t3 |-> 3, t4 |-> 4,
   s1 |-> 4, s2 |-> 1, s3 |-> 3, s4 |-> 2, s5 |-> 5, s6 |-> 6,
   s7 |-> 8, s8 |-> 7, s9 |-> 11, s10 |-> 10, s11 |-> 9, fetch |-> 1, store |-> 2]
  @@ [n \in {"tools/list", "tools/call"} |-> IF n = "tools/list" THEN 3 ELSE 4]

DecodedSpan(tenant, trace, span, parent, start, duration, service, kind, status, attributes) ==
  [tenant |-> tenant, trace |-> trace, span |-> span, parent |-> parent, start |-> start,
   duration |-> duration, service |-> service, kind |-> kind, status |-> status,
   exception |-> FALSE, attributes |-> attributes]

Call(tool, extra) ==
  [k \in {"mcp.method.name", "gen_ai.tool.name"} \cup DOMAIN extra |->
     CASE k = "mcp.method.name" -> "tools/call" [] k = "gen_ai.tool.name" -> tool
       [] OTHER -> extra[k]]

\* t1 has a root and a child, t2 a parent elsewhere and spans on two days, the spans of
\* t3 are each other's parents.
PairSpans ==
  { DecodedSpan("a", "t1", "s1", "", 1, 2, "web", "SERVER", "UNSET",
                [k \in {"http.method"} |-> "POST"]),
    DecodedSpan("a", "t1", "s2", "s1", 1, 1, "mcp", "SERVER", "UNSET",
                Call("fetch", [k \in {"mcpobs.cancelled"} |-> "true"])),
    DecodedSpan("a", "t2", "s3", "away", 2, 0, "mcp", "SERVER", "ERROR",
                Call("fetch", [k \in {"mcpobs.failure.kind", "custom"} |-> "invalid_arguments"])),
    DecodedSpan("a", "t3", "s4", "s5", 2, 1, "mcp", "SERVER", "ERROR",
                Call("store", [k \in {"error.type"} |-> "tool_error"])),
    DecodedSpan("a", "t2", "s6", "s3", 3, 1, "web", "SERVER", "UNSET",
                [k \in {"http.method"} |-> "GET"]),
    DecodedSpan("a", "t3", "s5", "s4", 2, 1, "mcp", "SERVER", "UNSET",
                [k \in {"mcp.method.name", "mcpobs.result.type"} |->
                   IF k = "mcp.method.name" THEN "tools/list" ELSE "input_required"]) }

\* t4: under the root s7 the siblings s8 and s9, under s8 s10, and s11 of a parent that
\* is not there; two tools, one of which fails, and a refused request.
DeepSpans ==
  { DecodedSpan("a", "t4", "s7", "", 0, 2, "web", "SERVER", "UNSET",
                [k \in {"http.method"} |-> "POST"]),
    DecodedSpan("a", "t4", "s8", "s7", 0, 1, "mcp", "SERVER", "UNSET",
                Call("fetch", [k \in {} |-> ""])),
    DecodedSpan("a", "t4", "s9", "s7", 1, 1, "mcp", "SERVER", "ERROR",
                Call("store", [k \in {"error.type"} |-> "tool_error"])),
    DecodedSpan("a", "t4", "s10", "s8", 1, 0, "web", "SERVER", "UNSET",
                [k \in {"http.status_code"} |-> "401"]),
    DecodedSpan("a", "t4", "s11", "gone", 1, 0, "mcp", "SERVER", "UNSET",
                [k \in {"mcp.method.name"} |-> "tools/list"]) }

MCShared == DecodedSpan("b", "t1", "s3", "s2", 2, 1, "mcp", "SERVER", "UNSET",
                        [k \in {"mcp.method.name"} |-> "tools/list"])

MCSpans == PairSpans \cup DeepSpans \cup {MCShared}

MCPrincipals ==
  [k \in {"ka", "ki"} |-> [tenant |-> "a", scopes |-> IF k = "ka" THEN {"read"} ELSE {"ingest"}]]

MCRequest(view, query, where, limit, window) ==
  [view |-> view, query |-> query, where |-> where, limit |-> limit, window |-> window]

MCRequests ==
  { MCRequest("traces", [k \in {} |-> ""], <<>>, 1, 2),
    MCRequest("traces", [k \in {} |-> ""], <<>>, 2, 3),
    MCRequest("traces", [k \in {"q"} |-> "fet"],
              <<[field |-> "attr", op |-> "is_not", value |-> "x"]>>, 2, 3),
    MCRequest("errors", [k \in {"min_duration_ms"} |-> "-1"], <<>>, 1, 2),
    MCRequest("errors", [k \in {"max_duration_ms"} |-> "0"], <<>>, 1, 1) }

\* Bound: a reader pages only over the first versions of these spans; everything else
\* is read without a continuation.
PagedRows == {ToRow(s, Current) : s \in {p \in PairSpans : p.span \notin {"s1", "s5"}}}

Paged == rows \subseteq PagedRows

\* Bound: the spans of t4 are not there beside those of another trace.
DeepAlone == {r \in rows : r.trace = "t4"} \in {{}, rows}

\* Bound: so many spans are there under the older taxonomy, all of tenant a's.
MaxOld == 2

FewOld ==
  LET old == {r \in rows : r.version = Old}
  IN  Cardinality(old) <= MaxOld /\ \A r \in old : r.tenant = "a"

MCNext ==
  /\ Stores \/ (Paged /\ Reads)
  /\ FewOld'
  /\ DeepAlone'
  /\ reader' # Idle => Paged'

MCSpec == Init /\ [][MCNext]_vars
=============================================================================
