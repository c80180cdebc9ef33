------------------------------ MODULE Filters ------------------------------
(***************************************************************************)
(* query/filters.py: the filters each view of the console offers, how a    *)
(* query string is parsed into them, and which rows they keep.             *)
(*                                                                         *)
(* The code compiles a filter to an SQL fragment; here the fragment is the *)
(* predicate it expresses.  Texts are the strings of the query; Numerals   *)
(* says which of them read as numbers, Within which text is found in which *)
(* other one by a case-insensitive search, Order how texts compare.        *)
(* Left out: the refusal of a text of more than 200 characters.            *)
(***************************************************************************)
EXTENDS Integers, Sequences, FiniteSets

CONSTANTS Numerals, Within, Order

Found(text, in) == text = in \/ <<text, in>> \in Within

FilterSpec(kind, columns, stage) ==
  [kind |-> kind, columns |-> columns, stage |-> stage, choices |-> {}, advanced |-> FALSE]

Advanced(spec) == [spec EXCEPT !.advanced = TRUE]

TraceFilters ==
  [q                |-> FilterSpec("search", {"trace", "tool", "server", "method"}, "where"),
   server           |-> Advanced(FilterSpec("select", {"server"}, "where")),
   tool             |-> Advanced(FilterSpec("select", {"tool"}, "where")),
   method           |-> Advanced(FilterSpec("select", {"method"}, "where")),
   transport        |-> [Advanced(FilterSpec("select", {"transport"}, "where"))
                           EXCEPT !.choices = {"", "stdio", "streamable-http"}],
   status           |-> [FilterSpec("predicate", {"category"}, "where")
                           EXCEPT !.choices = {"", "ok", "error"}],
   failure_category |-> Advanced(FilterSpec("select", {"category"}, "where")),
   min_duration_ms  |-> FilterSpec("at_least", {"duration"}, "where"),
   max_duration_ms  |-> FilterSpec("at_most", {"duration"}, "where")]

CapabilityFilters ==
  [q           |-> FilterSpec("search", {"name"}, "where"),
   server      |-> FilterSpec("select", {"server"}, "where"),
   errors_only |-> FilterSpec("toggle", {"errors"}, "having"),
   min_calls   |-> FilterSpec("at_least", {"calls"}, "having"),
   sort        |-> [FilterSpec("select", {}, "sort")
                      EXCEPT !.choices = {"calls", "errors", "p95", "name", "last_seen"}]]

MaxCalls == 1000000

\* The error list is already failures only: it does not offer `status`.
Views ==
  [traces       |-> TraceFilters,
   errors       |-> [k \in DOMAIN TraceFilters \ {"status"} |-> TraceFilters[k]],
   capabilities |-> CapabilityFilters]

IsNumber(spec) == spec.kind \in {"at_least", "at_most"}

-----------------------------------------------------------------------------
(***************************************************************************)
(* Parsing.  A bad number is refused; an unknown choice and an unknown     *)
(* parameter are dropped.  A condition is a record [field, op, value].     *)
(***************************************************************************)

Operators == {"is", "is_not", "contains"}
MaxConditions == 10

Rejected(key, spec, raw) ==
  /\ IsNumber(spec)
  /\ \/ raw \notin DOMAIN Numerals
     \/ Numerals[raw] < 0
     \/ key = "min_calls" /\ Numerals[raw] > MaxCalls

ParsedValue(spec, raw) ==
  IF spec.kind = "toggle" THEN IF raw \in {"1", "true", "yes", "on"} THEN "on" ELSE ""
  ELSE IF spec.choices = {} \/ raw \in spec.choices THEN raw ELSE ""

IsAttr(cond) == cond.field = "attr"

ValidCondition(view, cond) ==
  /\ cond.op \in Operators /\ cond.value # ""
  /\ IF IsAttr(cond) THEN view \in {"traces", "errors"}
                     ELSE /\ cond.field \in DOMAIN Views[view]
                          /\ Views[view][cond.field].advanced

Refused(view, query) ==
  \E k \in DOMAIN query \cap DOMAIN Views[view] :
    query[k] # "" /\ Rejected(k, Views[view][k], query[k])

Parse(view, query, where) ==
  LET specs == Views[view]
      known == {k \in DOMAIN query \cap DOMAIN specs : ParsedValue(specs[k], query[k]) # ""}
      rows  == SubSeq(where, 1, IF Len(where) < MaxConditions THEN Len(where) ELSE MaxConditions)
  IN  [view       |-> view,
       values     |-> [k \in known |-> ParsedValue(specs[k], query[k])],
       conditions |-> {rows[i] : i \in {j \in DOMAIN rows : ValidCondition(view, rows[j])}}]

-----------------------------------------------------------------------------
(***************************************************************************)
(* What the filters keep.                                                  *)
(***************************************************************************)

\* dtos.NOT_A_FAILURE, as the read plane spells it.
NotAFailureSql == {"", "ok", "pending_input", "cancelled", "unauthorized", "forbidden"}

\* A value of 0 is falsy where the clause is built: the filter is not applied.
Compare(spec, number, column) ==
  number = 0 \/ IF spec.kind = "at_least" THEN column >= number ELSE column <= number

Clause(spec, value, row) ==
  CASE spec.kind = "predicate" -> IF value = "error" THEN row.category \notin NotAFailureSql
                                                     ELSE row.category \in {"", "ok"}
    [] spec.kind = "search"    -> \E c \in spec.columns : Found(value, row[c])
    [] spec.kind = "toggle"    -> row.errors > 0
    [] IsNumber(spec)          -> \A c \in spec.columns : Compare(spec, Numerals[value], row[c])
    [] OTHER                   -> \A c \in spec.columns : row[c] = value

Satisfies(op, value, text) ==
  CASE op = "contains" -> Found(value, text)
    [] op = "is_not"   -> text # value
    [] OTHER           -> text = value

\* An attribute condition is about the spans of the trace, whatever their version.
AttrClause(cond, row, spans) ==
  \E r \in spans : /\ r.trace = row.trace
                   /\ cond.op = "is_not" => "custom" \in DOMAIN r.attributes
                   /\ Satisfies(cond.op, cond.value,
                                IF "custom" \in DOMAIN r.attributes THEN r.attributes["custom"] ELSE "")

ConditionClause(view, cond, row, spans) ==
  IF IsAttr(cond) THEN AttrClause(cond, row, spans)
  ELSE \A c \in Views[view][cond.field].columns : Satisfies(cond.op, cond.value, row[c])

\* spans is the tenant's part of spans_raw inside the window.
Keeps(filters, stage, row, spans) ==
  /\ \A k \in DOMAIN filters.values :
       Views[filters.view][k].stage = stage => Clause(Views[filters.view][k], filters.values[k], row)
  /\ stage = "where" => \A cond \in filters.conditions :
                          ConditionClause(filters.view, cond, row, spans)

\* The order of a capability table, best first.  What ties is left open by the SQL's
\* ORDER BY and listed by name here.
SortsBefore(filters, a, b) ==
  LET key == IF "sort" \in DOMAIN filters.values THEN filters.values["sort"] ELSE "calls"
      by(r) == CASE key = "errors"    -> <<r.errors, r.calls>>
                 [] key = "last_seen" -> <<r.last, 0>>
                 [] key = "p95"       -> <<r.slowest, 0>>
                 [] key = "name"      -> <<0, 0>>
                 [] OTHER             -> <<r.calls, 0>>
  IN  \/ by(a)[1] > by(b)[1]
      \/ by(a)[1] = by(b)[1] /\ by(a)[2] > by(b)[2]
      \/ by(a) = by(b) /\ Order[a.name] < Order[b.name]

-----------------------------------------------------------------------------
(***************************************************************************)
(* The filter panel: the values a select offers, from the data in view.    *)
(***************************************************************************)

\* options is a record of sets; spec.columns names the one a select draws from.
Offered(view, key, options) ==
  LET spec == Views[view][key]
  IN  IF spec.choices # {} THEN spec.choices
      ELSE UNION {options[c] : c \in spec.columns \cap DOMAIN options}
=============================================================================
