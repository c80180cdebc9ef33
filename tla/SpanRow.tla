------------------------------ MODULE SpanRow ------------------------------
(***************************************************************************)
(* One decoded span becomes one row of spans_raw: the failure taxonomy     *)
(* (normalizer/taxonomy.py) and the columns derived from it                *)
(* (normalizer/normalize.py).                                              *)
(*                                                                         *)
(* A decoded span s is a record with its identity, its span_kind and       *)
(* status_code, and `attributes`, a function from the attribute keys it    *)
(* carries to their values.  Only the keys some column or category depends *)
(* on are kept; an absent key and an empty value read alike, as the code's *)
(* .get(...) and _str make them.                                           *)
(***************************************************************************)
EXTENDS Integers, Sequences, FiniteSets

Attr(s, key) == IF key \in DOMAIN s.attributes THEN s.attributes[key] ELSE ""

\* The value of the first rule whose guard holds: an early return per rule.
FirstRule(rules) ==
  rules[CHOOSE i \in DOMAIN rules :
          rules[i][1] /\ \A j \in 1 .. i - 1 : ~ rules[j][1]][2]

\* _first: the first key that carries a value, current names before legacy ones.
FirstAttr(s, keys) ==
  LET carried == {i \in DOMAIN keys : Attr(s, keys[i]) # ""}
  IN  IF carried = {} THEN ""
      ELSE Attr(s, keys[CHOOSE i \in carried : \A j \in carried : i <= j])

IsMcp(s) == "mcp.method.name" \in DOMAIN s.attributes

HttpStatus(s) == FirstAttr(s, <<"http.response.status_code", "http.status_code">>)

ResultType(s) == FirstAttr(s, <<"mcp.result.type", "mcpobs.result.type">>)

NumericCodes == {"-32602", "-32603", "-32601"}

-----------------------------------------------------------------------------
(***************************************************************************)
(* The taxonomy.                                                           *)
(***************************************************************************)

TransportAuth(s) ==
  FirstRule(<< <<s.kind # "SERVER", "">>,
               <<HttpStatus(s) = "401", "unauthorized">>,
               <<HttpStatus(s) = "403", "forbidden">>,
               <<TRUE, "">> >>)

Classify(s) ==
  LET errorType == Attr(s, "error.type")
      helper    == Attr(s, "mcpobs.failure.kind")
      failed    == s.status = "ERROR"
  IN  FirstRule(<<
        <<~ IsMcp(s), TransportAuth(s)>>,
        <<ResultType(s) = "input_required", "pending_input">>,
        <<Attr(s, "mcpobs.cancelled") # "", "cancelled">>,
        <<helper # "", helper>>,
        <<errorType = "" /\ ~ failed, "ok">>,
        <<errorType = "tool_error", "tool_error">>,
        <<errorType \in NumericCodes
            \/ Attr(s, "rpc.response.status_code") \in NumericCodes, "protocol_error">>,
        <<errorType # "" \/ s.exception, "server_exception">>,
        <<TRUE, "unclassified">> >>)

\* The categories that are outcomes a client chose, not failures.
NotAFailure == {"ok", "pending_input", "cancelled", "unauthorized", "forbidden"}

IsError(category) == category # "" /\ category \notin NotAFailure

\* Matched by prefix; a method here stands for all that begin with it.
NonLatencyMethods ==
  {"subscriptions/listen", "sampling/createMessage", "elicitation/create", "roots/list"}

IsLatencyEligible(s) ==
  /\ Attr(s, "mcp.method.name") \notin NonLatencyMethods
  /\ Attr(s, "mcpobs.cancelled") = ""
  /\ ResultType(s) # "input_required"

HelperMarkers == {"mcpobs.failure.kind", "mcpobs.cancelled", "mcpobs.result.type"}

Source(s) == IF HelperMarkers \cap DOMAIN s.attributes # {} THEN "helper" ELSE "span"

-----------------------------------------------------------------------------
(***************************************************************************)
(* The row.  version is the normalization_version of the code that writes  *)
(* it: a replay after a taxonomy change writes the same span again under a *)
(* higher version.                                                         *)
(***************************************************************************)

DownstreamKind(s) ==
  FirstRule(<< <<IsMcp(s), "">>,
               <<Attr(s, "gen_ai.system") # "", "llm">>,
               <<FirstAttr(s, <<"db.system.name", "db.system">>) # "", "db">>,
               <<FirstAttr(s, <<"http.request.method", "http.method">>) # "", "http">>,
               <<Attr(s, "messaging.system") # "", "messaging">>,
               <<TRUE, "internal">> >>)

ToRow(s, version) ==
  [tenant     |-> IF s.tenant = "" THEN "local" ELSE s.tenant,
   trace      |-> s.trace,
   span       |-> s.span,
   parent     |-> s.parent,
   time       |-> s.start,
   duration   |-> s.duration,
   server     |-> s.service,
   method     |-> Attr(s, "mcp.method.name"),
   tool       |-> Attr(s, "gen_ai.tool.name"),
   prompt     |-> Attr(s, "gen_ai.prompt.name"),
   resource   |-> Attr(s, "mcp.resource.uri"),
   transport  |-> Attr(s, "network.transport"),
   attributes |-> s.attributes,
   category   |-> Classify(s),
   error      |-> IsError(Classify(s)),
   source     |-> IF IsMcp(s) THEN Source(s) ELSE "",
   eligible   |-> IsLatencyEligible(s),
   downstream |-> DownstreamKind(s),
   version    |-> version]
=============================================================================
