----------------------------- MODULE Annotation -----------------------------
(***************************************************************************)
(* What the two SDKs write on the span of one MCP request, as operators    *)
(* over the request, the result and the SDK's options: the Python helper   *)
(* (mcpobs/classifier.py, middleware.py, payload.py) and the JavaScript    *)
(* one (mcpobs-js/src/classifier.ts, dispatch.ts, payload.ts).             *)
(*                                                                         *)
(* A text is [says |-> the sequence of its phrases, long |-> whether it is *)
(* over the limit on captured error text].  A result is a record isError,  *)
(* content (a sequence of blocks [type, text]), contentIsList, resultType, *)
(* state (the requestState it emits) and payload; a request ctx is a       *)
(* record method, name, uri, client, state and payload.  A payload is      *)
(* "small", "large" (over the preview's limit) or "deep" (nested beyond    *)
(* what a recursive renderer survives).                                    *)
(***************************************************************************)
EXTENDS SpanRow

\* A set of <<key, value>> pairs, set on a span in place of what it had there.
\* An empty value is not set: every caller tests the value first.
Stamped(attributes, pairs) ==
  LET given == {pair \in pairs : pair[2] # ""}
      keys  == {pair[1] : pair \in given}
  IN  [key \in DOMAIN attributes \cup keys |->
         IF key \in keys THEN (CHOOSE pair \in given : pair[1] = key)[2]
                         ELSE attributes[key]]

NoText == [says |-> <<>>, long |-> FALSE]

\* The text of the first block of content that is Wanted.
FirstOf(content, Wanted(_)) ==
  LET found == {i \in DOMAIN content : Wanted(content[i])}
  IN  IF found = {} THEN NoText
      ELSE content[CHOOSE i \in found : \A j \in found : i <= j].text

Says(text, phrase) == \E i \in DOMAIN text.says : text.says[i] = phrase

StartsWith(text, phrase) == text.says # <<>> /\ text.says[1] = phrase

\* The captured text, cut at 512 characters.
Detail(text) ==
  FirstRule(<< <<text.says = <<>>, "">>, <<text.long, "cut at 512">>, <<TRUE, "whole">> >>)

\* The keys the Python helper sets, beside the payload previews and transport.
HelperKeys ==
  {"mcpobs.failure.kind", "mcpobs.failure.kind.version", "mcpobs.failure.detail",
   "mcpobs.result.type", "mcpobs.mrtr.state.out", "mcpobs.mrtr.state.in",
   "mcp.resource.uri", "mcpobs.cancelled", "mcpobs.client.name",
   "gen_ai.tool.call.arguments", "gen_ai.tool.call.result",
   "mcpobs.request.size", "mcpobs.response.size"}

-----------------------------------------------------------------------------
(***************************************************************************)
(* Python: FailureClassifier.                                              *)
(***************************************************************************)

FailureKind ==
  {"tool_error", "server_exception", "unknown_tool", "invalid_arguments", "unclassified"}

KindByPrefix(text) ==   \* mutated: the execution prefix is looked for first
  FirstRule(<<
    <<text.says = <<>>, "unclassified">>,
    <<StartsWith(text, "Unknown tool:"), "unknown_tool">>,
    <<StartsWith(text, "Error executing tool "), "server_exception">>,
    <<TRUE, "tool_error">> >>)

KindOf(text) ==
  FirstRule(<<
    <<text.says = <<>>, "unclassified">>,
    <<StartsWith(text, "Unknown tool:"), "unknown_tool">>,
    <<StartsWith(text, "Error executing tool ") /\ Says(text, "1 validation error for "),
      "invalid_arguments">>,
    <<StartsWith(text, "Error executing tool "), "server_exception">>,
    <<TRUE, "tool_error">> >>)

\* The first block that carries text, of whatever type.
FirstText(result) == FirstOf(result.content, LAMBDA block : block.text.says # <<>>)

ErrorDetail(result) == Detail(FirstText(result))

\* The blob a round emits or receives appears only as its hash.
MrtrState(blob) == IF blob = "" THEN "" ELSE "sha256 of " \o blob

-----------------------------------------------------------------------------
(***************************************************************************)
(* Python: what the middleware adds when the handler has returned.         *)
(***************************************************************************)

\* _render: the preview is cut at 2048 characters, the size is not.
Preview(payload) == IF payload = "large" THEN "large, cut" ELSE payload

PreviewStamps(previewKey, sizeKey, payload) ==
  {<<previewKey, Preview(payload)>>, <<sizeKey, payload>>}

\* _capture_payload renders the request, then the response; a payload nested too
\* deep raises out of _annotate.
RendersRequest(options, ctx) == ~ (options.payloads /\ ctx.payload = "deep")

Renders(options, ctx, result) ==
  RendersRequest(options, ctx) /\ ~ (options.payloads /\ result.payload = "deep")

\* An interim round is not classified, nor is what did not fail; content that is
\* no list raises.
Classifies(options, ctx, result) ==
  /\ Renders(options, ctx, result)
  /\ result.resultType # "input_required"
  /\ result.isError /\ result.contentIsList

\* Who called, what was read, and the two ends of an MRTR round.
IdentityStamps(ctx, result) ==
  {<<"mcpobs.client.name", ctx.client>>, <<"mcp.resource.uri", ctx.uri>>,
   <<"mcpobs.mrtr.state.out", MrtrState(result.state)>>,
   <<"mcpobs.mrtr.state.in", MrtrState(ctx.state)>>,
   <<"mcpobs.result.type", IF result.resultType = "complete" THEN "" ELSE result.resultType>>}

FailureStamps(options, result) ==
  {<<"mcpobs.failure.kind", KindOf(FirstText(result))>>,
   <<"mcpobs.failure.kind.version", "2">>,
   <<"mcpobs.failure.detail", IF options.detail THEN ErrorDetail(result) ELSE "">>}

If(test, pairs) == IF test THEN pairs ELSE {}

Annotated(attributes, options, transport, ctx, result) ==
  Stamped(attributes,
    {<<"network.transport", transport>>}
      \cup If(options.payloads /\ RendersRequest(options, ctx),
              PreviewStamps("gen_ai.tool.call.arguments", "mcpobs.request.size", ctx.payload))
      \cup If(options.payloads /\ Renders(options, ctx, result),
              PreviewStamps("gen_ai.tool.call.result", "mcpobs.response.size", result.payload))
      \cup If(Renders(options, ctx, result), IdentityStamps(ctx, result))
      \cup If(Classifies(options, ctx, result), FailureStamps(options, result)))

\* _mark_cancelled, on the path _annotate never reaches.
MarkedCancelled(attributes, transport) ==
  Stamped(attributes, {<<"mcpobs.cancelled", "true">>, <<"network.transport", transport>>})

-----------------------------------------------------------------------------
(***************************************************************************)
(* Python: the MCP SDK's own span, which the helper annotates.             *)
(***************************************************************************)

SdkOpened(ctx) ==
  Stamped(<<>>, {<<"mcp.method.name", ctx.method>>,
                 <<IF ctx.method = "prompts/get" THEN "gen_ai.prompt.name"
                                                 ELSE "gen_ai.tool.name", ctx.name>>})

\* Every failing result is the same tool_error, an exception names its code, a
\* cancellation leaves no trace.
ErrorType(outcome) ==
  IF outcome.ends = "raises" THEN outcome.code
  ELSE IF outcome.ends = "returns" /\ outcome.result.isError THEN "tool_error" ELSE ""

\* The span as the SDK closes it.
SdkClosed(attributes, outcome) ==
  [kind       |-> "SERVER",
   status     |-> IF outcome.ends # "cancelled" /\ outcome.result.isError
                  THEN "ERROR" ELSE "UNSET",
   exception  |-> outcome.ends = "raises",
   attributes |-> Stamped(attributes, {<<"error.type", ErrorType(outcome)>>})]

-----------------------------------------------------------------------------
(***************************************************************************)
(* JavaScript: classify, and the span runWithSpan opens and finish closes. *)
(***************************************************************************)

JsKinds == {"ok", "unknown_tool", "invalid_arguments", "tool_error", "unclassified"}

\* The kind and where it was read from.  The SDK's phrases are looked for
\* anywhere in the text: they arrive behind a prefix.
JsClassify(text, isError) ==
  FirstRule(<<
    <<~ isError, [kind |-> "ok", source |-> "clean"]>>,
    <<text.says = <<>>, [kind |-> "unclassified", source |-> "unclassified"]>>,
    <<Says(text, "Tool x not found") \/ Says(text, "Tool x disabled"),
      [kind |-> "unknown_tool", source |-> "sdk-dispatch"]>>,
    <<Says(text, "Input validation error: Invalid arguments for tool"),
      [kind |-> "invalid_arguments", source |-> "sdk-dispatch"]>>,
    <<TRUE, [kind |-> "tool_error", source |-> "is-error-flag"]>> >>)

\* The first block of type text, even an empty one; a thrown Error's message.
JsFirstText(result) ==
  IF result.contentIsList THEN FirstOf(result.content, LAMBDA block : block.type = "text")
                          ELSE NoText

JsClassifyResult(outcome) ==
  JsClassify(JsFirstText(outcome.result), outcome.ends = "raises" \/ outcome.result.isError)

\* capturePayload: a value too deep to redact is caught and captured as nothing.
JsPreviewStamps(previewKey, sizeKey, payload) ==
  IF payload = "deep" THEN {<<sizeKey, "0">>} ELSE PreviewStamps(previewKey, sizeKey, payload)

NamedArg(ctx) ==
  CASE ctx.method = "tools/call"     -> <<"gen_ai.tool.name", ctx.name>>
    [] ctx.method = "prompts/get"    -> <<"gen_ai.prompt.name", ctx.name>>
    [] ctx.method = "resources/read" -> <<"mcp.resource.uri", ctx.uri>>
    [] OTHER                         -> <<"", "">>

JsOpened(options, transport, ctx) ==
  Stamped(<<>>,
    {<<"mcp.method.name", ctx.method>>, NamedArg(ctx), <<"network.transport", transport>>}
      \cup If(options.payloads,
              JsPreviewStamps("gen_ai.tool.call.arguments", "mcpobs.request.size", ctx.payload)))

JsFinished(attributes, options, outcome) ==
  LET classification == JsClassifyResult(outcome)
      failed         == classification.kind # "ok"
  IN  [kind       |-> "INTERNAL",
       status     |-> IF failed THEN "ERROR" ELSE "OK",
       exception  |-> FALSE,
       attributes |->
         Stamped(attributes,
           {<<"mcpobs.failure.kind", classification.kind>>,
            <<"mcpobs.failure.kind.version", "1">>,
            <<"mcpobs.failure.kind_source", classification.source>>}
             \cup If(options.payloads,
                     JsPreviewStamps("gen_ai.tool.call.result", "mcpobs.response.size",
                                     outcome.result.payload))
             \cup If(failed /\ options.detail,
                     {<<"mcpobs.failure.detail", Detail(JsFirstText(outcome.result))>>}))]
=============================================================================
