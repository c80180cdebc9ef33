------------------------------ MODULE Capture -------------------------------
(***************************************************************************)
(* One MCP server process with one of the two SDKs in it: it is            *)
(* instrumented and started, serves concurrent calls, and each call ends   *)
(* with a span the normalizer classifies (SpanRow).  The spans a call      *)
(* emits while it runs are Streaming's; a call is the parent of its        *)
(* progress spans.                                                         *)
(*                                                                         *)
(* An outcome is how the handler ended: ends ("returns", "raises" or       *)
(* "cancelled"), the result (of a raise, its message), the error code of a *)
(* raise, and the truth, which nothing but the properties read: the        *)
(* category an observer inside the server would give it.                   *)
(***************************************************************************)
EXTENDS Streaming, Annotation

CONSTANTS Contexts,    \* the requests clients make
          Outcomes,    \* Outcomes[sdk]: what handlers do with them
          Transports,  \* the values instrument() and run() are given
          CustomKeys,  \* the keys customers set on a running call
          Options      \* what instrument() is told to capture

Known == {"stdio", "streamable-http", "sse"}

\* set_custom_attribute never writes the raw key.
CustomKey(key) == "mcpobs.custom." \o key

SdkKeys == {"mcp.method.name", "gen_ai.tool.name", "gen_ai.prompt.name", "error.type",
            "network.transport", "mcpobs.failure.kind_source"}

ASSUME RequestsAssumption ==
  /\ \A ctx \in Contexts : ctx.method # ""
  /\ \A key \in CustomKeys : CustomKey(key) \notin SdkKeys \cup HelperKeys \cup
                               {"mcp.result.type", "rpc.response.status_code"}

\* What the MCP SDKs make of a handler's outcome, which the classifiers rely on:
\* how a failure is marked, and that their words for a failure they answer
\* themselves are in no other answer (classifier.py 171-208, classifier.ts 89-113).
PythonOutcome(o) ==
  /\ o.ends \in {"returns", "raises", "cancelled"}
  /\ o.truth = "cancelled" <=> o.ends = "cancelled"
  /\ o.ends = "raises" =>
       /\ o.result.isError
       /\ o.code \notin {"", "tool_error"}
       /\ o.truth = IF o.code \in NumericCodes THEN "protocol_error" ELSE "server_exception"
  /\ o.ends = "returns" =>
       /\ o.truth \in FailureKind \cup {"ok", "pending_input"}
       /\ o.truth \in FailureKind <=> o.result.isError
       /\ o.truth = "pending_input" <=> o.result.resultType = "input_required"
       /\ o.result.isError /\ o.result.contentIsList =>
            LET text == FirstText(o.result)
            IN  /\ o.truth = "unclassified" <=> text.says = <<>>
                /\ o.truth = "unknown_tool" <=> StartsWith(text, "Unknown tool:")
                /\ o.truth \in {"invalid_arguments", "server_exception"}
                     <=> StartsWith(text, "Error executing tool ")
                /\ o.truth = "invalid_arguments" => Says(text, "1 validation error for ")

JsOutcome(o) ==
  /\ o.ends \in {"returns", "raises"}
  /\ o.ends = "raises" => o.result.isError
  /\ o.truth \in FailureKind \cup {"ok", "cancelled", "protocol_error"}
  /\ o.truth # "cancelled" => (o.truth = "ok" <=> ~ o.result.isError)
  /\ o.truth \in FailureKind \ {"server_exception"}
       /\ JsFirstText(o.result) = FirstText(o.result) =>
       LET text == FirstText(o.result)
       IN  /\ o.truth = "unclassified" <=> text.says = <<>>
           /\ o.truth = "unknown_tool"
                <=> Says(text, "Tool x not found") \/ Says(text, "Tool x disabled")
           /\ o.truth = "invalid_arguments"
                <=> Says(text, "Input validation error: Invalid arguments for tool")

ASSUME OutcomesAssumption ==
  /\ \A o \in Outcomes["python"] : PythonOutcome(o)
  /\ \A o \in Outcomes["javascript"] : JsOutcome(o)

VARIABLES sdk,        \* the SDK of this server
          options,    \* [detail, payloads]
          attached,   \* what passes through the SDK: "nothing", "calls", or, patched
                      \* after the handlers were registered, nothing: "too late"
          transport,  \* [value, explicit]: _current and _explicit
          told,       \* the last known transport someone named explicitly
          served,     \* the transport the server runs on, "" before it runs
          byRun,      \* whether server.run() started it, and so named that transport
          calls       \* the state of each call

setupVars   == <<sdk, options, attached, transport, told, served, byRun>>
captureVars == <<setupVars, calls>>

CaptureInit ==
  /\ StreamInit
  /\ sdk \in {"python", "javascript"}
  /\ options \in Options
  /\ attached = "nothing"
  /\ transport = [value |-> "", explicit |-> FALSE]
  /\ told = ""
  /\ served = ""
  /\ byRun = FALSE
  /\ calls = [c \in Parents |-> [phase |-> "idle"]]

-----------------------------------------------------------------------------
(***************************************************************************)
(* Startup.                                                                *)
(***************************************************************************)

SetLatest(value, explicit) ==         \* mutated: the last value wins
  transport' = IF value \in Known THEN [value |-> value, explicit |-> explicit] ELSE transport

\* set_transport: an explicit value is never overwritten by a guess.
SetTransport(value, explicit) ==
  transport' = IF value \in Known /\ (explicit \/ ~ transport.explicit)
               THEN [value |-> value, explicit |-> transport.explicit \/ explicit]
               ELSE transport

\* instrument(server, transport=value), any number of times; "" is None.
PyInstrument(value) ==
  /\ sdk = "python" /\ served = ""
  /\ SetTransport(value, value # "")
  /\ attached' = "calls"
  /\ told' = IF value \in Known THEN value ELSE told
  /\ UNCHANGED <<sdk, options, served, byRun, calls, streamVars>>

\* instrument({transport}): the first call only, stdio unless told otherwise.
JsInstrument(value) ==
  /\ sdk = "javascript" /\ attached = "nothing"
  /\ SetTransport(IF value = "" THEN "stdio" ELSE value, value # "")
  /\ attached' = IF served = "" THEN "calls" ELSE "too late"
  /\ told' = IF value \in Known THEN value ELSE told
  /\ UNCHANGED <<sdk, options, served, byRun, calls, streamVars>>

\* instrument_asgi(app), of whatever app the customer built, before or after
\* instrument(): it guesses streamable HTTP.
InstrumentAsgi ==
  /\ sdk = "python" /\ served = ""
  /\ SetTransport("streamable-http", FALSE)
  /\ UNCHANGED <<sdk, options, attached, told, served, byRun, calls, streamVars>>

\* server.run(value), through the wrapper observe_run put around it.
PyRun(value) ==
  /\ sdk = "python" /\ served = "" /\ value \in Known
  /\ IF attached = "calls" THEN SetTransport(value, FALSE) ELSE UNCHANGED transport
  /\ served' = value /\ byRun' = TRUE
  /\ UNCHANGED <<sdk, options, attached, told, calls, streamVars>>

\* The customer drives the app of streamable_http_app() or sse_app() without run().
ServeApp(value) ==
  /\ sdk = "python" /\ served = "" /\ value \in {"streamable-http", "sse"}
  /\ served' = value
  /\ UNCHANGED <<sdk, options, attached, transport, told, byRun, calls, streamVars>>

\* The Node server registers its handlers, through the patched method or past it,
\* and connects to any transport.
JsRun(value) ==
  /\ sdk = "javascript" /\ served = "" /\ value \in Known
  /\ served' = value
  /\ UNCHANGED <<sdk, options, attached, transport, told, byRun, calls, streamVars>>

-----------------------------------------------------------------------------
(***************************************************************************)
(* Calls.                                                                  *)
(***************************************************************************)

\* The MCP SDK, or runWithSpan, opens the call's span.
Begin(c, ctx) ==
  /\ served # "" /\ calls[c].phase = "idle"
  /\ calls' = [calls EXCEPT ![c] =
                 [phase      |-> "running",
                  ctx        |-> ctx,
                  attributes |-> IF sdk = "python" THEN SdkOpened(ctx)
                                 ELSE JsOpened(options, transport.value, ctx)]]
  /\ UNCHANGED <<setupVars, streamVars>>

\* set_custom_attribute in a handler.
SetCustom(c, key) ==
  /\ calls[c].phase = "running"
  /\ calls' = [calls EXCEPT ![c].attributes = Stamped(@, {<<CustomKey(key), "mine">>})]
  /\ UNCHANGED <<setupVars, streamVars>>

\* The TypeScript SDK makes no spans: a handler that is not wrapped leaves none.
NoSpan == [kind |-> "", status |-> "", exception |-> FALSE, attributes |-> <<>>]

WithoutCancel(attributes, ctx, outcome) ==   \* mutated: a cancellation passes it by
  IF attached = "calls" /\ outcome.ends = "returns"
  THEN Annotated(attributes, options, transport.value, ctx, outcome.result)
  ELSE attributes

\* The middleware's part of the span, whichever way call_next ended: an
\* exception other than a cancellation passes it by.
HelperAttributes(attributes, ctx, outcome) ==
  IF attached # "calls" \/ outcome.ends = "raises" THEN attributes
  ELSE IF outcome.ends = "cancelled" THEN MarkedCancelled(attributes, transport.value)
  ELSE Annotated(attributes, options, transport.value, ctx, outcome.result)

PySpan(attributes, ctx, outcome) ==
  SdkClosed(HelperAttributes(attributes, ctx, outcome), outcome)

JsSpan(attributes, outcome) ==
  IF attached = "calls" THEN JsFinished(attributes, options, outcome) ELSE NoSpan

\* The call is over: its span ends.
Ends(c, span, outcome) ==
  /\ calls' = [calls EXCEPT ![c] = [phase   |-> "done",
                                    ctx     |-> calls[c].ctx,
                                    outcome |-> outcome,
                                    span    |-> span]]
  /\ UNCHANGED <<setupVars, streamVars>>

PyEnds(c, outcome) ==
  /\ sdk = "python" /\ calls[c].phase = "running"
  /\ Ends(c, PySpan(calls[c].attributes, calls[c].ctx, outcome), outcome)

JsEnds(c, outcome) ==
  /\ sdk = "javascript" /\ calls[c].phase = "running"
  /\ Ends(c, JsSpan(calls[c].attributes, outcome), outcome)

\* ctx.report_progress from a call's handler, or from a task that outlives it.
Progress(c) ==
  /\ sdk = "python" /\ calls[c].phase # "idle"
  /\ Report(c)
  /\ UNCHANGED captureVars

Publish(e) ==
  /\ sdk = "python" /\ served # ""
  /\ PublishBegins(e) \/ PublishDelivers(e) \/ PublishFails(e)
  /\ UNCHANGED captureVars

CaptureNext ==
  \/ \E value \in Transports \cup {""} : PyInstrument(value) \/ JsInstrument(value)
  \/ InstrumentAsgi
  \/ \E value \in Known : PyRun(value) \/ ServeApp(value) \/ JsRun(value)
  \/ \E c \in Parents :
       \/ \E ctx \in Contexts : Begin(c, ctx)
       \/ \E key \in CustomKeys : SetCustom(c, key)
       \/ \E outcome \in Outcomes[sdk] : PyEnds(c, outcome) \/ JsEnds(c, outcome)
       \/ Progress(c)
  \/ \E e \in Events : Publish(e)

CaptureSpec == CaptureInit /\ [][CaptureNext]_<<captureVars, streamVars>>
-----------------------------------------------------------------------------
Running == {c \in Parents : calls[c].phase = "running"}
Done    == {c \in Parents : calls[c].phase = "done"}
WithSpan == {c \in Done : calls[c].span # NoSpan}

Truth(c)    == calls[c].outcome.truth
Category(c) == Classify(calls[c].span)
Result(c)   == calls[c].outcome.result

CaptureTypeOK ==
  /\ StreamTypeOK
  /\ attached \in {"nothing", "calls", "too late"}
  /\ transport.value \in Known \cup {""}
  /\ served \in Known \cup {""}
  /\ \A c \in Running : DOMAIN calls[c].attributes \subseteq
       SdkKeys \cup HelperKeys \cup {CustomKey(key) : key \in CustomKeys}
  /\ \A c \in WithSpan :
       Attr(calls[c].span, "mcpobs.failure.kind") \in FailureKind \cup JsKinds \cup {""}

\* The renderer of payload previews raised, and with it the whole annotation.
Unrendered(c) ==
  options.payloads /\ "deep" \in {calls[c].ctx.payload, Result(c).payload}

\* Whether a stored call failed is never in doubt: with the helper or without
\* it, whatever part of the annotation raised and whatever the customer's own
\* attributes are called, the row of a call is an error exactly when the call
\* failed.  (JavaScript: of the calls that were not cancelled; an aborted
\* handler answers with an error result, and the SDK has no mark for it.)
ErrorMeansFailed ==
  \A c \in WithSpan :
    sdk = "python" \/ Truth(c) # "cancelled" =>
      (IsError(Category(c)) <=> Truth(c) \notin {"ok", "cancelled", "pending_input"})

\* With the helper attached, the category the query side shows is the one an
\* observer inside the server would have given the call.  Not when the tool's
\* own message repeats the SDK's words, nor when the annotation raised.
CategoryIsTrue ==
  \A c \in WithSpan :
    \/ attached # "calls"
    \/ sdk = "python" /\ (Unrendered(c) \/ ~ Result(c).contentIsList)
    \/ Truth(c) = "server_exception" /\ Says(FirstText(Result(c)), "1 validation error for ")
    \/ sdk = "javascript" /\ Truth(c) \in {"cancelled", "server_exception", "protocol_error"}
    \/ sdk = "javascript" /\ JsFirstText(Result(c)) # FirstText(Result(c))
    \/ Category(c) = Truth(c)

\* No call that ended because the client stopped waiting, and no interim round,
\* is a latency sample: its duration is not the tool's.
SamplesAreWholeCalls ==
  \A c \in WithSpan :
    attached = "calls" /\ sdk = "python" /\ ~ Unrendered(c)
      /\ Truth(c) \in {"cancelled", "pending_input"} => ~ IsLatencyEligible(calls[c].span)

\* Error text leaves the process for failing calls only, and only when asked.
DetailOnFailureOnly ==
  \A c \in WithSpan :
    "mcpobs.failure.detail" \in DOMAIN calls[c].span.attributes =>
      options.detail /\ Result(c).isError

\* The two guesses the SDKs make: any ASGI app speaks streamable HTTP (asgi.py 67),
\* a Node server stdio (index.ts 90).
IsGuess(value) ==
  \/ sdk = "python" /\ ~ byRun /\ value = "streamable-http"
  \/ sdk = "javascript" /\ value = "stdio"

\* The transport on a span is the one somebody named, whatever the SDK guessed before
\* or after; if nobody did, it is the one run() was called with, whatever was guessed
\* before.  Only a server that neither names it nor is started by run() can have a
\* wrong one on its spans, and then it is one of the two guesses.  (transport.py 28
\* says "a guess would be worse than a blank".)
OnlyGuessesAreWrong ==
  \A c \in WithSpan :
    LET stamped == Attr(calls[c].span, "network.transport")
    IN  stamped # "" =>
          /\ told # "" => stamped = told
          /\ told = "" => stamped = served \/ IsGuess(stamped)

\* What is stored of a call tells whether it failed and how, and no more than
\* the operator allowed.
FailuresAreTrue ==
  /\ CaptureTypeOK
  /\ ErrorMeansFailed
  /\ CategoryIsTrue
  /\ DetailOnFailureOnly
=============================================================================
