----------------------------- MODULE MCCapture ------------------------------
EXTENDS Capture, TLC

CONSTANTS c1, c2, c3

Text(says) == [says |-> says, long |-> FALSE]
Block(says) == [type |-> "text", text |-> Text(says)]

Answer(isError, content) ==
  [isError |-> isError, content |-> content, contentIsList |-> TRUE,
   resultType |-> "complete", state |-> "", payload |-> "small"]

Returns(truth, result) ==
  [ends |-> "returns", truth |-> truth, code |-> "", result |-> result]

Raises(truth, code, says) ==
  [ends |-> "raises", truth |-> truth, code |-> code, result |-> Answer(TRUE, <<Block(says)>>)]

\* What a tool does in either language; what the SDKs say of it differs.
Common ==
  {Returns("ok", Answer(FALSE, <<Block(<<"done">>)>>)),
   Returns("tool_error", Answer(TRUE, <<Block(<<>>), Block(<<"boom">>)>>)),
   Returns("unclassified", Answer(TRUE, <<>>))}

PythonOutcomes ==
  Common \cup
  {Returns("unknown_tool", Answer(TRUE, <<Block(<<"Unknown tool:", "x">>)>>)),
   Returns("invalid_arguments",
     Answer(TRUE, <<Block(<<"Error executing tool ", "x", "1 validation error for ">>)>>)),
   Returns("server_exception",
     [Answer(TRUE, <<Block(<<"Error executing tool ", "x", "boom">>)>>) EXCEPT
        !.content[1].text.long = TRUE, !.payload = "deep"]),
   Returns("tool_error", [Answer(TRUE, <<>>) EXCEPT !.contentIsList = FALSE]),
   Returns("pending_input",
     [Answer(FALSE, <<>>) EXCEPT !.resultType = "input_required", !.state = "answers"]),
   Raises("protocol_error", "-32602", <<"Unknown prompt">>),
   [ends |-> "cancelled", truth |-> "cancelled", code |-> "", result |-> Answer(FALSE, <<>>)]}

JsOutcomes ==
  Common \cup
  {Returns("tool_error", Answer(TRUE, <<Block(<<"boom">>)>>)),
   Returns("unknown_tool", Answer(TRUE, <<Block(<<"MCP error -32602: ", "Tool x not found">>)>>)),
   Returns("invalid_arguments",
     Answer(TRUE, <<Block(<<"MCP error -32602: ",
                            "Input validation error: Invalid arguments for tool">>)>>)),
   Returns("cancelled", Answer(TRUE, <<Block(<<"aborted">>)>>)),
   Raises("protocol_error", "-32602", <<"Unknown prompt">>)}

MCOutcomes == [language \in {"python", "javascript"} |->
                 IF language = "python" THEN PythonOutcomes ELSE JsOutcomes]

Request(method, name, uri, state, payload) ==
  [method |-> method, name |-> name, uri |-> uri, client |-> "client", state |-> state,
   payload |-> payload]

MCContexts == {Request("tools/call", "x", "", "answers", "large"),
               Request("resources/read", "", "uri", "", "small")}

MCOptions == {[detail |-> TRUE, payloads |-> TRUE], [detail |-> FALSE, payloads |-> FALSE],
              [detail |-> TRUE, payloads |-> FALSE]}

Symmetric == Permutations(Parents)

\* Calls share the transport and the progress counter and nothing else, and
\* neither reads a call's outcome: at most one call at a time is not plain, and
\* none while something is streamed.
Plain(c) ==
  /\ calls[c].phase # "idle" => calls[c].ctx.method = "resources/read"
  /\ calls[c].phase = "running" => CustomKey("mcpobs.failure.kind") \notin DOMAIN calls[c].attributes
  /\ calls[c].phase = "done" => calls[c].outcome.truth = "ok"

Streams == reports > 0 \/ published > 0 \/ publishing # {}

Bounded ==
  /\ \A c, d \in Parents : Plain(c) \/ Plain(d) \/ c = d
  /\ Streams => options.detail /\ told = "" /\ \A c \in Parents : Plain(c)

MCNext == CaptureNext /\ Bounded'

MCSpec == CaptureInit /\ [][MCNext]_<<captureVars, streamVars>>
=============================================================================
