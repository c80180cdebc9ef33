------------------------------ MODULE Sampling ------------------------------
(***************************************************************************)
(* The Python SDK's tail sampling: the spans of a trace are buffered until *)
(* its root ends and are then forwarded or dropped together; past a limit  *)
(* the oldest incomplete trace is evicted (src/mcpobs/sampling.py).        *)
(*                                                                         *)
(* Spans end on any thread and in any order the application allows: a      *)
(* child before its root, unless its trace is one whose children may end   *)
(* late.  A call that continues a trace begun elsewhere (the traceparent   *)
(* of its _meta) has a root with a remote parent.  on_end's critical       *)
(* section is one step; the forwarding after it is one step per span, so   *)
(* other calls come in between.  The wrapped processor is external.        *)
(***************************************************************************)
EXTENDS Integers, FiniteSets

CONSTANTS
    Traces,         \* trace ids
    Children,       \* names of the spans below a root
    Remote,         \* traces whose root has a remote parent
    Late,           \* traces whose children may outlive the root
    Modes,          \* modes to check, of _MODES
    Coins,          \* what random() < rate may be: {FALSE} at rate 0, {TRUE} at 1
    MaxTraces       \* max_traces

ASSUME TracesAssumption == Remote \subseteq Traces /\ Late \subseteq Traces
ASSUME ChildrenAssumption == "root" \notin Children
ASSUME ModesAssumption == Modes \subseteq {"all", "errors_only", "percentage"}
ASSUME CoinsAssumption == Coins \subseteq BOOLEAN
ASSUME MaxTracesAssumption == MaxTraces \in Nat

VARIABLES
    mode,           \* self._mode
    buffer,         \* self._buffers, {} for a trace that is no key
    since,          \* its insertion order: when the key of a trace was inserted
    clock,          \* insertions so far
    ended,          \* spans that have ended
    status,         \* how the root of each trace ended, "open" before
    forwarding,     \* spans of kept traces still to be handed on
    exported,       \* spans the wrapped processor has taken
    evicted,        \* spans dropped with an evicted trace
    closed          \* whether shutdown was called

bufferVars == <<buffer, since, clock>>
vars == <<mode, bufferVars, ended, status, forwarding, exported, evicted, closed>>

Span == [trace : Traces, name : Children \cup {"root"}]
Root(t) == [trace |-> t, name |-> "root"]
Status == {"open", "ok", "error"}
-----------------------------------------------------------------------------
(* span.parent is None *)
IsRoot(s) == s.name = "root" /\ s.trace \notin Remote

(* The traces that are keys of _buffers.                                   *)
Held(b) == {t \in Traces : b[t] # {}}

AddFresh(s) ==          \* mutated: a later span replaces the buffer of its trace
    [buffer EXCEPT ![s.trace] = {s}]

(* setdefault and append.                                                  *)
Added(s) == [buffer EXCEPT ![s.trace] = @ \cup {s}]

(* The key of a trace is inserted behind the others, unless it is there.   *)
Insert(t) ==
    IF buffer[t] # {} THEN UNCHANGED <<since, clock>>
    ELSE since' = [since EXCEPT ![t] = clock + 1] /\ clock' = clock + 1

(* The trace that was just added to is never evicted, whatever the limit.  *)
Capacity == IF MaxTraces = 0 THEN 1 ELSE MaxTraces

Oldest(order, traces) ==
    CHOOSE t \in traces : \A u \in traces : order[t] <= order[u]

EvictNever(b, order) == {}      \* mutated: incomplete traces stay

(* The traces _evict_if_over_capacity drops: one, since on_end adds one.   *)
Evicts(b, order) ==
    IF Cardinality(Held(b)) > Capacity THEN {Oldest(order, Held(b))} ELSE {}

DropByRate(s) ==        \* mutated: the rate applies to errors too
    FALSE \in Coins /\ (mode = "errors_only" => s # "error")

(* _keep: whether a trace whose root ended so may be kept, may be dropped. *)
MayKeep(s) == s = "error" \/ (mode = "percentage" /\ TRUE \in Coins)
MayDrop(s) == s # "error" /\ (mode = "percentage" => FALSE \in Coins)

(* What has been said to on_end: s has ended, and a root ended with st.    *)
Ends(s, st) ==
    /\ s \notin ended
    /\ ended' = ended \cup {s}
    /\ IF s.name = "root" THEN st # "open" /\ status' = [status EXCEPT ![s.trace] = st]
       ELSE st = "open" /\ UNCHANGED status /\ (s.trace \in Late \/ Root(s.trace) \notin ended)
    /\ UNCHANGED <<mode, closed>>

(* The wrapped processor takes a span until it was shut down.              *)
Takes(s) == exported' = IF closed THEN exported ELSE exported \cup {s}

(* on_end, mode "all" *)
EndUnsampled(s, st) ==
    /\ mode = "all"
    /\ Ends(s, st)
    /\ Takes(s)
    /\ UNCHANGED <<bufferVars, forwarding, evicted>>

(* on_end of a span with a parent, a remote one included.                  *)
EndInner(s, st) ==
    /\ mode # "all" /\ ~IsRoot(s)
    /\ Ends(s, st)
    /\ Insert(s.trace)
    /\ LET dropped == Evicts(Added(s), since')
       IN  /\ buffer' = [t \in Traces |-> IF t \in dropped THEN {} ELSE Added(s)[t]]
           /\ evicted' = evicted \cup UNION {Added(s)[t] : t \in dropped}
    /\ UNCHANGED <<forwarding, exported>>

(* on_end of a span without a parent.                                      *)
EndRoot(s, st) ==
    /\ mode # "all" /\ IsRoot(s)
    /\ Ends(s, st)
    /\ buffer' = [buffer EXCEPT ![s.trace] = {}]
    /\ \/ MayKeep(st) /\ forwarding' = forwarding \cup Added(s)[s.trace]
       \/ MayDrop(st) /\ UNCHANGED forwarding
    /\ UNCHANGED <<since, clock, exported, evicted>>

(* A turn of the loop that hands the spans of a trace on, its root last.   *)
Forward(s) ==
    /\ s \in forwarding
    /\ s = Root(s.trace) => \A r \in forwarding \ {s} : r.trace # s.trace
    /\ forwarding' = forwarding \ {s}
    /\ Takes(s)
    /\ UNCHANGED <<mode, bufferVars, ended, status, evicted, closed>>

Shutdown ==
    /\ ~closed /\ closed' = TRUE
    /\ UNCHANGED <<mode, bufferVars, ended, status, forwarding, exported, evicted>>
-----------------------------------------------------------------------------
Init ==
    /\ mode \in Modes
    /\ buffer = [t \in Traces |-> {}]
    /\ since = [t \in Traces |-> 0]
    /\ clock = 0
    /\ ended = {} /\ forwarding = {} /\ exported = {} /\ evicted = {}
    /\ status = [t \in Traces |-> "open"]
    /\ closed = FALSE

Next ==
    \/ \E s \in Span, st \in Status :
        EndUnsampled(s, st) \/ EndInner(s, st) \/ EndRoot(s, st)
    \/ \E s \in forwarding : Forward(s)
    \/ Shutdown

Spec == Init /\ [][Next]_vars
-----------------------------------------------------------------------------
(* What must hold *)

(* TypeOK: every variable has its type (SamplingSpanProcessor).            *)
TypeOK ==
    /\ mode \in Modes
    /\ buffer \in [Traces -> SUBSET Span]
    /\ \A t \in Traces : \A s \in buffer[t] : s.trace = t
    /\ since \in [Traces -> Nat] /\ clock \in Nat
    /\ ended \in SUBSET Span /\ status \in [Traces -> Status]
    /\ forwarding \in SUBSET Span /\ exported \in SUBSET Span
    /\ evicted \in SUBSET Span
    /\ closed \in BOOLEAN

(* BufferBounded: no more incomplete traces are held than the limit says,  *)
(* traces whose root never ends and late children included ("MEMORY IS     *)
(* BOUNDED").                                                              *)
BufferBounded == Cardinality(Held(buffer)) <= Capacity

(* EvictsOldest: of the traces that are held or just added to, one that is *)
(* held no more although its root has not ended was inserted before every  *)
(* one that stays ("the OLDEST incomplete trace is evicted").              *)
EvictsOldest ==
    [][mode # "all" =>
        LET new == ended' \ ended
            gone == (Held(buffer) \cup {s.trace : s \in new}) \ Held(buffer')
        IN  \A t \in gone :
                \/ t \notin Remote /\ Root(t) \in new
                \/ \A u \in Held(buffer') : since'[t] < since'[u]]_vars

(* ErrorsKept: a root that ended in error is handed on, whatever the mode, *)
(* the rate and the evictions ("Errors are never sampled away").           *)
ErrorsKept ==
    ~closed => \A t \in Traces \ Remote :
        status[t] = "error" => Root(t) \in forwarding \cup exported

(* NoOrphans: a span is handed on only with a root that is, and with       *)
(* errors_only only with one that failed ("a dropped trace never leaks an  *)
(* orphaned db span").                                                     *)
NoOrphans ==
    mode # "all" /\ ~closed => \A s \in forwarding \cup exported :
        /\ s.trace \notin Remote
        /\ Root(s.trace) \in forwarding \cup exported
        /\ mode = "errors_only" => status[s.trace] = "error"

(* LacksOnlyEvicted: a kept trace lacks only spans that were evicted with  *)
(* it, or that ended after its root and wait in the buffer ("A kept trace  *)
(* is never missing the child spans that explain it").                     *)
LacksOnlyEvicted ==
    ~closed => \A s \in ended :
        Root(s.trace) \in forwarding \cup exported =>
            s \in forwarding \cup exported \cup evicted \cup buffer[s.trace]

(* TracesAreWhole: what leaves the processor are whole traces, but for     *)
(* what was evicted from them.                                             *)
TracesAreWhole ==
    /\ TypeOK
    /\ NoOrphans
    /\ LacksOnlyEvicted
=============================================================================
