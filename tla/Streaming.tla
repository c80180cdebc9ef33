----------------------------- MODULE Streaming ------------------------------
(***************************************************************************)
(* The spans of long-lived operations (mcpobs/streaming.py): one per       *)
(* progress report of a tool, capped per parent span by a counter the      *)
(* whole process shares, and one per published subscription event.         *)
(*                                                                         *)
(* emitted[p] is the history of the progress spans emitted under parent p, *)
(* by index; the span with index MaxProgress is the marker that says the   *)
(* stream was truncated.  resets counts how often the counter forgot.      *)
(***************************************************************************)
EXTENDS Integers, Sequences, FiniteSets

CONSTANTS Parents,      \* the spans under which a tool reports progress
          Events,       \* the subscription events the server publishes
          MaxProgress,  \* MAX_PROGRESS_SPANS
          MaxTracked,   \* MAX_TRACKED_SPANS
          MaxReports    \* bound: progress reports in a behaviour

ASSUME StreamingAssumption ==
  /\ MaxProgress \in Nat
  /\ MaxTracked \in Nat
  /\ MaxReports \in Nat
  /\ IsFiniteSet(Parents)

VARIABLES counts,      \* _ProgressCounter._counts: a function on the parents it remembers
          emitted, resets, reports,
          publishing,  \* the events inside the real bus's publish
          published,   \* ObservedSubscriptionBus.published
          eventSpans   \* the event spans, in the order they were emitted

progressVars == <<counts, emitted, resets, reports>>
eventVars    == <<publishing, published, eventSpans>>
streamVars   == <<progressVars, eventVars>>

StreamInit ==
  /\ counts = <<>>
  /\ emitted = [p \in Parents |-> <<>>]
  /\ resets = 0
  /\ reports = 0
  /\ publishing = {}
  /\ published = 0
  /\ eventSpans = <<>>

-----------------------------------------------------------------------------
CountOf(p) == IF p \in DOMAIN counts THEN counts[p] ELSE 0

Forgets == Cardinality(DOMAIN counts) > MaxTracked

\* What the counter remembers when it counts p: everything, or nothing else.
Remembered == IF Forgets THEN {} ELSE DOMAIN counts

\* take: the next index for p, unless the cap is behind it.
Take(p) ==
  /\ CountOf(p) <= MaxProgress
  /\ counts' = [q \in Remembered \cup {p} |-> IF q = p THEN CountOf(p) + 1 ELSE counts[q]]
  /\ resets' = IF Forgets THEN resets + 1 ELSE resets
  /\ emitted' = [emitted EXCEPT ![p] = Append(@, CountOf(p))]

RefuseForgets(p) ==  \* mutated: the entry at the cap is deleted to bound memory
  /\ CountOf(p) > MaxProgress
  /\ counts' = [q \in DOMAIN counts \ {p} |-> counts[q]]
  /\ UNCHANGED <<resets, emitted>>

Refuse(p) ==
  /\ CountOf(p) > MaxProgress
  /\ UNCHANGED <<counts, resets, emitted>>

\* A report reached the client; only then is its span emitted.  A report whose
\* notification fails raises to the tool and leaves no span.
Report(p) ==
  /\ reports < MaxReports
  /\ reports' = reports + 1
  /\ Take(p) \/ Refuse(p)
  /\ UNCHANGED eventVars

-----------------------------------------------------------------------------

\* publish awaits the real bus first ...
PublishBegins(e) ==
  /\ e \notin publishing
  /\ \A i \in DOMAIN eventSpans : eventSpans[i].event # e
  /\ publishing' = publishing \cup {e}
  /\ UNCHANGED <<published, eventSpans, progressVars>>

\* ... and emits the event's span when the bus has delivered it ...
PublishDelivers(e) ==
  /\ e \in publishing
  /\ publishing' = publishing \ {e}
  /\ published' = published + 1
  /\ eventSpans' = Append(eventSpans, [event |-> e, index |-> published'])
  /\ UNCHANGED progressVars

\* ... or lets the bus's exception through.
PublishFails(e) ==
  /\ e \in publishing
  /\ publishing' = publishing \ {e}
  /\ UNCHANGED <<published, eventSpans, progressVars>>

StreamNext ==
  \/ \E p \in Parents : Report(p)
  \/ \E e \in Events : PublishBegins(e) \/ PublishDelivers(e) \/ PublishFails(e)

StreamSpec == StreamInit /\ [][StreamNext]_streamVars

-----------------------------------------------------------------------------
StreamTypeOK ==
  /\ DOMAIN counts \subseteq Parents
  /\ \A p \in DOMAIN counts : counts[p] \in 1 .. MaxProgress + 1
  /\ emitted \in [Parents -> Seq(0 .. MaxProgress)]
  /\ resets \in Nat
  /\ reports \in 0 .. MaxReports
  /\ publishing \subseteq Events
  /\ published \in Nat
  /\ eventSpans \in Seq([event : Events, index : Nat])

\* A stream that was cut says so: when the counter refuses a parent any more
\* spans, the last one it got is the marker (the cap in _emit_progress).
CutIsMarked ==
  \A p \in Parents :
    CountOf(p) > MaxProgress =>
      emitted[p] # <<>> /\ emitted[p][Len(emitted[p])] = MaxProgress

\* Each parent's spans are numbered without a gap, from 0 again after the
\* counter forgot the parent: no report before the cap is left out.
NoGapInIndices ==
  \A p \in Parents : \A i \in DOMAIN emitted[p] :
    \/ emitted[p][i] = 0
    \/ i > 1 /\ emitted[p][i] = emitted[p][i - 1] + 1

Reporting == {p \in Parents : emitted[p] # <<>>}

\* A tool that floods is capped, whatever the other tools do: a fresh budget
\* needs a reset, and no reset happens before more than MaxTracked parents have
\* reported (the docstring of MAX_TRACKED_SPANS).
FloodCapped ==
  /\ \A p \in Parents : Len(emitted[p]) <= (resets + 1) * (MaxProgress + 1)
  /\ Cardinality(Reporting) <= MaxTracked => resets = 0

\* The counter's memory is bounded: one parent over the cap it checks.
MemoryBounded == Cardinality(DOMAIN counts) <= MaxTracked + 1

\* The index of an event's span is its place among the delivered events,
\* however the publishers interleave: a gap would read as a lost event.
EventsNumbered ==
  /\ published = Len(eventSpans)
  /\ \A i \in DOMAIN eventSpans : eventSpans[i].index = i

\* What a stream's spans tell is true: numbered without a gap, cut off where
\* they say so and not otherwise, out of a counter that stays small.
StreamsAreTrue ==
  /\ CutIsMarked
  /\ NoGapInIndices
  /\ FloodCapped
  /\ MemoryBounded
  /\ EventsNumbered
=============================================================================
