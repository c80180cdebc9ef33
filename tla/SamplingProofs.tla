--------------------------- MODULE SamplingProofs ---------------------------
(***************************************************************************)
(* Theorems about Sampling, for any traces, spans, limits and modes: the   *)
(* buffer stays within its limit, errors are kept, nothing is orphaned,    *)
(* and a kept trace lacks only what was evicted or came late.              *)
(***************************************************************************)
EXTENDS Sampling, FiniteSetTheorems, WellFoundedInduction, TLAPS

(* Every non-empty set of naturals has a least element.                    *)
LEMMA LeastExists ==
    ASSUME NEW T \in SUBSET Nat, T # {}
    PROVE  \E n \in T : \A m \in T : n <= m
<1> DEFINE R == {ss \in Nat \X Nat : ss[1] < ss[2]}
<1>1. IsWellFoundedOn(R, Nat)
    BY NatLessThanWellFounded DEF OpToRel
<1>2. PICK n \in T : \A m \in T : <<m, n>> \notin R
    BY <1>1, WFMin
<1>3. ASSUME NEW m \in T PROVE n <= m
  <2>1. m \in Nat /\ n \in Nat
      OBVIOUS
  <2>2. m < n => <<m, n>> \in R
      BY <2>1
  <2> QED BY <1>2, <2>1, <2>2
<1> QED BY <1>3

(* The oldest of some traces is one of them.                               *)
LEMMA OldestIsOne ==
    ASSUME NEW order \in [Traces -> Nat], NEW S \in SUBSET Traces, S # {}
    PROVE  Oldest(order, S) \in S /\ \A u \in S : order[Oldest(order, S)] <= order[u]
<1> DEFINE T == {order[t] : t \in S}
<1>1. PICK n \in T : \A m \in T : n <= m
  <2>1. T \in SUBSET Nat /\ T # {}
      OBVIOUS
  <2> QED BY <2>1, LeastExists
<1>2. \E t \in S : \A u \in S : order[t] <= order[u]
    BY <1>1
<1> QED BY <1>2 DEF Oldest

(* A span belongs to a trace, and roots have the name "root".              *)
LEMMA SpanFacts ==
    /\ \A s \in Span : s.trace \in Traces
    /\ \A t \in Traces : Root(t) \in Span /\ Root(t).trace = t /\ Root(t).name = "root"
    /\ \A s \in Span : s.name = "root" => s = Root(s.trace)
BY DEF Span, Root

-----------------------------------------------------------------------------
(* TypeCorrect: every variable has its type, for all constants.            *)
THEOREM TypeCorrect == Spec => []TypeOK
<1>1. Init => TypeOK
  <2> SUFFICES ASSUME Init PROVE TypeOK
    OBVIOUS
  <2>1. \A t \in Traces : buffer[t] = {}
      BY DEF Init
  <2> QED BY <2>1 DEF Init, TypeOK, Status
<1>2. TypeOK /\ [Next]_vars => TypeOK'
  <2> SUFFICES ASSUME TypeOK, [Next]_vars PROVE TypeOK'
    OBVIOUS
  <2> USE DEF TypeOK
  <2>1. ASSUME NEW s \in Span, NEW st \in Status, Ends(s, st)
        PROVE  ended' \in SUBSET Span /\ status' \in [Traces -> Status]
               /\ mode' = mode /\ closed' = closed
      BY <2>1, SpanFacts DEF Ends, Status
  <2>2. ASSUME NEW s \in Span
        PROVE  /\ Added(s) \in [Traces -> SUBSET Span]
               /\ \A t \in Traces : \A r \in Added(s)[t] : r.trace = t
      BY SpanFacts DEF Added
  <2>3. CASE \E s \in Span, st \in Status : EndUnsampled(s, st)
      BY <2>1, <2>3 DEF EndUnsampled, Takes, bufferVars
  <2>4. ASSUME NEW s \in Span, NEW st \in Status, EndInner(s, st)
        PROVE  TypeOK'
    <3>1. since' \in [Traces -> Nat] /\ clock' \in Nat
        BY <2>4, SpanFacts DEF EndInner, Insert
    <3>2. PICK dropped : /\ buffer' = [t \in Traces |-> IF t \in dropped THEN {} ELSE Added(s)[t]]
                         /\ evicted' = evicted \cup UNION {Added(s)[t] : t \in dropped}
                         /\ dropped = Evicts(Added(s), since')
        BY <2>4 DEF EndInner
    <3>3. dropped \subseteq Traces
      <4>1. CASE Held(Added(s)) = {}
          BY <4>1, <3>2, FS_EmptySet, MaxTracesAssumption DEF Evicts, Capacity
      <4>2. CASE Held(Added(s)) # {}
        <5>1. Oldest(since', Held(Added(s))) \in Held(Added(s))
            BY <4>2, <3>1, OldestIsOne DEF Held
        <5> QED BY <5>1, <3>2 DEF Evicts, Held
      <4> QED BY <4>1, <4>2
    <3>4. UNION {Added(s)[t] : t \in dropped} \subseteq Span
        BY <2>2, <3>3
    <3>5. buffer' \in [Traces -> SUBSET Span] /\ \A t \in Traces : \A r \in buffer'[t] : r.trace = t
        BY <2>2, <3>2
    <3> QED BY <2>1, <2>4, <3>1, <3>2, <3>4, <3>5 DEF EndInner
  <2>5. ASSUME NEW s \in Span, NEW st \in Status, EndRoot(s, st)
        PROVE  TypeOK'
      BY <2>1, <2>2, <2>5, SpanFacts DEF EndRoot
  <2>6. CASE \E s \in forwarding : Forward(s)
      BY <2>6 DEF Forward, Takes, bufferVars
  <2>7. CASE Shutdown
      BY <2>7 DEF Shutdown, bufferVars
  <2>8. CASE UNCHANGED vars
      BY <2>8 DEF vars, bufferVars
  <2> QED BY <2>3, <2>4, <2>5, <2>6, <2>7, <2>8 DEF Next
<1> QED BY <1>1, <1>2, PTL DEF Spec

-----------------------------------------------------------------------------
(* What a span without a root's parent does to the keys of the buffer.     *)
LEMMA EvictionBound ==
    ASSUME TypeOK, IsFiniteSet(Held(buffer)), BufferBounded,
           NEW s \in Span, NEW st \in Status, EndInner(s, st)
    PROVE  IsFiniteSet(Held(buffer')) /\ Cardinality(Held(buffer')) <= Capacity
<1> DEFINE H == Held(Added(s))
<1>1. H = Held(buffer) \cup {s.trace}
    BY SpanFacts DEF Held, Added, TypeOK
<1>2. IsFiniteSet(H) /\ Cardinality(H) \in Nat /\ Cardinality(H) <= Capacity + 1
  <2>1. IsFiniteSet(H)
        /\ Cardinality(H) = IF s.trace \in Held(buffer) THEN Cardinality(Held(buffer))
                            ELSE Cardinality(Held(buffer)) + 1
      BY <1>1, FS_AddElement
  <2>2. Cardinality(Held(buffer)) \in Nat /\ Capacity \in Nat
      BY FS_CardinalityType, MaxTracesAssumption DEF Capacity
  <2> QED BY <2>1, <2>2 DEF BufferBounded
<1>3. Capacity \in Nat \ {0}
    BY MaxTracesAssumption DEF Capacity
<1>4. since' \in [Traces -> Nat]
    BY SpanFacts DEF EndInner, Insert, TypeOK
<1>5. H \in SUBSET Traces /\ H # {}
    BY <1>1, SpanFacts DEF Held
<1>6. Held(buffer') = H \ Evicts(Added(s), since')
    BY DEF EndInner, Held
<1>7. CASE Cardinality(H) > Capacity
  <2>1. Evicts(Added(s), since') = {Oldest(since', H)}
      BY <1>7 DEF Evicts
  <2>2. Oldest(since', H) \in H
      BY <1>4, <1>5, OldestIsOne
  <2>3. IsFiniteSet(Held(buffer')) /\ Cardinality(Held(buffer')) = Cardinality(H) - 1
      BY <1>2, <1>6, <2>1, <2>2, FS_RemoveElement
  <2> QED BY <1>2, <1>3, <2>3
<1>8. CASE ~(Cardinality(H) > Capacity)
  <2>1. Held(buffer') = H
      BY <1>6, <1>8 DEF Evicts
  <2> QED BY <1>2, <1>3, <1>8, <2>1
<1> QED BY <1>7, <1>8

(* BufferBound: never more incomplete traces than max_traces allows.       *)
THEOREM BufferBound == Spec => []BufferBounded
<1> DEFINE Bound == IsFiniteSet(Held(buffer)) /\ BufferBounded
<1>1. Init => Bound
  <2> SUFFICES ASSUME Init PROVE Bound
    OBVIOUS
  <2>1. Held(buffer) = {}
      BY DEF Init, Held
  <2> QED BY <2>1, FS_EmptySet, MaxTracesAssumption DEF BufferBounded, Capacity
<1>2. TypeOK /\ Bound /\ [Next]_vars => Bound'
  <2> SUFFICES ASSUME TypeOK, Bound, [Next]_vars PROVE Bound'
    OBVIOUS
  <2>1. Capacity \in Nat /\ Cardinality(Held(buffer)) \in Nat
      BY FS_CardinalityType, MaxTracesAssumption DEF Capacity
  <2>2. ASSUME Held(buffer') \in SUBSET Held(buffer) PROVE Bound'
    <3>1. IsFiniteSet(Held(buffer')) /\ Cardinality(Held(buffer')) <= Cardinality(Held(buffer))
        BY <2>2, FS_Subset
    <3>2. Cardinality(Held(buffer')) \in Nat
        BY <3>1, FS_CardinalityType
    <3> QED BY <2>1, <3>1, <3>2 DEF BufferBounded
  <2>3. ASSUME NEW s \in Span, NEW st \in Status, EndInner(s, st) PROVE Bound'
      BY <2>3, EvictionBound DEF BufferBounded
  <2>4. ASSUME NEW s \in Span, NEW st \in Status, EndRoot(s, st) PROVE Bound'
    <3>1. Held(buffer') \in SUBSET Held(buffer)
        BY <2>4, SpanFacts DEF EndRoot, Held, TypeOK
    <3> QED BY <3>1, <2>2
  <2>5. CASE UNCHANGED buffer
    <3>1. Held(buffer') \in SUBSET Held(buffer)
        BY <2>5
    <3> QED BY <3>1, <2>2
  <2> QED BY <2>3, <2>4, <2>5
          DEF Next, EndUnsampled, Forward, Shutdown, vars, bufferVars
<1>3. Bound => BufferBounded
    OBVIOUS
<1> QED BY <1>1, <1>2, <1>3, TypeCorrect, PTL DEF Spec

-----------------------------------------------------------------------------
(* What is handed on was said to on_end, and what on_end was told is in    *)
(* some place unless its root was dropped.                                 *)
HandedOn == forwarding \cup exported

Lost(s) == Root(s.trace) \in ended /\ Root(s.trace) \notin HandedOn

Accounted ==
    /\ HandedOn \subseteq ended
    /\ \A t \in Traces : buffer[t] \subseteq ended
    /\ ~closed => \A s \in ended : s \in HandedOn \cup evicted \cup buffer[s.trace] \/ Lost(s)

SampleInv == Accounted /\ ErrorsKept /\ NoOrphans

(* The end of a root: its trace is handed on or lost as a whole.           *)
LEMMA RootStep ==
    ASSUME TypeOK, SampleInv, NEW s \in Span, NEW st \in Status, EndRoot(s, st)
    PROVE  SampleInv'
<1> DEFINE t == s.trace
           B == buffer[t] \cup {s}
<1>1. /\ t \in Traces /\ t \notin Remote /\ s = Root(t) /\ s.name = "root"
      /\ s \notin ended /\ ended' = ended \cup {s}
      /\ status' = [status EXCEPT ![t] = st]
      /\ mode' = mode /\ closed' = closed /\ mode # "all"
      /\ buffer' = [buffer EXCEPT ![t] = {}]
      /\ exported' = exported /\ evicted' = evicted
    BY SpanFacts DEF EndRoot, IsRoot, Ends
<1>2. Added(s)[t] = B
    BY <1>1 DEF Added, TypeOK
<1>3. \A r \in B : r.trace = t
    BY <1>1 DEF TypeOK
<1>4. s \notin HandedOn
    BY <1>1 DEF SampleInv, Accounted
<1>5. \/ MayKeep(st) /\ HandedOn' = HandedOn \cup B
      \/ MayDrop(st) /\ HandedOn' = HandedOn
    BY <1>1, <1>2 DEF EndRoot, HandedOn
<1>6. B \subseteq ended'
    BY <1>1 DEF SampleInv, Accounted
<1>7. \A u \in Traces : buffer'[u] \subseteq buffer[u] /\ (u # t => buffer'[u] = buffer[u])
    BY <1>1 DEF TypeOK
<1>8. \A u \in Traces : status'[u] = IF u = t THEN st ELSE status[u]
    BY <1>1 DEF TypeOK
<1>9. HandedOn' \subseteq ended' /\ \A u \in Traces : buffer'[u] \subseteq ended'
    BY <1>1, <1>5, <1>6, <1>7 DEF SampleInv, Accounted
<1>10. ASSUME ~closed, NEW r \in ended'
       PROVE  r \in HandedOn' \cup evicted' \cup buffer'[r.trace] \/ Lost(r)'
  <2>1. r \in Span /\ r.trace \in Traces
      BY <1>1, SpanFacts DEF TypeOK
  <2>2. CASE r.trace # t
    <3>1. Root(r.trace) # s /\ Root(r.trace) \notin B
        BY <1>1, <1>3, <2>1, <2>2, SpanFacts
    <3>2. r \in ended
        BY <1>1, <2>2
    <3>3. Lost(r) => Lost(r)'
        BY <1>1, <1>5, <3>1 DEF Lost
    <3>4. buffer'[r.trace] = buffer[r.trace]
        BY <1>7, <2>1, <2>2
    <3> QED BY <1>1, <1>5, <1>10, <3>2, <3>3, <3>4 DEF SampleInv, Accounted
  <2>3. CASE r.trace = t /\ HandedOn' = HandedOn \cup B
    <3>1. ~Lost(r)
        BY <1>1, <2>3 DEF Lost
    <3>2. r = s \/ r \in HandedOn \cup evicted \cup buffer[t]
        BY <1>1, <1>10, <2>3, <3>1 DEF SampleInv, Accounted
    <3> QED BY <1>1, <2>3, <3>2
  <2>4. CASE r.trace = t /\ HandedOn' = HandedOn
      BY <1>1, <1>4, <2>4 DEF Lost
  <2> QED BY <1>5, <2>2, <2>3, <2>4
<1>11. ErrorsKept'
  <2> SUFFICES ASSUME ~closed, NEW u \in Traces \ Remote, status'[u] = "error"
               PROVE  Root(u) \in HandedOn'
      BY <1>1 DEF ErrorsKept, HandedOn
  <2>1. CASE u = t
      BY <1>1, <1>5, <1>8, <2>1 DEF MayDrop
  <2>2. CASE u # t
      BY <1>5, <1>8, <2>2 DEF SampleInv, ErrorsKept, HandedOn
  <2> QED BY <2>1, <2>2
<1>12. NoOrphans'
  <2> SUFFICES ASSUME ~closed, NEW r \in HandedOn'
               PROVE  /\ r.trace \notin Remote /\ Root(r.trace) \in HandedOn'
                      /\ mode = "errors_only" => status'[r.trace] = "error"
      BY <1>1 DEF NoOrphans, HandedOn
  <2>1. CASE r \in HandedOn
    <3>1. /\ r.trace \notin Remote /\ Root(r.trace) \in HandedOn
          /\ mode = "errors_only" => status[r.trace] = "error"
        BY <1>1, <2>1 DEF SampleInv, NoOrphans, HandedOn
    <3>2. r.trace # t /\ r.trace \in Traces
        BY <1>1, <1>4, <2>1, <3>1, SpanFacts DEF TypeOK, HandedOn
    <3> QED BY <1>5, <1>8, <3>1, <3>2
  <2>2. CASE r \in B /\ HandedOn' = HandedOn \cup B /\ MayKeep(st)
      BY <1>1, <1>3, <1>8, <2>2 DEF MayKeep
  <2> QED BY <1>5, <2>1, <2>2
<1>13. Accounted'
    BY <1>1, <1>9, <1>10 DEF Accounted
<1> QED BY <1>11, <1>12, <1>13 DEF SampleInv

(* The end of another span: into the buffer, or out with an evicted trace. *)
LEMMA InnerStep ==
    ASSUME TypeOK, SampleInv, NEW s \in Span, NEW st \in Status, EndInner(s, st)
    PROVE  SampleInv'
<1>1. /\ s.trace \in Traces /\ ended' = ended \cup {s}
      /\ mode' = mode /\ closed' = closed /\ HandedOn' = HandedOn
    BY SpanFacts DEF EndInner, Ends, HandedOn
<1>2. \A u \in Traces \ Remote : status'[u] = status[u]
    BY SpanFacts DEF EndInner, Ends, IsRoot, TypeOK
<1>3. PICK dropped : /\ buffer' = [u \in Traces |-> IF u \in dropped THEN {} ELSE Added(s)[u]]
                     /\ evicted' = evicted \cup UNION {Added(s)[u] : u \in dropped}
    BY DEF EndInner
<1>4. \A u \in Traces : Added(s)[u] = IF u = s.trace THEN buffer[u] \cup {s} ELSE buffer[u]
    BY <1>1 DEF Added, TypeOK
<1>5. \A u \in Traces : Added(s)[u] \subseteq ended' /\ buffer[u] \subseteq Added(s)[u]
    BY <1>1, <1>4 DEF SampleInv, Accounted
<1>6. \A u \in Traces : Added(s)[u] \subseteq evicted' \cup buffer'[u] /\ buffer'[u] \subseteq Added(s)[u]
    BY <1>3
<1>7. HandedOn' \subseteq ended' /\ \A u \in Traces : buffer'[u] \subseteq ended'
    BY <1>1, <1>5, <1>6 DEF SampleInv, Accounted
<1>8. ASSUME ~closed, NEW r \in ended'
      PROVE  r \in HandedOn' \cup evicted' \cup buffer'[r.trace] \/ Lost(r)'
  <2>1. r.trace \in Traces
      BY <1>1, SpanFacts DEF TypeOK
  <2>2. CASE r = s
      BY <1>1, <1>4, <1>6, <2>2
  <2>3. CASE r \in ended
    <3>1. r \in HandedOn \cup evicted \cup buffer[r.trace] \/ Lost(r)
        BY <1>8, <2>3 DEF SampleInv, Accounted
    <3>2. Lost(r) => Lost(r)'
        BY <1>1 DEF Lost
    <3>3. evicted \subseteq evicted'
        BY <1>3
    <3> QED BY <1>1, <1>5, <1>6, <2>1, <3>1, <3>2, <3>3
  <2> QED BY <1>1, <2>2, <2>3
<1>9. ErrorsKept'
    BY <1>1, <1>2 DEF SampleInv, ErrorsKept, HandedOn
<1>10. NoOrphans'
  <2> SUFFICES ASSUME mode # "all", ~closed, NEW r \in HandedOn
               PROVE  /\ r.trace \notin Remote /\ Root(r.trace) \in HandedOn
                      /\ mode = "errors_only" => status'[r.trace] = "error"
      BY <1>1 DEF NoOrphans, HandedOn
  <2>1. r.trace \in Traces
      BY SpanFacts DEF TypeOK, HandedOn
  <2> QED BY <1>2, <2>1 DEF SampleInv, NoOrphans, HandedOn
<1>11. Accounted'
    BY <1>1, <1>7, <1>8 DEF Accounted
<1> QED BY <1>9, <1>10, <1>11 DEF SampleInv

(* SampleInv holds throughout.                                             *)
LEMMA SampleInvariant == Spec => []SampleInv
<1>1. Init => SampleInv
  <2> SUFFICES ASSUME Init PROVE SampleInv
    OBVIOUS
  <2>1. HandedOn = {} /\ ended = {} /\ \A t \in Traces : buffer[t] = {} /\ status[t] = "open"
      BY DEF Init, HandedOn
  <2>2. Accounted
      BY <2>1 DEF Accounted
  <2>3. ErrorsKept
      BY <2>1 DEF ErrorsKept
  <2>4. NoOrphans
      BY <2>1 DEF NoOrphans, HandedOn
  <2> QED BY <2>2, <2>3, <2>4 DEF SampleInv
<1>2. TypeOK /\ SampleInv /\ [Next]_vars => SampleInv'
  <2> SUFFICES ASSUME TypeOK, SampleInv, [Next]_vars PROVE SampleInv'
    OBVIOUS
  <2>1. ASSUME NEW s \in Span, NEW st \in Status, EndUnsampled(s, st) PROVE SampleInv'
    <3>1. /\ mode' = mode /\ closed' = closed /\ mode = "all"
          /\ buffer' = buffer /\ evicted' = evicted /\ ended' = ended \cup {s}
          /\ HandedOn' = IF closed THEN HandedOn ELSE HandedOn \cup {s}
        BY <2>1 DEF EndUnsampled, Ends, Takes, bufferVars, HandedOn
    <3>2. ASSUME ~closed, NEW r \in ended'
          PROVE  r \in HandedOn' \cup evicted' \cup buffer'[r.trace] \/ Lost(r)'
      <4>1. CASE r = s
          BY <3>1, <3>2, <4>1
      <4>2. CASE r \in ended /\ ~Lost(r)
          BY <3>1, <3>2, <4>2 DEF SampleInv, Accounted
      <4>3. CASE r \in ended /\ Lost(r)
        <5>1. Root(r.trace) # s
            BY <2>1, <4>3 DEF EndUnsampled, Ends, Lost
        <5> QED BY <3>1, <4>3, <5>1 DEF Lost
      <4> QED BY <3>1, <4>1, <4>2, <4>3
    <3>3. Accounted'
        BY <3>1, <3>2 DEF SampleInv, Accounted
    <3>4. ErrorsKept'
      <4> SUFFICES ASSUME ~closed, NEW u \in Traces \ Remote, status'[u] = "error"
                   PROVE  Root(u) \in HandedOn'
          BY <3>1 DEF ErrorsKept, HandedOn
      <4>1. status'[u] = status[u] \/ s = Root(u)
          BY <2>1, SpanFacts DEF EndUnsampled, Ends, TypeOK
      <4> QED BY <3>1, <4>1 DEF SampleInv, ErrorsKept, HandedOn
    <3>5. NoOrphans'
        BY <3>1 DEF NoOrphans
    <3> QED BY <3>3, <3>4, <3>5 DEF SampleInv
  <2>2. ASSUME NEW s \in forwarding, Forward(s) PROVE SampleInv'
    <3>1. /\ mode' = mode /\ closed' = closed /\ buffer' = buffer
          /\ evicted' = evicted /\ ended' = ended /\ status' = status
          /\ HandedOn' \subseteq HandedOn /\ (~closed => HandedOn' = HandedOn)
        BY <2>2 DEF Forward, Takes, bufferVars, HandedOn
    <3>2. ~closed => \A r : Lost(r) <=> Lost(r)'
        BY <3>1 DEF Lost
    <3>3. Accounted'
        BY <3>1, <3>2 DEF SampleInv, Accounted
    <3>4. ErrorsKept'
        BY <3>1 DEF SampleInv, ErrorsKept, HandedOn
    <3>5. NoOrphans'
        BY <3>1 DEF SampleInv, NoOrphans, HandedOn
    <3> QED BY <3>3, <3>4, <3>5 DEF SampleInv
  <2>3. CASE Shutdown
    <3>1. closed' /\ HandedOn' = HandedOn /\ buffer' = buffer /\ ended' = ended
        BY <2>3 DEF Shutdown, bufferVars, HandedOn
    <3> QED BY <3>1 DEF SampleInv, Accounted, ErrorsKept, NoOrphans
  <2>4. CASE UNCHANGED vars
      BY <2>4 DEF vars, bufferVars, SampleInv, Accounted, ErrorsKept, NoOrphans, HandedOn, Lost
  <2> QED BY <2>1, <2>2, <2>3, <2>4, RootStep, InnerStep DEF Next
<1> QED BY <1>1, <1>2, TypeCorrect, PTL DEF Spec

(* ErrorsAlwaysKept: while the processor is open, every failed root whose  *)
(* parent is not remote is handed on.                                      *)
THEOREM ErrorsAlwaysKept == Spec => []ErrorsKept
<1>1. SampleInv => ErrorsKept
    BY DEF SampleInv
<1> QED BY <1>1, SampleInvariant, PTL

(* NothingOrphaned: nothing of a dropped trace is ever handed on.          *)
THEOREM NothingOrphaned == Spec => []NoOrphans
<1>1. SampleInv => NoOrphans
    BY DEF SampleInv
<1> QED BY <1>1, SampleInvariant, PTL

(* KeptAreWhole: what a kept trace lacks was evicted or came late.         *)
THEOREM KeptAreWhole == Spec => []LacksOnlyEvicted
<1>1. SampleInv => LacksOnlyEvicted
    BY DEF SampleInv, Accounted, LacksOnlyEvicted, HandedOn, Lost
<1> QED BY <1>1, SampleInvariant, PTL

(* WholeTraces: what leaves the processor are whole traces, but for what   *)
(* was evicted from them or came late.                                     *)
THEOREM WholeTraces == Spec => []TracesAreWhole
BY TypeCorrect, NothingOrphaned, KeptAreWhole, PTL DEF TracesAreWhole

-----------------------------------------------------------------------------
(* No two keys of the buffer were inserted at once.                        *)
Ordered ==
    /\ \A t \in Traces : since[t] <= clock
    /\ \A t, u \in Held(buffer) : t # u => since[t] # since[u]

(* Adding a span keeps the keys apart, before anything is evicted.         *)
LEMMA InsertionOrders ==
    ASSUME TypeOK, Ordered, NEW s \in Span, NEW st \in Status, EndInner(s, st)
    PROVE  /\ Held(Added(s)) = Held(buffer) \cup {s.trace}
           /\ since' \in [Traces -> Nat]
           /\ \A t \in Traces : since'[t] <= clock'
           /\ \A t, u \in Held(Added(s)) : t # u => since'[t] # since'[u]
<1>1. Held(Added(s)) = Held(buffer) \cup {s.trace} /\ s.trace \in Traces
    BY SpanFacts DEF Held, Added, TypeOK
<1>2. CASE s.trace \in Held(buffer)
  <2>1. since' = since /\ clock' = clock
      BY <1>2 DEF EndInner, Insert, Held
  <2> QED BY <1>1, <1>2, <2>1 DEF Ordered, TypeOK
<1>3. CASE s.trace \notin Held(buffer)
  <2>1. since' = [since EXCEPT ![s.trace] = clock + 1] /\ clock' = clock + 1
      BY <1>1, <1>3 DEF EndInner, Insert, Held
  <2>2. \A t \in Held(buffer) : t \in Traces /\ since'[t] = since[t] /\ since'[t] # since'[s.trace]
      BY <1>1, <1>3, <2>1 DEF Ordered, TypeOK, Held
  <2>3. since' \in [Traces -> Nat] /\ \A t \in Traces : since'[t] <= clock'
      BY <1>1, <2>1 DEF Ordered, TypeOK
  <2> QED BY <1>1, <2>2, <2>3 DEF Ordered
<1> QED BY <1>2, <1>3

LEMMA OrderedAlways == Spec => []Ordered
<1>1. Init => Ordered
    BY DEF Init, Ordered, Held
<1>2. TypeOK /\ Ordered /\ [Next]_vars => Ordered'
  <2> SUFFICES ASSUME TypeOK, Ordered, [Next]_vars PROVE Ordered'
    OBVIOUS
  <2>1. ASSUME NEW s \in Span, NEW st \in Status, EndInner(s, st) PROVE Ordered'
    <3>1. Held(buffer') \subseteq Held(Added(s))
        BY <2>1 DEF EndInner, Held
    <3> QED BY <2>1, <3>1, InsertionOrders DEF Ordered
  <2>2. ASSUME NEW s \in Span, NEW st \in Status, EndRoot(s, st) PROVE Ordered'
    <3>1. Held(buffer') \subseteq Held(buffer)
        BY <2>2, SpanFacts DEF EndRoot, Held, TypeOK
    <3> QED BY <2>2, <3>1 DEF EndRoot, Ordered
  <2>3. CASE UNCHANGED bufferVars
      BY <2>3 DEF bufferVars, Ordered
  <2> QED BY <2>1, <2>2, <2>3 DEF Next, EndUnsampled, Forward, Shutdown, vars
<1> QED BY <1>1, <1>2, TypeCorrect, PTL DEF Spec

(* What one step drops from the buffer, besides the trace of a local root. *)
LEMMA StepEvictsOldest ==
    ASSUME TypeOK, Ordered, [Next]_vars, mode # "all",
           NEW t \in (Held(buffer) \cup {s.trace : s \in ended' \ ended}) \ Held(buffer')
    PROVE  \/ t \notin Remote /\ Root(t) \in ended' \ ended
           \/ \A u \in Held(buffer') : since'[t] < since'[u]
<1>1. ASSUME NEW s \in Span, NEW st \in Status, Ends(s, st) PROVE ended' \ ended = {s}
    BY <1>1 DEF Ends
<1>2. ASSUME NEW s \in Span, NEW st \in Status, EndInner(s, st)
      PROVE  \A u \in Held(buffer') : since'[t] < since'[u]
  <2> DEFINE H == Held(Added(s))
  <2>1. ended' \ ended = {s}
      BY <1>1, <1>2 DEF EndInner
  <2>2. /\ H = Held(buffer) \cup {s.trace}
        /\ since' \in [Traces -> Nat]
        /\ \A v, u \in H : v # u => since'[v] # since'[u]
      BY <1>2, InsertionOrders
  <2>3. t \in H /\ H \in SUBSET Traces /\ H # {}
      BY <2>1, <2>2, SpanFacts DEF Held
  <2>4. Held(buffer') = H \ Evicts(Added(s), since')
      BY <1>2 DEF EndInner, Held
  <2>5. t = Oldest(since', H)
      BY <2>3, <2>4 DEF Evicts
  <2>6. \A u \in H : since'[t] <= since'[u]
      BY <2>2, <2>3, <2>5, OldestIsOne
  <2>7. \A u \in Held(buffer') : u \in H /\ u # t
      BY <2>4
  <2>8. \A u \in H : since'[u] \in Nat
      BY <2>2, <2>3
  <2> HIDE DEF H
  <2> QED BY <2>2, <2>3, <2>6, <2>7, <2>8
<1>3. ASSUME NEW s \in Span, NEW st \in Status, EndRoot(s, st)
      PROVE  t \notin Remote /\ Root(t) \in ended' \ ended
  <2>1. ended' \ ended = {s}
      BY <1>1, <1>3 DEF EndRoot
  <2>2. \A u \in Held(buffer) : u # s.trace => u \in Held(buffer')
      BY <1>3, SpanFacts DEF EndRoot, Held, TypeOK
  <2>3. t = s.trace
      BY <2>1, <2>2
  <2>4. s.name = "root" /\ s.trace \notin Remote
      BY <1>3 DEF EndRoot, IsRoot
  <2> QED BY <2>1, <2>3, <2>4, SpanFacts
<1>4. CASE UNCHANGED <<bufferVars, ended>>
  <2>1. t \in Held(buffer) /\ Held(buffer') = Held(buffer)
      BY <1>4 DEF bufferVars, Held
  <2> QED BY <2>1
<1> QED BY <1>2, <1>3, <1>4 DEF Next, EndUnsampled, Forward, Shutdown, vars

(* OldestEvicted: past the limit it is the oldest incomplete trace that    *)
(* goes.                                                                   *)
THEOREM OldestEvicted == Spec => EvictsOldest
<1>1. TypeOK /\ Ordered /\ [Next]_vars
        => [mode # "all" =>
             LET new == ended' \ ended
                 gone == (Held(buffer) \cup {s.trace : s \in new}) \ Held(buffer')
             IN  \A t \in gone :
                   \/ t \notin Remote /\ Root(t) \in new
                   \/ \A u \in Held(buffer') : since'[t] < since'[u]]_vars
    BY StepEvictsOldest
<1> QED BY <1>1, TypeCorrect, OrderedAlways, PTL DEF Spec, EvictsOldest
=============================================================================
