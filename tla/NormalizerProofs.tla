-------------------------- MODULE NormalizerProofs --------------------------
(***************************************************************************)
(* What holds of Normalizer for every set of workers, partitions and       *)
(* payloads, every batch limit and every bound on faults.                  *)
(***************************************************************************)
EXTENDS Normalizer, TLAPS

USE PayloadsAssumption, MaxRowsAssumption, BoundsAssumption
-----------------------------------------------------------------------------
(* Operators *)

LEMMA NoOffsetsType == NoOffsets \in Offsets
BY DEF Offsets, NoOffsets, NoBounds, Bounds

LEMMA TrackType ==
    ASSUME NEW offs \in Offsets, NEW p \in Partitions, NEW o \in Nat
    PROVE  Track(offs, p, o) \in Offsets
BY DEF Offsets, Bounds, Track, Lesser, Greater

LEMMA InsertSpansType ==
    ASSUME NEW table \in SUBSET Block, NEW rs \in Seq(Message), NEW token \in Offsets
    PROVE  InsertSpans(table, rs, token) \in SUBSET Block
BY DEF InsertSpans, Block

LEMMA PhaseTypes ==
    ASSUME NEW phase \in Phase
    PROVE  /\ AfterInsert(phase) \in Phase
           /\ AfterFailure(phase) \in Phase
           /\ AfterInsertError(phase) \in Phase
BY DEF Phase, AfterInsert, AfterFailure, AfterInsertError

LEMMA RegroupType ==
    ASSUME TypeOK, NEW S \in SUBSET Workers, Regroup(S)
    PROVE  /\ members' \in SUBSET Workers
           /\ current' \in SUBSET Workers
           /\ owner' \in [Partitions -> Workers \cup {NoWorker}]
BY DEF Regroup, TypeOK

LEMMA CommitOffsetsType ==
    ASSUME TypeOK, NEW w \in Workers
    PROVE  CommitOffsets(w) \in [Partitions -> Nat]
BY DEF CommitOffsets, TypeOK

LEMMA ResetBatchType ==
    ASSUME TypeOK, NEW w \in Workers, ResetBatch(w)
    PROVE  rows' \in [Workers -> Seq(Message)] /\ offsets' \in [Workers -> Offsets]
BY NoOffsetsType DEF ResetBatch, TypeOK

(* A message read from the log is a payload.                               *)
LEMMA LogEntry ==
    ASSUME TypeOK, NEW p \in Partitions, NEW o \in Nat, o < Len(log[p])
    PROVE  log[p][o + 1] \in [rows : Nat, rejects : Nat]
BY DEF TypeOK

LEMMA PollRowsType ==
    ASSUME TypeOK, NEW w \in Workers, NEW p \in Partitions, NEW o \in Nat, NEW n \in Nat
    PROVE  rows[w] \o RowsOf(p, o, n) \in Seq(Message)
<1>1. RowsOf(p, o, n) \in Seq(Message)
    BY DEF RowsOf, Message
<1>2. rows[w] \in Seq(Message)
    BY DEF TypeOK
<1> HIDE DEF Message
<1> QED
    BY <1>1, <1>2
-----------------------------------------------------------------------------
(* Type correctness *)

(* TypeCorrect: every variable of the consumer group has its type in every *)
(* reachable state, for any group, topic and batch limit.                  *)
THEOREM TypeCorrect == Spec => []TypeOK
<1>1. Init => TypeOK
    BY NoOffsetsType DEF Init, TypeOK, Phase
<1>2. TypeOK /\ [Next]_vars => TypeOK'
    <2> SUFFICES ASSUME TypeOK, [Next]_vars PROVE TypeOK'
        OBVIOUS
    <2>1. ASSUME NEW p \in Partitions, Publish(p) PROVE TypeOK'
        BY <2>1 DEF Publish, TypeOK, groupVars, readVars, batchVars, deadVars
    <2>2. ASSUME NEW w \in Workers, Start(w) PROVE TypeOK'
        <3>1. Regroup(members \cup {w}) /\ members \cup {w} \in SUBSET Workers
            BY <2>2 DEF Start, Join, TypeOK
        <3> QED
            BY <2>2, <3>1, RegroupType DEF Start, TypeOK, Phase, readVars, batchVars, deadVars
    <2>3. ASSUME NEW w \in Workers, Rejoin(w) PROVE TypeOK'
        <3>1. Regroup(members \cup {w}) /\ members \cup {w} \in SUBSET Workers
            BY <2>3 DEF Rejoin, Join, TypeOK
        <3> QED
            BY <2>3, <3>1, RegroupType DEF Rejoin, TypeOK, readVars, batchVars, deadVars
    <2>4. ASSUME NEW w \in Workers, Adopt(w) PROVE TypeOK'
        BY <2>4 DEF Adopt, ResumeAt, TypeOK, batchVars, deadVars
    <2>5. ASSUME NEW w \in Workers, NEW p \in Partitions, Poll(w, p) PROVE TypeOK'
        <3> DEFINE o == position[w][p]
                   m == log[p][o + 1]
                   newRows == rows[w] \o RowsOf(p, o, m.rows)
        <3>1. o \in Nat /\ o < Len(log[p])
            BY <2>5 DEF Poll, TypeOK
        <3>2. m \in [rows : Nat, rejects : Nat]
            BY <3>1, LogEntry
        <3>3. newRows \in Seq(Message)
            BY <3>1, <3>2, PollRowsType
        <3>4. rows' \in [Workers -> Seq(Message)]
            BY <2>5, <3>3 DEF Poll, TypeOK
        <3>5. offsets' \in [Workers -> Offsets]
            <4>1. Track(offsets[w], p, o) \in Offsets
                BY <3>1, TrackType DEF TypeOK
            <4> QED
                BY <2>5, <4>1 DEF Poll, TypeOK
        <3>6. position' \in [Workers -> [Partitions -> Nat]]
            BY <2>5, <3>1 DEF Poll, TypeOK
        <3>7. pc' \in [Workers -> Phase]
            BY <2>5 DEF Poll, TypeOK, Phase
        <3>8. dlqQueue' \in [Workers -> SUBSET Message] /\ deadTable' \in SUBSET Message
            <4>1. <<p, o>> \in Message
                BY <3>1 DEF Message
            <4>2. CASE m.rejects > 0
                <5>1. PICK queued, recorded \in BOOLEAN :
                        /\ dlqQueue' = [dlqQueue EXCEPT ![w] = IF queued THEN @ \cup {<<p, o>>} ELSE @]
                        /\ deadTable' = IF recorded THEN deadTable \cup {<<p, o>>} ELSE deadTable
                    BY <2>5, <4>2 DEF Poll, DeadLetter
                <5> QED
                    BY <4>1, <5>1 DEF TypeOK
            <4>3. CASE ~(m.rejects > 0)
                BY <2>5, <4>3 DEF Poll, TypeOK
            <4> QED
                BY <4>2, <4>3
        <3> QED
            BY <2>5, <3>4, <3>5, <3>6, <3>7, <3>8 DEF Poll, TypeOK, groupVars
    <2>6. ASSUME NEW w \in Workers, PollIdle(w) PROVE TypeOK'
        BY <2>6 DEF PollIdle, TypeOK, Phase, groupVars, readVars, batchVars, deadVars
    <2>7. ASSUME NEW w \in Workers, LeaveLoop(w) PROVE TypeOK'
        BY <2>7 DEF LeaveLoop, FirstShutdownPhase, TypeOK, Phase,
                    groupVars, readVars, batchVars, deadVars
    <2>8. ASSUME NEW w \in Workers, Insert(w) PROVE TypeOK'
        <3>1. spansRaw' \in SUBSET Block
            BY <2>8, InsertSpansType DEF Insert, DedupToken, TypeOK
        <3>2. pc' \in [Workers -> Phase]
            BY <2>8, PhaseTypes DEF Insert, TypeOK
        <3> QED
            BY <2>8, <3>1, <3>2 DEF Insert, TypeOK, groupVars, readVars, batchVars, deadVars
    <2>9. ASSUME NEW w \in Workers, Commit(w) PROVE TypeOK'
        BY <2>9, CommitOffsetsType, ResetBatchType
        DEF Commit, TypeOK, Phase, groupVars, readVars, deadVars
    <2>10. ASSUME NEW w \in Workers, CommitRejected(w) PROVE TypeOK'
        BY <2>10, PhaseTypes
        DEF CommitRejected, TypeOK, groupVars, readVars, batchVars, deadVars
    <2>11. ASSUME NEW w \in Workers, Close(w) PROVE TypeOK'
        <3>1. /\ members' \in SUBSET Workers /\ current' \in SUBSET Workers
              /\ owner' \in [Partitions -> Workers \cup {NoWorker}]
            <4>1. CASE w \in members
                <5>1. Regroup(members \ {w}) /\ members \ {w} \in SUBSET Workers
                    BY <2>11, <4>1 DEF Close, TypeOK
                <5> QED
                    BY <5>1, RegroupType
            <4>2. CASE w \notin members
                BY <2>11, <4>2 DEF Close, TypeOK, groupVars
            <4> QED
                BY <4>1, <4>2
        <3>2. dlqTopic' \in SUBSET Message
            BY <2>11 DEF Close, TypeOK
        <3> QED
            BY <2>11, <3>1, <3>2, ResetBatchType DEF Close, Forget, TypeOK, Phase
    <2>12. ASSUME NEW w \in Workers, Stop(w) PROVE TypeOK'
        BY <2>12 DEF Stop, Fails, TypeOK, groupVars, readVars, batchVars, deadVars
    <2>13. ASSUME NEW w \in Workers, Crash(w) PROVE TypeOK'
        BY <2>13, ResetBatchType DEF Crash, Forget, Fails, TypeOK, Phase
    <2>14. ASSUME NEW w \in Workers, PollError(w) PROVE TypeOK'
        BY <2>14 DEF PollError, Fails, FirstShutdownPhase, TypeOK, Phase,
                     groupVars, readVars, batchVars, deadVars
    <2>15. ASSUME NEW w \in Workers, InsertError(w) PROVE TypeOK'
        <3>1. spansRaw' \in SUBSET Block
            BY <2>15, InsertSpansType DEF InsertError, DedupToken, TypeOK
        <3>2. pc' \in [Workers -> Phase]
            BY <2>15, PhaseTypes DEF InsertError, TypeOK
        <3> QED
            BY <2>15, <3>1, <3>2
            DEF InsertError, Fails, TypeOK, groupVars, readVars, batchVars, deadVars
    <2>16. ASSUME NEW w \in Workers, CommitError(w) PROVE TypeOK'
        BY <2>16, CommitOffsetsType, PhaseTypes
        DEF CommitError, Fails, TypeOK, groupVars, readVars, batchVars, deadVars
    <2>17. ASSUME NEW w \in Workers, Expire(w) PROVE TypeOK'
        <3>1. Regroup(members \ {w}) /\ members \ {w} \in SUBSET Workers
            BY <2>17 DEF Expire, TypeOK
        <3> QED
            BY <2>17, <3>1, RegroupType
            DEF Expire, Fails, TypeOK, readVars, batchVars, deadVars
    <2>18. ASSUME NEW w \in Workers, DlqReport(w) PROVE TypeOK'
        BY <2>18 DEF DlqReport, TypeOK, groupVars, readVars, batchVars
    <2>19. CASE UNCHANGED vars
        BY <2>19 DEF vars, TypeOK, groupVars, readVars, batchVars, deadVars
    <2> QED
        BY <2>1, <2>2, <2>3, <2>4, <2>5, <2>6, <2>7, <2>8, <2>9, <2>10, <2>11,
           <2>12, <2>13, <2>14, <2>15, <2>16, <2>17, <2>18, <2>19
        DEF Next, Progress, Fault
<1> QED
    BY <1>1, <1>2, PTL DEF Spec
-----------------------------------------------------------------------------
(* The inductive invariant *)

(* Stored, in the form the proofs use it.                                  *)
LEMMA StoredDef ==
    ASSUME NEW m
    PROVE  m \in Stored <=> \E b \in spansRaw : m \in Range(b.rows)
BY DEF Stored

LEMMA StoredGrows ==
    ASSUME spansRaw \subseteq spansRaw'
    PROVE  Stored \subseteq Stored'
BY DEF Stored

LEMMA EmptyRange == Range(<<>>) = {}
BY DEF Range

(* The rows of one more message at the end of a batch.                     *)
LEMMA RangeAppended ==
    ASSUME NEW s \in Seq(Message), NEW p \in Partitions, NEW o \in Nat, NEW n \in Nat
    PROVE  /\ Range(s) \subseteq Range(s \o RowsOf(p, o, n))
           /\ Range(s \o RowsOf(p, o, n)) \subseteq Range(s) \cup {<<p, o>>}
           /\ n > 0 => <<p, o>> \in Range(s \o RowsOf(p, o, n))
           /\ n = 0 => Range(s \o RowsOf(p, o, n)) = Range(s)
<1> DEFINE a == RowsOf(p, o, n)
           m == <<p, o>>
           t == s \o a
<1>1. a \in Seq(Message) /\ Len(a) = n /\ \A i \in 1 .. n : a[i] = m
    BY DEF RowsOf, Message
<1> HIDE DEF a, m, Message
<1>2. /\ t \in Seq(Message) /\ DOMAIN t = 1 .. Len(s) + n
      /\ \A i \in 1 .. Len(s) + n : t[i] = IF i <= Len(s) THEN s[i] ELSE a[i - Len(s)]
    BY <1>1
<1> HIDE DEF t
<1>3. Range(s) \subseteq Range(t)
    <2> SUFFICES ASSUME NEW i \in DOMAIN s PROVE \E j \in DOMAIN t : t[j] = s[i]
        BY DEF Range
    <2> QED
        BY <1>2
<1>4. Range(t) \subseteq Range(s) \cup {m}
    <2> SUFFICES ASSUME NEW i \in DOMAIN t PROVE t[i] \in Range(s) \cup {m}
        BY DEF Range
    <2>1. CASE i <= Len(s)
        BY <1>2, <2>1 DEF Range
    <2>2. CASE ~(i <= Len(s))
        <3>1. Len(s) \in Nat /\ i \in 1 .. Len(s) + n
            BY <1>2
        <3>2. i - Len(s) \in 1 .. n
            BY <2>2, <3>1
        <3> QED
            BY <1>1, <1>2, <2>2, <3>1, <3>2
    <2> QED
        BY <2>1, <2>2
<1>5. n > 0 => m \in Range(t)
    <2> SUFFICES ASSUME n > 0 PROVE t[Len(s) + 1] = m /\ Len(s) + 1 \in DOMAIN t
        BY DEF Range
    <2> QED
        BY <1>1, <1>2
<1>6. n = 0 => Range(t) \subseteq Range(s)
    <2> SUFFICES ASSUME n = 0, NEW i \in DOMAIN t PROVE t[i] \in Range(s)
        BY DEF Range
    <2> QED
        BY <1>2 DEF Range
<1> QED
    BY <1>3, <1>4, <1>5, <1>6 DEF t, a, m

(* The ranges the offsets of a well-typed state come from.                 *)
LEMMA Ranges ==
    ASSUME TypeOK
    PROVE  /\ \A p \in Partitions : committed[p] \in Nat /\ Len(log[p]) \in Nat
           /\ \A w \in Workers, p \in Partitions :
                /\ position[w][p] \in Nat
                /\ offsets[w][p].hi \in Nat \cup {-1}
           /\ \A b \in spansRaw, p \in Partitions : b.token[p].hi \in Nat \cup {-1}
           /\ \A w \in Workers : \A m \in Range(rows[w]) :
                m = <<m[1], m[2]>> /\ m[1] \in Partitions /\ m[2] \in Nat
<1>1. \A p \in Partitions : committed[p] \in Nat /\ Len(log[p]) \in Nat
    BY DEF TypeOK
<1>2. \A w \in Workers, p \in Partitions :
        position[w][p] \in Nat /\ offsets[w][p].hi \in Nat \cup {-1}
    BY DEF TypeOK, Offsets, Bounds
<1>3. \A b \in spansRaw, p \in Partitions : b.token[p].hi \in Nat \cup {-1}
    BY DEF TypeOK, Block, Offsets, Bounds
<1>4. ASSUME NEW w \in Workers, NEW m \in Range(rows[w])
      PROVE  m = <<m[1], m[2]>> /\ m[1] \in Partitions /\ m[2] \in Nat
    <2>1. rows[w] \in Seq(Message)
        BY DEF TypeOK
    <2>2. m \in Message
        <3> HIDE DEF Message
        <3> QED
            BY <2>1 DEF Range
    <2> QED
        BY <2>2 DEF Message
<1> QED
    BY <1>1, <1>2, <1>3, <1>4

(* What Track does to the upper end of a range.                            *)
LEMMA TrackBounds ==
    ASSUME NEW offs \in Offsets, NEW p \in Partitions, NEW o \in Nat
    PROVE  /\ \A q \in Partitions \ {p} : Track(offs, p, o)[q] = offs[q]
           /\ Track(offs, p, o)[p].hi \in {offs[p].hi, o}
           /\ offs[p].hi <= Track(offs, p, o)[p].hi
           /\ o <= Track(offs, p, o)[p].hi
BY DEF Offsets, Bounds, NoBounds, Track, Lesser, Greater

(* A published message leaves the earlier ones alone.                      *)
LEMMA DuePublished ==
    ASSUME TypeOK, NEW q \in Partitions, Publish(q), NEW p \in Partitions, NEW o \in Nat
    PROVE  /\ Len(log[p]) <= Len(log'[p])
           /\ o < Len(log[p]) => (Due(p, o)' <=> Due(p, o))
<1>1. PICK m \in Payloads : log' = [log EXCEPT ![q] = Append(@, m)]
    BY DEF Publish
<1>2. log[p] \in Seq(Payloads) /\ log[q] \in Seq(Payloads) /\ log \in [Partitions -> Seq(Payloads)]
    BY DEF TypeOK
<1>3. CASE p = q
    BY <1>1, <1>2, <1>3 DEF Due
<1>4. CASE p # q
    BY <1>1, <1>2, <1>4 DEF Due
<1> QED
    BY <1>3, <1>4

(* Quiet: a step that moves no data, and reaches the commit only with the  *)
(* rows stored, keeps the invariant.                                       *)
LEMMA Quiet ==
    ASSUME StoreInv,
           UNCHANGED <<log, committed, assigned, position, rows, offsets, spansRaw>>,
           \A w \in Workers : pc'[w] \in {"commit", "finalCommit"}
                                => pc[w] \in {"commit", "finalCommit"}
    PROVE  StoreInv'
<1>1. Stored' = Stored
    BY DEF Stored
<1>2. \A w \in Workers : Kept(w)' = Kept(w)
    BY <1>1 DEF Kept
<1>3. \A p, o : Due(p, o)' <=> Due(p, o)
    BY DEF Due
<1>4. WithinLog'
    BY DEF StoreInv, WithinLog
<1>5. CommittedStored'
    BY <1>1, <1>3 DEF StoreInv, CommittedStored
<1>6. ReadIsKept'
    BY <1>2, <1>3 DEF StoreInv, ReadIsKept
<1>7. RowsAreTracked'
    BY <1>3 DEF StoreInv, RowsAreTracked
<1>8. TrackedIsKept'
    BY <1>2, <1>3 DEF StoreInv, TrackedIsKept
<1>9. TokenIsStored'
    BY <1>1, <1>3 DEF StoreInv, TokenIsStored
<1>10. InsertedBeforeCommit'
    BY <1>1 DEF StoreInv, InsertedBeforeCommit
<1> QED
    BY <1>4, <1>5, <1>6, <1>7, <1>8, <1>9, <1>10 DEF StoreInv

(* Publish keeps the invariant: every offset it speaks of was in the log.  *)
LEMMA PublishKeeps ==
    ASSUME TypeOK, StoreInv, NEW q \in Partitions, Publish(q)
    PROVE  StoreInv'
<1>1. UNCHANGED <<committed, assigned, position, pc, rows, offsets, spansRaw>>
    BY DEF Publish, readVars, batchVars
<1>2. Stored' = Stored /\ \A w \in Workers : Kept(w)' = Kept(w)
    BY <1>1 DEF Stored, Kept
<1>3. \A p \in Partitions : Len(log'[p]) \in Nat /\ Len(log[p]) <= Len(log'[p])
    <2>1. PICK m \in Payloads : log' = [log EXCEPT ![q] = Append(@, m)]
        BY DEF Publish
    <2> QED
        BY <2>1 DEF TypeOK
<1>4. \A p \in Partitions, o \in Nat : o < Len(log[p]) => (Due(p, o)' <=> Due(p, o))
    BY DuePublished
<1>5. WithinLog
    BY DEF StoreInv
<1>6. WithinLog'
    <2>1. ASSUME NEW p \in Partitions PROVE committed[p] <= Len(log'[p])
        BY <1>3, <1>5, Ranges DEF WithinLog
    <2>2. ASSUME NEW w \in Workers, NEW p \in Partitions
          PROVE  position[w][p] <= Len(log'[p]) /\ offsets[w][p].hi < Len(log'[p])
        <3>1. position[w][p] <= Len(log[p]) /\ offsets[w][p].hi < Len(log[p])
            BY <1>5 DEF WithinLog
        <3>2. /\ position[w][p] \in Nat /\ offsets[w][p].hi \in Nat \cup {-1}
              /\ Len(log[p]) \in Nat
            BY Ranges
        <3>3. Len(log'[p]) \in Nat /\ Len(log[p]) <= Len(log'[p])
            BY <1>3
        <3> QED
            BY <3>1, <3>2, <3>3
    <2>3. ASSUME NEW b \in spansRaw, NEW p \in Partitions PROVE b.token[p].hi < Len(log'[p])
        <3>1. b.token[p].hi < Len(log[p])
            BY <1>5 DEF WithinLog
        <3>2. b.token[p].hi \in Nat \cup {-1} /\ Len(log[p]) \in Nat
            BY Ranges
        <3>3. Len(log'[p]) \in Nat /\ Len(log[p]) <= Len(log'[p])
            BY <1>3
        <3> QED
            BY <3>1, <3>2, <3>3
    <2> QED
        BY <1>1, <2>1, <2>2, <2>3 DEF WithinLog
<1>7. CommittedStored'
    <2> SUFFICES ASSUME NEW p \in Partitions, NEW o \in 0 .. committed[p] - 1, Due(p, o)'
                 PROVE  <<p, o>> \in Stored
        BY <1>1, <1>2 DEF CommittedStored
    <2>1. o \in Nat /\ o < Len(log[p])
        BY <1>5, Ranges DEF WithinLog
    <2> QED
        BY <1>4, <2>1 DEF StoreInv, CommittedStored
<1>8. ReadIsKept'
    <2> SUFFICES ASSUME NEW w \in Workers, NEW p \in assigned[w],
                        NEW o \in 0 .. position[w][p] - 1, Due(p, o)'
                 PROVE  <<p, o>> \in Kept(w)
        BY <1>1, <1>2 DEF ReadIsKept
    <2>1. p \in Partitions
        BY DEF TypeOK
    <2>2. o \in Nat /\ o < Len(log[p])
        BY <1>5, <2>1, Ranges DEF WithinLog
    <2> QED
        BY <1>4, <2>1, <2>2 DEF StoreInv, ReadIsKept
<1>9. RowsAreTracked'
    <2> SUFFICES ASSUME NEW w \in Workers, NEW m \in Range(rows[w])
                 PROVE  m[2] <= offsets[w][m[1]].hi /\ Due(m[1], m[2])'
        BY <1>1 DEF RowsAreTracked
    <2>1. m[2] <= offsets[w][m[1]].hi /\ Due(m[1], m[2])
        BY DEF StoreInv, RowsAreTracked
    <2>2. m[1] \in Partitions /\ m[2] \in Nat /\ m[2] < Len(log[m[1]])
        BY <2>1, Ranges DEF Due
    <2> QED
        BY <1>4, <2>1, <2>2
<1>10. TrackedIsKept'
    <2> SUFFICES ASSUME NEW w \in Workers, NEW p \in Partitions,
                        NEW o \in 0 .. offsets[w][p].hi, Due(p, o)'
                 PROVE  <<p, o>> \in Kept(w)
        BY <1>1, <1>2 DEF TrackedIsKept
    <2>1. o \in Nat /\ o < Len(log[p])
        BY <1>5, Ranges DEF WithinLog
    <2> QED
        BY <1>4, <2>1 DEF StoreInv, TrackedIsKept
<1>11. TokenIsStored'
    <2> SUFFICES ASSUME NEW b \in spansRaw, NEW p \in Partitions,
                        NEW o \in 0 .. b.token[p].hi, Due(p, o)'
                 PROVE  <<p, o>> \in Stored
        BY <1>1, <1>2 DEF TokenIsStored
    <2>1. o \in Nat /\ o < Len(log[p])
        BY <1>5, Ranges DEF WithinLog
    <2> QED
        BY <1>4, <2>1 DEF StoreInv, TokenIsStored
<1>12. InsertedBeforeCommit'
    BY <1>1, <1>2 DEF StoreInv, InsertedBeforeCommit
<1> QED
    BY <1>6, <1>7, <1>8, <1>9, <1>10, <1>11, <1>12 DEF StoreInv

(* Adopt keeps the invariant: reading resumes at offsets whose rows are    *)
(* stored, and the batch kept across the rebalance is not touched.         *)
LEMMA AdoptKeeps ==
    ASSUME TypeOK, StoreInv, NEW w \in Workers, Adopt(w)
    PROVE  StoreInv'
<1>1. UNCHANGED <<log, committed, pc, rows, offsets, spansRaw>>
    BY DEF Adopt, batchVars
<1>2. Stored' = Stored /\ \A v \in Workers : Kept(v)' = Kept(v)
    BY <1>1 DEF Stored, Kept
<1>3. \A p, o : Due(p, o)' <=> Due(p, o)
    BY <1>1 DEF Due
<1>4. \A v \in Workers : v # w => assigned'[v] = assigned[v] /\ position'[v] = position[v]
    BY DEF Adopt, TypeOK
<1>5. \A p \in Partitions : position'[w][p] \in {0, committed[p]}
    BY DEF Adopt, ResumeAt, TypeOK
<1>6. WithinLog'
    <2>1. \A v \in Workers, p \in Partitions : position'[v][p] <= Len(log[p])
        BY <1>4, <1>5, Ranges DEF StoreInv, WithinLog
    <2> QED
        BY <1>1, <2>1 DEF StoreInv, WithinLog
<1>7. ReadIsKept'
    <2> SUFFICES ASSUME NEW v \in Workers, NEW p \in assigned'[v],
                        NEW o \in 0 .. position'[v][p] - 1, Due(p, o)
                 PROVE  <<p, o>> \in Kept(v)
        BY <1>2, <1>3 DEF ReadIsKept
    <2>1. CASE v = w
        <3>1. p \in Partitions
            BY <2>1 DEF Adopt, TypeOK
        <3>2. o \in 0 .. committed[p] - 1
            <4>1. position'[w][p] = 0 \/ position'[w][p] = committed[p]
                BY <1>5, <3>1
            <4>2. committed[p] \in Nat
                BY <3>1 DEF TypeOK
            <4> QED
                BY <2>1, <4>1, <4>2
        <3> QED
            BY <3>1, <3>2 DEF StoreInv, CommittedStored, Kept
    <2>2. CASE v # w
        BY <1>4, <2>2 DEF StoreInv, ReadIsKept
    <2> QED
        BY <2>1, <2>2
<1> QED
    BY <1>1, <1>2, <1>3, <1>6, <1>7
    DEF StoreInv, CommittedStored, RowsAreTracked, TrackedIsKept, TokenIsStored,
        InsertedBeforeCommit

(* Poll keeps the invariant: the message read is in the batch if its rows  *)
(* are due, and all offsets below it were stored or in the batch already.  *)
LEMMA PollKeeps ==
    ASSUME TypeOK, StoreInv, NEW w \in Workers, NEW p \in Partitions, Poll(w, p)
    PROVE  StoreInv'
<1> DEFINE o == position[w][p]
           n == log[p][o + 1].rows
           newRows == rows[w] \o RowsOf(p, o, n)
<1>1. UNCHANGED <<log, committed, assigned, spansRaw>>
    BY DEF Poll
<1>2. /\ p \in assigned[w] /\ o \in Nat /\ o < Len(log[p]) /\ n \in Nat
      /\ (Due(p, o) <=> n > 0)
    <2>1. p \in assigned[w] /\ o \in Nat /\ o < Len(log[p])
        BY Ranges DEF Poll
    <2> QED
        BY <2>1, LogEntry DEF Due
<1>3. /\ position'[w][p] = o + 1
      /\ \A q \in Partitions : q # p => position'[w][q] = position[w][q]
      /\ \A v \in Workers : v # w => position'[v] = position[v]
    BY DEF Poll, TypeOK
<1>4. rows'[w] = newRows /\ \A v \in Workers : v # w => rows'[v] = rows[v]
    BY DEF Poll, TypeOK
<1>5. /\ Range(rows[w]) \subseteq Range(newRows)
      /\ Range(newRows) \subseteq Range(rows[w]) \cup {<<p, o>>}
      /\ n > 0 => <<p, o>> \in Range(newRows)
      /\ n = 0 => Range(newRows) = Range(rows[w])
    <2>1. rows[w] \in Seq(Message)
        BY DEF TypeOK
    <2> HIDE DEF o, n, Message
    <2> QED
        BY <1>2, <2>1, RangeAppended
<1>6. /\ offsets'[w][p].hi \in {offsets[w][p].hi, o}
      /\ offsets[w][p].hi <= offsets'[w][p].hi /\ o <= offsets'[w][p].hi
      /\ \A q \in Partitions : q # p => offsets'[w][q] = offsets[w][q]
      /\ \A v \in Workers : v # w => offsets'[v] = offsets[v]
    <2>1. offsets[w] \in Offsets
        BY DEF TypeOK
    <2>2. offsets' = [offsets EXCEPT ![w] = Track(offsets[w], p, o)]
        BY DEF Poll
    <2>3. offsets'[w] = Track(offsets[w], p, o) /\ \A v \in Workers : v # w => offsets'[v] = offsets[v]
        BY <2>2 DEF TypeOK
    <2> HIDE DEF o
    <2> QED
        BY <1>2, <2>1, <2>3, TrackBounds
<1>7. \A v \in Workers : pc'[v] \in {"commit", "finalCommit"} => v # w /\ pc'[v] = pc[v]
    BY DEF Poll, TypeOK
<1>8. Stored' = Stored /\ \A q, k : Due(q, k)' <=> Due(q, k)
    BY <1>1 DEF Stored, Due
<1>9. \A v \in Workers : Kept(v) \subseteq Kept(v)'
    BY <1>4, <1>5, <1>8 DEF Kept
<1>10. Due(p, o) => <<p, o>> \in Kept(w)'
    BY <1>2, <1>4, <1>5 DEF Kept
<1> HIDE DEF o, n, newRows
<1>11. WithinLog'
    <2>1. ASSUME NEW v \in Workers, NEW q \in Partitions
          PROVE  position'[v][q] <= Len(log[q]) /\ offsets'[v][q].hi < Len(log[q])
        <3>1. position[v][q] <= Len(log[q]) /\ offsets[v][q].hi < Len(log[q])
            BY DEF StoreInv, WithinLog
        <3>2. CASE v = w /\ q = p
            BY <1>2, <1>3, <1>6, <3>1, <3>2, Ranges
        <3>3. CASE ~(v = w /\ q = p)
            BY <1>3, <1>6, <3>1, <3>3
        <3> QED
            BY <3>2, <3>3
    <2> QED
        BY <1>1, <2>1 DEF StoreInv, WithinLog
<1>12. CommittedStored'
    BY <1>1, <1>8 DEF StoreInv, CommittedStored
<1>13. ReadIsKept'
    <2> SUFFICES ASSUME NEW v \in Workers, NEW q \in assigned[v],
                        NEW k \in 0 .. position'[v][q] - 1, Due(q, k)
                 PROVE  <<q, k>> \in Kept(v)'
        BY <1>1, <1>8 DEF ReadIsKept
    <2>1. q \in Partitions
        BY DEF TypeOK
    <2>2. CASE k \in 0 .. position[v][q] - 1
        BY <1>9, <2>2 DEF StoreInv, ReadIsKept
    <2>3. CASE k \notin 0 .. position[v][q] - 1
        <3>1. v = w /\ q = p /\ k = o
            <4>1. v = w /\ q = p
                BY <1>3, <2>1, <2>3
            <4>2. k \in 0 .. o
                BY <1>2, <1>3, <4>1
            <4> QED
                BY <1>2, <2>3, <4>1, <4>2 DEF o
        <3> QED
            BY <1>10, <3>1
    <2> QED
        BY <2>2, <2>3
<1>14. RowsAreTracked'
    <2> SUFFICES ASSUME NEW v \in Workers, NEW m \in Range(rows'[v])
                 PROVE  m[2] <= offsets'[v][m[1]].hi /\ Due(m[1], m[2])
        BY <1>8 DEF RowsAreTracked
    <2>1. CASE m \in Range(rows[v])
        <3>1. m[2] <= offsets[v][m[1]].hi /\ Due(m[1], m[2])
            BY <2>1 DEF StoreInv, RowsAreTracked
        <3>2. m[1] \in Partitions /\ m[2] \in Nat
            BY <2>1, Ranges
        <3>3. m[2] <= offsets'[v][m[1]].hi
            <4>1. CASE v = w /\ m[1] = p
                BY SMTT(30), <1>2, <1>6, <3>1, <3>2, <4>1, Ranges
            <4>2. CASE ~(v = w /\ m[1] = p)
                BY <1>6, <3>1, <3>2, <4>2
            <4> QED
                BY <4>1, <4>2
        <3> QED
            BY <3>1, <3>3
    <2>2. CASE m \notin Range(rows[v])
        <3>1. v = w /\ m = <<p, o>> /\ n > 0
            BY <1>2, <1>4, <1>5, <2>2
        <3> QED
            BY <1>2, <1>6, <3>1
    <2> QED
        BY <2>1, <2>2
<1>15. TrackedIsKept'
    <2> SUFFICES ASSUME NEW v \in Workers, NEW q \in Partitions,
                        NEW k \in 0 .. offsets'[v][q].hi, Due(q, k)
                 PROVE  <<q, k>> \in Kept(v)'
        BY <1>8 DEF TrackedIsKept
    <2>1. CASE k \in 0 .. offsets[v][q].hi
        BY <1>9, <2>1 DEF StoreInv, TrackedIsKept
    <2>2. CASE k \notin 0 .. offsets[v][q].hi
        <3>1. v = w /\ q = p /\ k \in 0 .. o
            BY <1>6, <2>2
        <3>2. CASE k = o
            BY <1>10, <3>1, <3>2
        <3>3. CASE k # o
            <4>1. k \in 0 .. o - 1
                BY <1>2, <3>1, <3>3
            <4>2. <<p, k>> \in Kept(w)
                BY <1>2, <3>1, <4>1 DEF StoreInv, ReadIsKept, o
            <4> QED
                BY <1>9, <3>1, <4>2
        <3> QED
            BY <3>2, <3>3
    <2> QED
        BY <2>1, <2>2
<1>16. TokenIsStored'
    BY <1>1, <1>8 DEF StoreInv, TokenIsStored
<1>17. InsertedBeforeCommit'
    BY <1>4, <1>7, <1>8 DEF StoreInv, InsertedBeforeCommit
<1> QED
    BY <1>11, <1>12, <1>13, <1>14, <1>15, <1>16, <1>17 DEF StoreInv

(* An insert keeps every stored row and stores the rows of the batch: if   *)
(* the token was seen before, they were stored with the block it came from *)
(* or before, since that block's ranges reach as far.                      *)
LEMMA InsertStores ==
    ASSUME TypeOK, StoreInv, NEW w \in Workers,
           spansRaw' = InsertSpans(spansRaw, rows[w], DedupToken(offsets[w]))
    PROVE  /\ Stored \subseteq Stored'
           /\ Range(rows[w]) \subseteq Stored'
           /\ \A b \in spansRaw' : b \in spansRaw \/ b.token = offsets[w]
<1>1. Stored \subseteq Stored'
    BY StoredGrows DEF InsertSpans
<1>2. \A b \in spansRaw' : b \in spansRaw \/ b.token = offsets[w]
    BY DEF InsertSpans, DedupToken
<1>3. Range(rows[w]) \subseteq Stored'
    <2>1. CASE rows[w] = <<>>
        BY <2>1, EmptyRange
    <2>2. CASE rows[w] # <<>> /\ \E b \in spansRaw : b.token = offsets[w]
        <3> SUFFICES ASSUME NEW m \in Range(rows[w]) PROVE m \in Stored
            BY <1>1
        <3>1. PICK b \in spansRaw : b.token = offsets[w]
            BY <2>2
        <3>2. m = <<m[1], m[2]>> /\ m[1] \in Partitions /\ m[2] \in Nat
            BY Ranges
        <3>3. m[2] <= b.token[m[1]].hi /\ Due(m[1], m[2])
            BY <3>1 DEF StoreInv, RowsAreTracked
        <3>4. m[2] \in 0 .. b.token[m[1]].hi
            BY <3>2, <3>3, Ranges
        <3> QED
            BY <3>2, <3>3, <3>4 DEF StoreInv, TokenIsStored
    <2>3. CASE rows[w] # <<>> /\ ~\E b \in spansRaw : b.token = offsets[w]
        <3>1. [token |-> offsets[w], rows |-> rows[w]] \in spansRaw'
            BY <2>3 DEF InsertSpans, DedupToken
        <3> QED
            BY <3>1 DEF Stored
    <2> QED
        BY <2>1, <2>2, <2>3
<1> QED
    BY <1>1, <1>2, <1>3

(* Storing more of what the batch of a process holds keeps the invariant.  *)
LEMMA StoringKeeps ==
    ASSUME TypeOK, StoreInv, NEW w \in Workers,
           UNCHANGED <<log, committed, assigned, position, rows, offsets>>,
           Stored \subseteq Stored',
           \A b \in spansRaw' : b \in spansRaw \/ b.token = offsets[w],
           spansRaw' = spansRaw \/ Range(rows[w]) \subseteq Stored',
           \A v \in Workers : pc'[v] \in {"commit", "finalCommit"} =>
                pc[v] \in {"commit", "finalCommit"} \/ Range(rows[v]) \subseteq Stored'
    PROVE  StoreInv'
<1>1. \A v \in Workers : Kept(v) \subseteq Kept(v)'
    BY DEF Kept
<1>2. \A p, o : Due(p, o)' <=> Due(p, o)
    BY DEF Due
<1>3. WithinLog'
    BY DEF StoreInv, WithinLog
<1>4. CommittedStored'
    BY <1>2 DEF StoreInv, CommittedStored
<1>5. ReadIsKept'
    BY <1>1, <1>2 DEF StoreInv, ReadIsKept
<1>6. RowsAreTracked'
    BY <1>2 DEF StoreInv, RowsAreTracked
<1>7. TrackedIsKept'
    BY <1>1, <1>2 DEF StoreInv, TrackedIsKept
<1>8. TokenIsStored'
    <2> SUFFICES ASSUME NEW b \in spansRaw', NEW p \in Partitions,
                        NEW o \in 0 .. b.token[p].hi, Due(p, o)
                 PROVE  <<p, o>> \in Stored'
        BY <1>2 DEF TokenIsStored
    <2>1. CASE b \in spansRaw
        BY <2>1 DEF StoreInv, TokenIsStored
    <2>2. CASE b \notin spansRaw
        <3>1. <<p, o>> \in Kept(w)
            BY <2>2 DEF StoreInv, TrackedIsKept
        <3> QED
            BY <2>2, <3>1 DEF Kept
    <2> QED
        BY <2>1, <2>2
<1>9. InsertedBeforeCommit'
    BY DEF StoreInv, InsertedBeforeCommit
<1> QED
    BY <1>3, <1>4, <1>5, <1>6, <1>7, <1>8, <1>9 DEF StoreInv

LEMMA InsertKeeps ==
    ASSUME TypeOK, StoreInv, NEW w \in Workers, Insert(w)
    PROVE  StoreInv'
<1>1. UNCHANGED <<log, committed, assigned, position, rows, offsets>>
    BY DEF Insert, readVars, batchVars
<1>2. spansRaw' = InsertSpans(spansRaw, rows[w], DedupToken(offsets[w]))
    BY DEF Insert
<1>3. \A v \in Workers : v # w => pc'[v] = pc[v]
    BY DEF Insert, TypeOK
<1> QED
    BY <1>1, <1>2, <1>3, InsertStores, StoringKeeps

LEMMA InsertErrorKeeps ==
    ASSUME TypeOK, StoreInv, NEW w \in Workers, InsertError(w)
    PROVE  StoreInv'
<1>1. UNCHANGED <<log, committed, assigned, position, rows, offsets>>
    BY DEF InsertError, readVars, batchVars
<1>2. \A v \in Workers : pc'[v] \in {"commit", "finalCommit"}
                            => pc[v] \in {"commit", "finalCommit"}
    BY DEF InsertError, AfterInsertError, AfterFailure, TypeOK
<1>3. CASE spansRaw' = spansRaw
    BY <1>1, <1>2, <1>3, Quiet
<1>4. CASE spansRaw' = InsertSpans(spansRaw, rows[w], DedupToken(offsets[w]))
    BY <1>1, <1>2, <1>4, InsertStores, StoringKeeps
<1> QED
    BY <1>3, <1>4 DEF InsertError

(* The offsets a commit sends are read and, at the commit, stored.         *)
LEMMA CommitAcknowledgesStored ==
    ASSUME TypeOK, StoreInv, NEW w \in Workers, pc[w] \in {"commit", "finalCommit"},
           NEW p \in Partitions
    PROVE  /\ CommitOffsets(w)[p] \in Nat
           /\ CommitOffsets(w)[p] <= Len(log[p])
           /\ \A o \in 0 .. CommitOffsets(w)[p] - 1 : Due(p, o) => <<p, o>> \in Stored
<1>1. Kept(w) = Stored
    BY DEF StoreInv, InsertedBeforeCommit, Kept
<1>2. CASE p \in assigned[w]
    <2>1. CommitOffsets(w)[p] = position[w][p]
        BY <1>2 DEF CommitOffsets
    <2> QED
        BY <1>1, <1>2, <2>1, Ranges DEF StoreInv, WithinLog, ReadIsKept
<1>3. CASE p \notin assigned[w]
    <2>1. CommitOffsets(w)[p] = committed[p]
        BY <1>3 DEF CommitOffsets
    <2> QED
        BY <2>1, Ranges DEF StoreInv, WithinLog, CommittedStored
<1> QED
    BY <1>2, <1>3

(* A commit of what is stored keeps the invariant, whatever the batch.     *)
LEMMA CommittingKeeps ==
    ASSUME TypeOK, StoreInv, NEW w \in Workers, pc[w] \in {"commit", "finalCommit"},
           committed' = CommitOffsets(w),
           UNCHANGED <<log, assigned, position, rows, offsets, spansRaw>>,
           \A v \in Workers : pc'[v] \in {"commit", "finalCommit"}
                                => pc[v] \in {"commit", "finalCommit"}
    PROVE  StoreInv'
<1>1. Stored' = Stored /\ \A v \in Workers : Kept(v)' = Kept(v)
    BY DEF Stored, Kept
<1>2. \A p, o : Due(p, o)' <=> Due(p, o)
    BY DEF Due
<1>3. WithinLog' /\ CommittedStored'
    BY <1>1, <1>2, CommitAcknowledgesStored DEF StoreInv, WithinLog, CommittedStored
<1> QED
    BY <1>1, <1>2, <1>3
    DEF StoreInv, ReadIsKept, RowsAreTracked, TrackedIsKept, TokenIsStored,
        InsertedBeforeCommit

(* Emptying a batch keeps the invariant if its rows are stored, or if the  *)
(* process forgets what it read along with it; committing stored offsets   *)
(* in the same step does no harm.                                          *)
LEMMA ResetKeeps ==
    ASSUME TypeOK, StoreInv, NEW w \in Workers, ResetBatch(w),
           UNCHANGED <<log, spansRaw>>,
           \A p \in Partitions :
                /\ committed'[p] <= Len(log[p])
                /\ \A o \in 0 .. committed'[p] - 1 : Due(p, o) => <<p, o>> \in Stored,
           \/ UNCHANGED <<assigned, position>> /\ Range(rows[w]) \subseteq Stored
           \/ /\ assigned' = [assigned EXCEPT ![w] = {}]
              /\ position' = [position EXCEPT ![w] = [p \in Partitions |-> 0]],
           \A v \in Workers : pc'[v] \in {"commit", "finalCommit"}
                                => v # w /\ pc[v] \in {"commit", "finalCommit"}
    PROVE  StoreInv'
<1>1. Stored' = Stored /\ \A p, o : Due(p, o)' <=> Due(p, o)
    BY DEF Stored, Due
<1>2. \A v \in Workers : v # w => /\ rows'[v] = rows[v]
                                  /\ offsets'[v] = offsets[v]
                                  /\ assigned'[v] = assigned[v]
                                  /\ position'[v] = position[v]
    BY DEF ResetBatch, TypeOK
<1>3. rows'[w] = <<>> /\ Range(rows'[w]) = {}
    BY EmptyRange DEF ResetBatch, TypeOK
<1>4. \A p \in Partitions : offsets'[w][p].hi = -1
    BY DEF ResetBatch, TypeOK, NoOffsets, NoBounds
<1>5. \A v \in Workers : v # w => Kept(v)' = Kept(v)
    BY <1>1, <1>2 DEF Kept
<1>6. WithinLog'
    <2>1. ASSUME NEW v \in Workers, NEW p \in Partitions
          PROVE  position'[v][p] <= Len(log[p]) /\ offsets'[v][p].hi < Len(log[p])
        <3>1. position[v][p] <= Len(log[p]) /\ offsets[v][p].hi < Len(log[p])
            BY DEF StoreInv, WithinLog
        <3>2. CASE v # w
            BY <1>2, <3>1, <3>2
        <3>3. CASE v = w
            <4>1. offsets'[w][p].hi < Len(log[p])
                BY <1>4, Ranges
            <4>2. position'[w][p] \in {position[w][p], 0}
                BY DEF TypeOK
            <4> QED
                BY <3>1, <3>3, <4>1, <4>2, Ranges
        <3> QED
            BY <3>2, <3>3
    <2> QED
        BY <2>1 DEF StoreInv, WithinLog
<1>7. CommittedStored' /\ TokenIsStored'
    BY <1>1 DEF StoreInv, CommittedStored, TokenIsStored
<1>8. ReadIsKept'
    <2> SUFFICES ASSUME NEW v \in Workers, NEW p \in assigned'[v],
                        NEW o \in 0 .. position'[v][p] - 1, Due(p, o)
                 PROVE  <<p, o>> \in Kept(v)'
        BY <1>1 DEF ReadIsKept
    <2>1. CASE v # w
        BY <1>2, <1>5, <2>1 DEF StoreInv, ReadIsKept
    <2>2. CASE v = w
        <3>1. assigned'[w] # {}
            BY <2>2
        <3>2. UNCHANGED <<assigned, position>> /\ Range(rows[w]) \subseteq Stored
            BY <3>1 DEF TypeOK
        <3>3. <<p, o>> \in Kept(w)
            BY <2>2, <3>2 DEF StoreInv, ReadIsKept
        <3> QED
            BY <1>1, <2>2, <3>2, <3>3 DEF Kept
    <2> QED
        BY <2>1, <2>2
<1>9. RowsAreTracked'
    BY <1>1, <1>2, <1>3 DEF StoreInv, RowsAreTracked
<1>10. TrackedIsKept'
    <2> SUFFICES ASSUME NEW v \in Workers, NEW p \in Partitions,
                        NEW o \in 0 .. offsets'[v][p].hi, Due(p, o)
                 PROVE  <<p, o>> \in Kept(v)'
        BY <1>1 DEF TrackedIsKept
    <2>1. v # w
        BY <1>4
    <2> QED
        BY <1>2, <1>5, <2>1 DEF StoreInv, TrackedIsKept
<1>11. InsertedBeforeCommit'
    BY <1>1, <1>2 DEF StoreInv, InsertedBeforeCommit
<1> QED
    BY <1>6, <1>7, <1>8, <1>9, <1>10, <1>11 DEF StoreInv

LEMMA CommitKeeps ==
    ASSUME TypeOK, StoreInv, NEW w \in Workers, Commit(w)
    PROVE  StoreInv'
<1>1. UNCHANGED <<log, assigned, position, spansRaw>> /\ ResetBatch(w)
    BY DEF Commit, readVars
<1>2. pc[w] \in {"commit", "finalCommit"} /\ committed' = CommitOffsets(w)
    BY DEF Commit
<1>3. Range(rows[w]) \subseteq Stored
    BY <1>2 DEF StoreInv, InsertedBeforeCommit
<1>4. \A v \in Workers : pc'[v] \in {"commit", "finalCommit"}
                            => v # w /\ pc[v] \in {"commit", "finalCommit"}
    BY DEF Commit, TypeOK
<1> QED
    BY <1>1, <1>2, <1>3, <1>4, CommitAcknowledgesStored, ResetKeeps

LEMMA CommitErrorKeeps ==
    ASSUME TypeOK, StoreInv, NEW w \in Workers, CommitError(w)
    PROVE  StoreInv'
<1>1. UNCHANGED <<log, assigned, position, rows, offsets, spansRaw>>
    BY DEF CommitError, readVars, batchVars
<1>2. pc[w] \in {"commit", "finalCommit"}
    BY DEF CommitError
<1>3. \A v \in Workers : pc'[v] \in {"commit", "finalCommit"}
                            => pc[v] \in {"commit", "finalCommit"}
    BY DEF CommitError, AfterFailure, TypeOK
<1>4. CASE committed' = committed
    BY <1>1, <1>3, <1>4, Quiet
<1>5. CASE committed' = CommitOffsets(w)
    BY <1>1, <1>2, <1>3, <1>5, CommittingKeeps
<1> QED
    BY <1>4, <1>5 DEF CommitError

(* The end of a process keeps the invariant: it forgets what it read       *)
(* together with the batch.                                                *)
LEMMA ForgetKeeps ==
    ASSUME TypeOK, StoreInv, NEW w \in Workers, Forget(w), UNCHANGED <<log, committed, spansRaw>>
    PROVE  StoreInv'
<1>1. \A v \in Workers : pc'[v] \in {"commit", "finalCommit"}
                            => v # w /\ pc[v] \in {"commit", "finalCommit"}
    BY DEF Forget, TypeOK
<1>2. \A p \in Partitions :
        /\ committed'[p] <= Len(log[p])
        /\ \A o \in 0 .. committed'[p] - 1 : Due(p, o) => <<p, o>> \in Stored
    BY DEF StoreInv, WithinLog, CommittedStored
<1> QED
    BY <1>1, <1>2, ResetKeeps DEF Forget

LEMMA InitStores == Init => StoreInv
<1> SUFFICES ASSUME Init PROVE StoreInv
    OBVIOUS
<1>1. \A p \in Partitions : Len(log[p]) = 0 /\ committed[p] = 0
    BY DEF Init
<1>2. \A w \in Workers : /\ assigned[w] = {} /\ pc[w] = "down"
                         /\ rows[w] = <<>> /\ Range(rows[w]) = {}
    BY EmptyRange DEF Init
<1>3. \A w \in Workers, p \in Partitions : position[w][p] = 0 /\ offsets[w][p].hi = -1
    BY DEF Init, NoOffsets, NoBounds
<1>4. spansRaw = {}
    BY DEF Init
<1>5. WithinLog
    BY <1>1, <1>3, <1>4 DEF WithinLog
<1>6. CommittedStored
    BY <1>1 DEF CommittedStored
<1>7. ReadIsKept /\ RowsAreTracked /\ InsertedBeforeCommit
    BY <1>2 DEF ReadIsKept, RowsAreTracked, InsertedBeforeCommit
<1>8. TrackedIsKept
    BY <1>3 DEF TrackedIsKept
<1>9. TokenIsStored
    BY <1>4 DEF TokenIsStored
<1> QED
    BY <1>5, <1>6, <1>7, <1>8, <1>9 DEF StoreInv

LEMMA StoreStep == TypeOK /\ StoreInv /\ [Next]_vars => StoreInv'
<1> SUFFICES ASSUME TypeOK, StoreInv, [Next]_vars PROVE StoreInv'
    OBVIOUS
<1>1. ASSUME NEW p \in Partitions, Publish(p) PROVE StoreInv'
    BY <1>1, PublishKeeps
<1>2. ASSUME NEW w \in Workers,
             \/ Start(w) \/ Rejoin(w) \/ PollIdle(w) \/ LeaveLoop(w) \/ Stop(w)
             \/ PollError(w) \/ Expire(w) \/ DlqReport(w)
      PROVE  StoreInv'
    <2>1. UNCHANGED <<log, committed, assigned, position, rows, offsets, spansRaw>>
        BY <1>2 DEF Start, Rejoin, PollIdle, LeaveLoop, Stop, PollError, Expire, DlqReport,
                    readVars, batchVars
    <2>2. \A v \in Workers : pc'[v] \in {"commit", "finalCommit"}
                                => pc[v] \in {"commit", "finalCommit"}
        BY <1>2 DEF Start, Rejoin, PollIdle, LeaveLoop, Stop, PollError, Expire, DlqReport,
                    FirstShutdownPhase, TypeOK
    <2> QED
        BY <2>1, <2>2, Quiet
<1>3. ASSUME NEW w \in Workers, CommitRejected(w) PROVE StoreInv'
    <2>1. UNCHANGED <<log, committed, assigned, position, rows, offsets, spansRaw>>
        BY <1>3 DEF CommitRejected, readVars, batchVars
    <2>2. \A v \in Workers : pc'[v] \in {"commit", "finalCommit"}
                                => pc[v] \in {"commit", "finalCommit"}
        BY <1>3 DEF CommitRejected, AfterFailure, TypeOK
    <2> QED
        BY <2>1, <2>2, Quiet
<1>4. ASSUME NEW w \in Workers, Adopt(w) PROVE StoreInv'
    BY <1>4, AdoptKeeps
<1>5. ASSUME NEW w \in Workers, NEW p \in Partitions, Poll(w, p) PROVE StoreInv'
    BY <1>5, PollKeeps
<1>6. ASSUME NEW w \in Workers, Insert(w) \/ InsertError(w) PROVE StoreInv'
    BY <1>6, InsertKeeps, InsertErrorKeeps
<1>7. ASSUME NEW w \in Workers, Commit(w) \/ CommitError(w) PROVE StoreInv'
    BY <1>7, CommitKeeps, CommitErrorKeeps
<1>8. ASSUME NEW w \in Workers, Close(w) \/ Crash(w) PROVE StoreInv'
    BY <1>8, ForgetKeeps DEF Close, Crash
<1>9. CASE UNCHANGED vars
    BY <1>9, Quiet DEF vars, readVars, batchVars
<1> QED
    BY <1>1, <1>2, <1>3, <1>4, <1>5, <1>6, <1>7, <1>8, <1>9 DEF Next, Progress, Fault

(* StoreInvariant: in every reachable state, whatever lies below a         *)
(* committed offset, a read position or the end of a token's range is      *)
(* stored or still in the batch that will store it.                        *)
THEOREM StoreInvariant == Spec => []StoreInv
BY TypeCorrect, InitStores, StoreStep, PTL DEF Spec

(* NothingLost: however processes crash, calls fail and partitions move,   *)
(* an offset is committed only once its rows are in spans_raw.             *)
THEOREM NothingLost == Spec => []CommittedStored
<1>1. StoreInv => CommittedStored
    BY DEF StoreInv
<1> QED
    BY <1>1, StoreInvariant, PTL
-----------------------------------------------------------------------------
(* Commits of the group *)

LEMMA OwnsInit == Init => CurrentOwns
BY DEF Init, CurrentOwns

(* A process of the latest generation commits nothing of another one, and  *)
(* nothing below what is committed.                                        *)
LEMMA CommitMovesOn ==
    ASSUME TypeOK, CurrentOwns, NEW w \in Workers, CanCommit(w)
    PROVE  /\ \A p \in Partitions : committed[p] <= CommitOffsets(w)[p]
           /\ \A v \in current : v # w =>
                \A p \in assigned[v] : CommitOffsets(w)[p] = committed[p]
           /\ \A p \in assigned[w] : CommitOffsets(w)[p] = position[w][p]
<1>1. w \in current
    BY DEF CanCommit
<1>2. ASSUME NEW p \in Partitions PROVE committed[p] <= CommitOffsets(w)[p]
    <2>1. CASE p \in assigned[w]
        BY <1>1, <2>1, Ranges DEF CommitOffsets, CurrentOwns
    <2>2. CASE p \notin assigned[w]
        BY <2>2, Ranges DEF CommitOffsets
    <2> QED
        BY <2>1, <2>2
<1>3. ASSUME NEW v \in current, v # w, NEW p \in assigned[v]
      PROVE  CommitOffsets(w)[p] = committed[p]
    <2>1. v \in Workers /\ p \in Partitions
        BY DEF TypeOK
    <2>2. p \notin assigned[w]
        BY <1>1, <1>3 DEF CurrentOwns
    <2> QED
        BY <2>1, <2>2 DEF CommitOffsets
<1>4. ASSUME NEW p \in assigned[w] PROVE CommitOffsets(w)[p] = position[w][p]
    BY DEF CommitOffsets, TypeOK
<1> QED
    BY <1>2, <1>3, <1>4

LEMMA OwnsStep == TypeOK /\ CurrentOwns /\ [Next]_vars => CurrentOwns'
<1> SUFFICES ASSUME TypeOK, CurrentOwns, [Next]_vars PROVE CurrentOwns'
    OBVIOUS
<1>1. CASE UNCHANGED <<committed, owner, current, assigned, position>>
    BY <1>1 DEF CurrentOwns
<1>2. ASSUME NEW w \in Workers, Start(w) \/ Rejoin(w) \/ Expire(w) PROVE CurrentOwns'
    BY <1>2 DEF Start, Rejoin, Expire, Join, Regroup, CurrentOwns
<1>3. ASSUME NEW w \in Workers, Adopt(w) PROVE CurrentOwns'
    <2>1. UNCHANGED <<committed, owner>> /\ current' = current \cup {w}
        BY <1>3 DEF Adopt
    <2>2. ASSUME NEW v \in current, v # w
          PROVE  assigned'[v] = assigned[v] /\ position'[v] = position[v]
        BY <1>3, <2>2 DEF Adopt, TypeOK
    <2>3. w \notin current /\ w \in Workers
        BY <1>3 DEF Adopt
    <2>4. ASSUME NEW p \in assigned'[w]
          PROVE  owner[p] = w /\ committed[p] <= position'[w][p]
        <3>1. p \in Partitions /\ owner[p] = w
            BY <1>3 DEF Adopt, TypeOK
        <3>2. position'[w][p] = committed[p]
            BY <1>3, <3>1 DEF Adopt, ResumeAt, TypeOK
        <3> QED
            BY <3>1, <3>2, Ranges
    <2> QED
        BY <2>1, <2>2, <2>3, <2>4 DEF CurrentOwns
<1>4. ASSUME NEW w \in Workers, NEW p \in Partitions, Poll(w, p) PROVE CurrentOwns'
    <2>1. UNCHANGED <<committed, owner, current, assigned>>
        BY <1>4 DEF Poll, groupVars
    <2>2. ASSUME NEW v \in Workers, NEW q \in Partitions
          PROVE  position[v][q] <= position'[v][q]
        <3>1. position' = [position EXCEPT ![w] = [position[w] EXCEPT ![p] = position[w][p] + 1]]
            BY <1>4 DEF Poll
        <3> QED
            BY SMTT(30), <3>1, Ranges DEF TypeOK
    <2>3. ASSUME NEW v \in current, NEW q \in assigned[v]
          PROVE  committed[q] <= position'[v][q]
        <3>1. v \in Workers /\ q \in Partitions
            BY DEF TypeOK
        <3>2. committed[q] <= position[v][q]
            BY DEF CurrentOwns
        <3>3. position[v][q] <= position'[v][q] /\ position'[v][q] \in Nat
            <4>1. position'[v][q] \in Nat
                BY SMTT(30), <1>4, <3>1, Ranges DEF Poll, TypeOK
            <4> QED
                BY <2>2, <3>1, <4>1
        <3> QED
            BY <3>1, <3>2, <3>3, Ranges
    <2> QED
        BY <2>1, <2>3 DEF CurrentOwns
<1>5. ASSUME NEW w \in Workers, Commit(w) \/ CommitError(w) PROVE CurrentOwns'
    <2>1. UNCHANGED <<owner, current, assigned, position>> /\ CanCommit(w)
        BY <1>5 DEF Commit, CommitError, groupVars, readVars
    <2>2. CASE committed' = committed
        BY <2>1, <2>2 DEF CurrentOwns
    <2>3. CASE committed' = CommitOffsets(w)
        <3> SUFFICES ASSUME NEW v \in current, NEW p \in assigned[v]
                     PROVE  committed'[p] <= position[v][p]
            BY <2>1 DEF CurrentOwns
        <3>1. v \in Workers /\ p \in Partitions
            BY DEF TypeOK
        <3>2. CASE v = w
            BY <2>1, <2>3, <3>1, <3>2, CommitMovesOn, Ranges
        <3>3. CASE v # w
            BY <2>1, <2>3, <3>3, CommitMovesOn DEF CurrentOwns
        <3> QED
            BY <3>2, <3>3
    <2> QED
        BY <1>5, <2>2, <2>3 DEF Commit, CommitError
<1>6. ASSUME NEW w \in Workers, Close(w) \/ Crash(w) PROVE CurrentOwns'
    <2>1. /\ current' = {} \/ (current' \subseteq current /\ owner' = owner)
          /\ committed' = committed
        <3>1. CASE Close(w)
            BY <3>1 DEF Close, Regroup, groupVars
        <3>2. CASE Crash(w)
            BY <3>2 DEF Crash
        <3> QED
            BY <1>6, <3>1, <3>2
    <2>2. ASSUME NEW v \in Workers, v # w
          PROVE  assigned'[v] = assigned[v] /\ position'[v] = position[v]
        BY <1>6, <2>2 DEF Close, Crash, Forget, TypeOK
    <2>3. assigned'[w] = {}
        BY <1>6 DEF Close, Crash, Forget, TypeOK
    <2>4. current \subseteq Workers
        BY DEF TypeOK
    <2> QED
        BY <2>1, <2>2, <2>3, <2>4 DEF CurrentOwns
<1>7. ASSUME \/ \E p \in Partitions : Publish(p)
             \/ \E w \in Workers :
                    \/ PollIdle(w) \/ LeaveLoop(w) \/ Insert(w) \/ CommitRejected(w)
                    \/ Stop(w) \/ PollError(w) \/ InsertError(w) \/ DlqReport(w)
             \/ UNCHANGED vars
      PROVE  UNCHANGED <<committed, owner, current, assigned, position>>
    BY <1>7 DEF Publish, PollIdle, LeaveLoop, Insert, CommitRejected, Stop, PollError,
                InsertError, DlqReport, vars, groupVars, readVars
<1> QED
    BY <1>1, <1>2, <1>3, <1>4, <1>5, <1>6, <1>7 DEF Next, Progress, Fault

(* OnlyOwnersRead: a member of the latest generation reads what it owns,   *)
(* from the committed offset on, for any group and any rebalance.          *)
THEOREM OnlyOwnersRead == Spec => []CurrentOwns
BY TypeCorrect, OwnsInit, OwnsStep, PTL DEF Spec

LEMMA NoRegress ==
    TypeOK /\ CurrentOwns /\ [Next]_vars =>
        [\A p \in Partitions : committed[p] <= committed'[p]]_vars
<1> SUFFICES ASSUME TypeOK, CurrentOwns, [Next]_vars, ~UNCHANGED vars
             PROVE  \A p \in Partitions : committed[p] <= committed'[p]
    OBVIOUS
<1>1. CASE committed' = committed
    BY <1>1, Ranges
<1>2. ASSUME NEW w \in Workers, Commit(w) \/ CommitError(w)
      PROVE  \A p \in Partitions : committed[p] <= committed'[p]
    BY <1>1, <1>2, CommitMovesOn DEF Commit, CommitError
<1>3. ASSUME \/ \E p \in Partitions : Publish(p)
             \/ \E w \in Workers :
                    \/ Start(w) \/ Rejoin(w) \/ Adopt(w) \/ (\E p \in Partitions : Poll(w, p))
                    \/ PollIdle(w) \/ LeaveLoop(w) \/ Insert(w) \/ CommitRejected(w) \/ Close(w)
                    \/ Stop(w) \/ Crash(w) \/ PollError(w) \/ InsertError(w)
                    \/ Expire(w) \/ DlqReport(w)
      PROVE  committed' = committed
    BY ZenonT(30), <1>3 DEF Publish, Start, Rejoin, Adopt, Poll, PollIdle, LeaveLoop, Insert,
                CommitRejected, Close, Stop, Crash, PollError, InsertError, Expire, DlqReport
<1> QED
    BY <1>1, <1>2, <1>3 DEF Next, Progress, Fault

(* OffsetsOnlyAdvance: no commit moves an offset of the group backwards.   *)
THEOREM OffsetsOnlyAdvance == Spec => CommitNeverRegresses
BY TypeCorrect, OnlyOwnersRead, NoRegress, PTL DEF Spec, CommitNeverRegresses
-----------------------------------------------------------------------------
(* The consumer group implements SpanDelivery *)

LEMMA DeliveryInit == Init => Delivery!Init
BY DEF Init, Delivery!Init, Stored

(* Whatever an insert adds to the store was due and in the batch.          *)
LEMMA InsertDelivers ==
    ASSUME TypeOK, StoreInv, NEW w \in Workers,
           UNCHANGED <<log, committed>>,
           spansRaw' = InsertSpans(spansRaw, rows[w], DedupToken(offsets[w]))
    PROVE  Delivery!Deliver
<1>1. Stored \subseteq Stored'
    BY InsertStores
<1>2. ASSUME NEW m \in Stored' \ Stored PROVE Due(m[1], m[2])
    <2>1. PICK b \in spansRaw' : m \in Range(b.rows)
        BY DEF Stored
    <2>2. b \notin spansRaw
        BY <2>1 DEF Stored
    <2>3. b.rows = rows[w]
        BY <2>2 DEF InsertSpans
    <2> QED
        BY <2>1, <2>3 DEF StoreInv, RowsAreTracked
<1> QED
    BY <1>1, <1>2 DEF Delivery!Deliver, Delivery!Due, Due

LEMMA CommitAcknowledges ==
    ASSUME TypeOK, StoreInv, CurrentOwns, NEW w \in Workers,
           pc[w] \in {"commit", "finalCommit"}, CanCommit(w),
           UNCHANGED <<log, spansRaw>>, committed' = CommitOffsets(w)
    PROVE  Delivery!Acknowledge
<1>1. Stored' = Stored
    BY DEF Stored
<1>2. ASSUME NEW p \in Partitions
      PROVE  /\ committed[p] <= committed'[p]
             /\ committed'[p] <= Len(log[p])
             /\ \A o \in 0 .. committed'[p] - 1 : Due(p, o) => <<p, o>> \in Stored
    BY CommitMovesOn, CommitAcknowledgesStored
<1> QED
    BY <1>1, <1>2 DEF Delivery!Acknowledge, Delivery!Due, Due

LEMMA DeliveryStep ==
    TypeOK /\ StoreInv /\ CurrentOwns /\ [Next]_vars => [Delivery!Next]_(Delivery!vars)
<1> SUFFICES ASSUME TypeOK, StoreInv, CurrentOwns, [Next]_vars
             PROVE  Delivery!Next \/ UNCHANGED Delivery!vars
    OBVIOUS
<1>1. ASSUME NEW p \in Partitions, Publish(p) PROVE Delivery!Next
    <2>1. UNCHANGED <<Stored, committed>>
        BY <1>1 DEF Publish, Stored
    <2> QED
        BY <1>1, <2>1 DEF Publish, Delivery!Next, Delivery!Publish
<1>2. CASE UNCHANGED <<log, committed, spansRaw>>
    BY <1>2 DEF Delivery!vars, Stored
<1>3. ASSUME NEW w \in Workers, Insert(w) \/ InsertError(w)
      PROVE  Delivery!Next \/ UNCHANGED Delivery!vars
    <2>1. UNCHANGED <<log, committed>>
        BY <1>3 DEF Insert, InsertError
    <2>2. \/ spansRaw' = spansRaw
          \/ spansRaw' = InsertSpans(spansRaw, rows[w], DedupToken(offsets[w]))
        BY <1>3 DEF Insert, InsertError
    <2> QED
        BY <1>2, <2>1, <2>2, InsertDelivers DEF Delivery!Next
<1>4. ASSUME NEW w \in Workers, Commit(w) \/ CommitError(w)
      PROVE  Delivery!Next \/ UNCHANGED Delivery!vars
    <2>1. /\ UNCHANGED <<log, spansRaw>> /\ CanCommit(w)
          /\ pc[w] \in {"commit", "finalCommit"}
        BY <1>4 DEF Commit, CommitError
    <2>2. committed' = committed \/ committed' = CommitOffsets(w)
        BY <1>4 DEF Commit, CommitError
    <2> QED
        BY <1>2, <2>1, <2>2, CommitAcknowledges DEF Delivery!Next
<1>5. ASSUME \/ \E w \in Workers :
                    \/ Start(w) \/ Rejoin(w) \/ Adopt(w) \/ (\E p \in Partitions : Poll(w, p))
                    \/ PollIdle(w) \/ LeaveLoop(w) \/ CommitRejected(w) \/ Close(w)
                    \/ Stop(w) \/ Crash(w) \/ PollError(w) \/ Expire(w) \/ DlqReport(w)
             \/ UNCHANGED vars
      PROVE  UNCHANGED <<log, committed, spansRaw>>
    BY ZenonT(30), <1>5 DEF Start, Rejoin, Adopt, Poll, PollIdle, LeaveLoop, CommitRejected, Close,
                Stop, Crash, PollError, Expire, DlqReport, vars
<1> QED
    BY <1>1, <1>2, <1>3, <1>4, <1>5 DEF Next, Progress, Fault

(* ImplementsDelivery: behind the batches, processes and rebalances the    *)
(* consumer group is the at-least-once delivery SpanDelivery specifies.    *)
THEOREM ImplementsDelivery == Spec => DeliversAtLeastOnce
BY TypeCorrect, StoreInvariant, OnlyOwnersRead, DeliveryInit, DeliveryStep, PTL
DEF Spec, Delivery!Spec, DeliversAtLeastOnce
-----------------------------------------------------------------------------
(* Dead letters *)

(* A rejected message that was read under the assignment, or committed     *)
(* past, is in the table.                                                  *)
PoisonRecorded ==
    /\ \A p \in Partitions : \A o \in 0 .. committed[p] - 1 :
            Poison(p, o) => <<p, o>> \in deadTable
    /\ \A w \in Workers : \A p \in assigned[w] : \A o \in 0 .. position[w][p] - 1 :
            Poison(p, o) => <<p, o>> \in deadTable

LEMMA PoisonInit == Init => PoisonRecorded
BY DEF Init, PoisonRecorded

LEMMA PoisonPublished ==
    ASSUME TypeOK, StoreInv, PoisonRecorded, NEW q \in Partitions, Publish(q)
    PROVE  PoisonRecorded'
<1>1. UNCHANGED <<committed, assigned, position, deadTable>>
    BY DEF Publish, readVars, deadVars
<1>2. ASSUME NEW p \in Partitions, NEW o \in Nat, o < Len(log[p])
      PROVE  Poison(p, o)' <=> Poison(p, o)
    <2>1. PICK m \in Payloads : log' = [log EXCEPT ![q] = Append(@, m)]
        BY DEF Publish
    <2>2. log[p] \in Seq(Payloads) /\ log[q] \in Seq(Payloads) /\ log \in [Partitions -> Seq(Payloads)]
        BY DEF TypeOK
    <2>3. CASE p = q
        BY <1>2, <2>1, <2>2, <2>3 DEF Poison
    <2>4. CASE p # q
        BY <1>2, <2>1, <2>2, <2>4 DEF Poison
    <2> QED
        BY <2>3, <2>4
<1>3. ASSUME NEW p \in Partitions, NEW o \in 0 .. committed[p] - 1, Poison(p, o)'
      PROVE  <<p, o>> \in deadTable
    <2>1. o \in Nat /\ o < Len(log[p])
        BY Ranges DEF StoreInv, WithinLog
    <2> QED
        BY <1>2, <1>3, <2>1 DEF PoisonRecorded
<1>4. ASSUME NEW w \in Workers, NEW p \in assigned[w],
             NEW o \in 0 .. position[w][p] - 1, Poison(p, o)'
      PROVE  <<p, o>> \in deadTable
    <2>1. p \in Partitions
        BY DEF TypeOK
    <2>2. o \in Nat /\ o < Len(log[p])
        BY <2>1, Ranges DEF StoreInv, WithinLog
    <2> QED
        BY <1>2, <1>4, <2>1, <2>2 DEF PoisonRecorded
<1> QED
    BY <1>1, <1>3, <1>4 DEF PoisonRecorded

LEMMA PoisonPolled ==
    ASSUME TypeOK, PoisonRecorded, "table" \notin FailingStores,
           NEW w \in Workers, NEW p \in Partitions, Poll(w, p)
    PROVE  PoisonRecorded'
<1> DEFINE o == position[w][p]
<1>1. UNCHANGED <<log, committed, assigned>> /\ o \in Nat
    BY Ranges DEF Poll
<1>2. \A q, k : Poison(q, k)' <=> Poison(q, k)
    BY <1>1 DEF Poison
<1>3. /\ position'[w][p] = o + 1
      /\ \A v \in Workers, q \in Partitions :
            ~(v = w /\ q = p) => position'[v][q] = position[v][q]
    BY DEF Poll, TypeOK
<1>4. deadTable \subseteq deadTable' /\ (Poison(p, o) => <<p, o>> \in deadTable')
    BY DEF Poll, DeadLetter, Poison
<1> HIDE DEF o
<1>5. ASSUME NEW v \in Workers, NEW q \in assigned[v],
             NEW k \in 0 .. position'[v][q] - 1, Poison(q, k)
      PROVE  <<q, k>> \in deadTable'
    <2>1. q \in Partitions
        BY DEF TypeOK
    <2>2. CASE k \in 0 .. position[v][q] - 1
        BY <1>4, <1>5, <2>2 DEF PoisonRecorded
    <2>3. CASE k \notin 0 .. position[v][q] - 1
        <3>1. v = w /\ q = p
            BY <1>3, <2>1, <2>3
        <3>2. k \in 0 .. o
            BY <1>1, <1>3, <3>1
        <3>3. k = o
            BY <1>1, <2>3, <3>1, <3>2 DEF o
        <3> QED
            BY <1>4, <1>5, <3>1, <3>3
    <2> QED
        BY <2>2, <2>3
<1>6. ASSUME NEW q \in Partitions, NEW k \in 0 .. committed[q] - 1, Poison(q, k)
      PROVE  <<q, k>> \in deadTable'
    BY <1>4, <1>6 DEF PoisonRecorded
<1> QED
    BY <1>1, <1>2, <1>5, <1>6 DEF PoisonRecorded

LEMMA PoisonStep ==
    ASSUME "table" \notin FailingStores
    PROVE  TypeOK /\ StoreInv /\ PoisonRecorded /\ [Next]_vars => PoisonRecorded'
<1> SUFFICES ASSUME TypeOK, StoreInv, PoisonRecorded, [Next]_vars PROVE PoisonRecorded'
    OBVIOUS
<1>1. CASE UNCHANGED <<log, committed, assigned, position, deadTable>>
    BY <1>1 DEF PoisonRecorded, Poison
<1>2. ASSUME NEW p \in Partitions, Publish(p) PROVE PoisonRecorded'
    BY <1>2, PoisonPublished
<1>3. ASSUME NEW w \in Workers, NEW p \in Partitions, Poll(w, p) PROVE PoisonRecorded'
    BY <1>3, PoisonPolled
<1>4. ASSUME NEW w \in Workers, Adopt(w) PROVE PoisonRecorded'
    <2>1. UNCHANGED <<log, committed, deadTable>>
        BY <1>4 DEF Adopt, deadVars
    <2>2. \A v \in Workers : v # w => assigned'[v] = assigned[v] /\ position'[v] = position[v]
        BY <1>4 DEF Adopt, TypeOK
    <2>3. \A p \in assigned'[w] : p \in Partitions /\ position'[w][p] = committed[p]
        BY <1>4 DEF Adopt, ResumeAt, TypeOK
    <2> QED
        BY <2>1, <2>2, <2>3 DEF PoisonRecorded, Poison
<1>5. ASSUME NEW w \in Workers, Commit(w) \/ CommitError(w) PROVE PoisonRecorded'
    <2>1. UNCHANGED <<log, assigned, position, deadTable>>
        BY <1>5 DEF Commit, CommitError, readVars, deadVars
    <2>2. \A p \in Partitions :
            \/ committed'[p] = committed[p]
            \/ p \in assigned[w] /\ committed'[p] = position[w][p]
        BY <1>5 DEF Commit, CommitError, CommitOffsets
    <2> QED
        BY <2>1, <2>2 DEF PoisonRecorded, Poison
<1>6. ASSUME NEW w \in Workers, Close(w) \/ Crash(w) PROVE PoisonRecorded'
    <2>1. UNCHANGED <<log, committed, deadTable>>
        BY <1>6 DEF Close, Crash
    <2>2. \A v \in Workers : v # w => assigned'[v] = assigned[v] /\ position'[v] = position[v]
        BY <1>6 DEF Close, Crash, Forget, TypeOK
    <2>3. assigned'[w] = {}
        BY <1>6 DEF Close, Crash, Forget, TypeOK
    <2> QED
        BY <2>1, <2>2, <2>3 DEF PoisonRecorded, Poison
<1>7. ASSUME \/ \E w \in Workers :
                    \/ Start(w) \/ Rejoin(w) \/ PollIdle(w) \/ LeaveLoop(w) \/ Insert(w)
                    \/ CommitRejected(w) \/ Stop(w) \/ PollError(w) \/ InsertError(w)
                    \/ Expire(w) \/ DlqReport(w)
             \/ UNCHANGED vars
      PROVE  UNCHANGED <<log, committed, assigned, position, deadTable>>
    BY <1>7 DEF Start, Rejoin, PollIdle, LeaveLoop, Insert, CommitRejected, Stop, PollError,
                InsertError, Expire, DlqReport, vars, readVars, deadVars
<1> QED
    BY <1>1, <1>2, <1>3, <1>4, <1>5, <1>6, <1>7 DEF Next, Progress, Fault

(* PoisonSurvives: as long as ClickHouse takes the dead-letter row, no     *)
(* rejected message is committed past without being recorded, whatever     *)
(* becomes of the copy in the producer's queue.                            *)
THEOREM PoisonSurvives ==
    ASSUME "table" \notin FailingStores
    PROVE  Spec => []PoisonIsKept
<1>1. PoisonRecorded => PoisonIsKept
    BY DEF PoisonRecorded, PoisonIsKept
<1> QED
    BY <1>1, TypeCorrect, StoreInvariant, PoisonInit, PoisonStep, PTL DEF Spec
-----------------------------------------------------------------------------
(* Replays *)

(* A batch holds rows from the committed offsets on, or it is one that the *)
(* table has seen and that only shutdown flushes again.                    *)
BatchIsNew(w) == \A m \in Range(rows[w]) : committed[m[1]] <= m[2]

BatchIsSeen(w) == rows[w] = <<>> \/ \E b \in spansRaw : b.token = DedupToken(offsets[w])

ReadsAhead == \A w \in Workers : \A p \in assigned[w] : committed[p] <= position[w][p]

InsertsNew(w) ==
    /\ \/ BatchIsNew(w)
       \/ BatchIsSeen(w) /\ pc[w] \in {"finalInsert", "finalCommit", "closing"}
    /\ pc[w] \in {"commit", "finalCommit"} => BatchIsSeen(w)

OneReplays == ReadsAhead /\ \A w \in Workers : InsertsNew(w)

LEMMA ReplaysInit == Init => OneReplays
BY EmptyRange DEF Init, OneReplays, ReadsAhead, InsertsNew, BatchIsNew

(* What InsertSpans leaves in the table: what was there, and the token.    *)
LEMMA InsertSees ==
    ASSUME NEW w \in Workers, spansRaw' = InsertSpans(spansRaw, rows[w], DedupToken(offsets[w])),
           UNCHANGED <<rows, offsets>>
    PROVE  spansRaw \subseteq spansRaw' /\ BatchIsSeen(w)'
<1> DEFINE block == [token |-> DedupToken(offsets[w]), rows |-> rows[w]]
<1>1. block.token = DedupToken(offsets[w])
    OBVIOUS
<1>2. (DedupToken(offsets[w]))' = DedupToken(offsets[w]) /\ rows'[w] = rows[w]
    BY DEF DedupToken
<1>3. spansRaw' = IF BatchIsSeen(w) THEN spansRaw ELSE spansRaw \cup {block}
    BY DEF InsertSpans, BatchIsSeen
<1> HIDE DEF block
<1> QED
    BY <1>1, <1>2, <1>3 DEF BatchIsSeen

(* A batch that is not touched stays new as long as nothing is committed,  *)
(* and seen whatever is inserted.                                          *)
LEMMA BatchStays ==
    ASSUME NEW w \in Workers, rows'[w] = rows[w], offsets'[w] = offsets[w],
           spansRaw \subseteq spansRaw'
    PROVE  /\ committed' = committed => (BatchIsNew(w) => BatchIsNew(w)')
           /\ BatchIsSeen(w) => BatchIsSeen(w)'
BY DEF BatchIsNew, BatchIsSeen, DedupToken

(* The row limit, an error or the end of the loop: what a process does     *)
(* without reading, inserting or committing.                               *)
LEMMA QuietReplays ==
    ASSUME OneReplays, UNCHANGED <<committed, rows, offsets, spansRaw>>, ReadsAhead',
           NEW w \in Workers,
           \/ pc'[w] = pc[w]
           \/ pc[w] = "down" /\ pc'[w] = "poll"
           \/ pc[w] = "poll" /\ pc'[w] \in {"insert", "finalInsert", "closing"}
           \/ pc[w] \in {"commit", "finalCommit"} /\ pc'[w] \in {"finalInsert", "closing"}
           \/ pc[w] \in {"insert", "finalInsert"} /\ pc'[w] \in {"finalInsert", "closing"}
    PROVE  InsertsNew(w)'
<1>1. BatchIsNew(w) => BatchIsNew(w)'
    BY BatchStays
<1>2. BatchIsSeen(w) => BatchIsSeen(w)'
    BY BatchStays
<1> QED
    BY <1>1, <1>2 DEF OneReplays, InsertsNew

(* A step of a process keeps it when the process is the only one.          *)
LEMMA ReplaysStep ==
    ASSUME NEW only, Workers = {only}
    PROVE  TypeOK /\ OneReplays /\ [Next]_vars => OneReplays'
<1> SUFFICES ASSUME TypeOK, OneReplays, [Next]_vars PROVE OneReplays'
    OBVIOUS
<1> DEFINE w == only
<1>0. w \in Workers /\ (InsertsNew(w)' /\ ReadsAhead' => OneReplays')
    BY DEF OneReplays
<1> HIDE DEF w
<1>1. ASSUME NEW p \in Partitions, Poll(w, p) PROVE OneReplays'
    <2> DEFINE o == position[w][p]
               n == log[p][o + 1].rows
    <2>1. o \in Nat /\ o < Len(log[p]) /\ pc[w] = "poll" /\ p \in assigned[w]
        BY <1>0, <1>1 DEF Poll, TypeOK
    <2>2. n \in Nat /\ committed[p] \in Nat
        BY <2>1, LogEntry DEF TypeOK
    <2>3. UNCHANGED <<committed, assigned, spansRaw>> /\ rows'[w] = rows[w] \o RowsOf(p, o, n)
          /\ pc'[w] \in {"insert", "poll"}
        BY <1>0, <1>1 DEF Poll, TypeOK
    <2>4. position'[w] = [position[w] EXCEPT ![p] = o + 1]
        BY <1>0, <1>1 DEF Poll, TypeOK
    <2> HIDE DEF n
    <2>5. committed[p] <= o
        BY <1>0, <2>1 DEF OneReplays, ReadsAhead
    <2>6. ReadsAhead'
        <3> SUFFICES ASSUME NEW q \in assigned[w] PROVE committed[q] <= position'[w][q]
            BY <1>0, <2>3 DEF ReadsAhead, w
        <3>1. q \in Partitions /\ committed[q] <= position[w][q]
              /\ position[w] \in [Partitions -> Nat] /\ committed[q] \in Nat
            BY <1>0 DEF OneReplays, ReadsAhead, TypeOK
        <3> QED
            BY <2>1, <2>2, <2>4, <2>5, <3>1
    <2>7. BatchIsNew(w)
        BY <1>0, <2>1 DEF OneReplays, InsertsNew
    <2>8. Range(rows'[w]) \subseteq Range(rows[w]) \cup {<<p, o>>}
        <3>1. rows[w] \in Seq(Message) /\ RowsOf(p, o, n) \in Seq(Message)
              /\ Len(RowsOf(p, o, n)) = n
            BY <1>0, <2>1, <2>2 DEF TypeOK, RowsOf, Message
        <3> QED
            BY <2>2, <2>3, <3>1 DEF Range, RowsOf
    <2>9. BatchIsNew(w)'
        BY <2>3, <2>5, <2>7, <2>8 DEF BatchIsNew
    <2> QED
        BY <1>0, <2>3, <2>6, <2>9 DEF InsertsNew
<1>2. ASSUME Insert(w) PROVE OneReplays'
    <2>1. UNCHANGED <<committed, assigned, position, rows, offsets>>
          /\ spansRaw' = InsertSpans(spansRaw, rows[w], DedupToken(offsets[w]))
          /\ \/ pc[w] = "insert" /\ pc'[w] = "commit"
             \/ pc[w] = "finalInsert" /\ pc'[w] = "finalCommit"
        BY <1>0, <1>2 DEF Insert, AfterInsert, TypeOK, readVars, batchVars
    <2>2. spansRaw \subseteq spansRaw' /\ BatchIsSeen(w)'
        BY <1>0, <2>1, InsertSees
    <2>3. BatchIsNew(w) => BatchIsNew(w)'
        BY <1>0, <2>1, <2>2, BatchStays
    <2> QED
        BY <1>0, <2>1, <2>2, <2>3 DEF OneReplays, InsertsNew, ReadsAhead
<1>3. ASSUME InsertError(w) PROVE OneReplays'
    <2>1. UNCHANGED <<committed, assigned, position, rows, offsets>>
          /\ spansRaw' \in {spansRaw, InsertSpans(spansRaw, rows[w], DedupToken(offsets[w]))}
          /\ \/ pc[w] = "insert" /\ pc'[w] = "finalInsert"
             \/ pc[w] = "finalInsert" /\ pc'[w] = "closing"
        BY <1>0, <1>3 DEF InsertError, AfterInsertError, AfterFailure, TypeOK, readVars, batchVars
    <2>2. spansRaw \subseteq spansRaw'
        BY <1>0, <2>1, InsertSees
    <2>3. (BatchIsNew(w) => BatchIsNew(w)') /\ (BatchIsSeen(w) => BatchIsSeen(w)')
        BY <1>0, <2>1, <2>2, BatchStays
    <2> QED
        BY <1>0, <2>1, <2>3 DEF OneReplays, InsertsNew, ReadsAhead
<1>4. ASSUME Commit(w) \/ CommitError(w) PROVE ReadsAhead'
    <2>1. UNCHANGED <<assigned, position>> /\ committed' \in {committed, CommitOffsets(w)}
        BY <1>4 DEF Commit, CommitError, readVars
    <2> SUFFICES ASSUME NEW q \in assigned[w] PROVE committed'[q] <= position[w][q]
        BY <1>0, <2>1 DEF ReadsAhead, w
    <2>2. q \in Partitions /\ committed[q] <= position[w][q] /\ position[w][q] \in Nat
        BY <1>0 DEF OneReplays, ReadsAhead, TypeOK
    <2> QED
        BY <2>1, <2>2 DEF CommitOffsets
<1>5. ASSUME Commit(w) PROVE OneReplays'
    <2>1. rows'[w] = <<>> /\ pc'[w] \in {"poll", "closing"}
        BY <1>0, <1>5 DEF Commit, ResetBatch, TypeOK
    <2>2. BatchIsNew(w)'
        BY <2>1, EmptyRange DEF BatchIsNew
    <2> QED
        BY <1>0, <1>4, <1>5, <2>1, <2>2 DEF InsertsNew
<1>6. ASSUME CommitError(w) PROVE OneReplays'
    <2>1. UNCHANGED <<rows, offsets, spansRaw>> /\ pc[w] \in {"commit", "finalCommit"}
          /\ pc'[w] \in {"finalInsert", "closing"}
        BY <1>0, <1>6 DEF CommitError, AfterFailure, TypeOK, batchVars
    <2>2. BatchIsSeen(w)'
        BY <1>0, <2>1, BatchStays DEF OneReplays, InsertsNew
    <2> QED
        BY <1>0, <1>4, <1>6, <2>1, <2>2 DEF InsertsNew
<1>7. ASSUME Close(w) \/ Crash(w) PROVE OneReplays'
    <2>1. rows'[w] = <<>> /\ pc'[w] = "down" /\ assigned'[w] = {}
        BY <1>0, <1>7 DEF Close, Crash, Forget, ResetBatch, TypeOK
    <2>2. BatchIsNew(w)' /\ ReadsAhead'
        BY <1>0, <2>1, EmptyRange DEF BatchIsNew, ReadsAhead, w
    <2> QED
        BY <1>0, <2>1, <2>2 DEF InsertsNew
<1>8. ASSUME Adopt(w) PROVE OneReplays'
    <2>1. UNCHANGED <<committed, rows, offsets, spansRaw, pc>>
          /\ \A p \in assigned'[w] : p \in Partitions /\ position'[w][p] = committed[p]
        BY <1>0, <1>8 DEF Adopt, ResumeAt, TypeOK, batchVars
    <2>2. ReadsAhead'
        BY <1>0, <2>1 DEF ReadsAhead, TypeOK, w
    <2> QED
        BY <1>0, <2>1, <2>2, QuietReplays
<1>9. ASSUME \/ Start(w) \/ Rejoin(w) \/ PollIdle(w) \/ LeaveLoop(w) \/ CommitRejected(w)
             \/ Stop(w) \/ PollError(w) \/ Expire(w) \/ DlqReport(w)
             \/ (\E p \in Partitions : Publish(p)) \/ UNCHANGED vars
      PROVE  OneReplays'
    <2>1. UNCHANGED <<committed, assigned, position, rows, offsets, spansRaw>>
        BY <1>9 DEF Start, Rejoin, PollIdle, LeaveLoop, CommitRejected, Stop, PollError, Expire,
                    DlqReport, Publish, vars, readVars, batchVars
    <2>2. \/ pc'[w] = pc[w]
          \/ pc[w] = "down" /\ pc'[w] = "poll"
          \/ pc[w] = "poll" /\ pc'[w] \in {"insert", "finalInsert", "closing"}
          \/ pc[w] \in {"commit", "finalCommit"} /\ pc'[w] \in {"finalInsert", "closing"}
        BY <1>0, <1>9 DEF Start, Rejoin, PollIdle, LeaveLoop, CommitRejected, Stop, PollError,
              Expire, DlqReport, Publish, vars, FirstShutdownPhase, AfterFailure, TypeOK
    <2>3. ReadsAhead'
        BY <2>1 DEF OneReplays, ReadsAhead
    <2> QED
        BY <1>0, <2>1, <2>2, <2>3, QuietReplays
<1> QED
    BY <1>1, <1>2, <1>3, <1>5, <1>6, <1>7, <1>8, <1>9 DEF Next, Progress, Fault, w

(* A batch that is new adds no copy of what is committed past, and one     *)
(* that was seen adds none at all.                                         *)
LEMMA NoFurtherCopy ==
    ASSUME TypeOK, OneReplays, NEW w \in Workers,
           spansRaw' = InsertSpans(spansRaw, rows[w], DedupToken(offsets[w])),
           NEW p \in Partitions, NEW o \in 0 .. committed[p] - 1
    PROVE  CopiesOf(<<p, o>>)' \subseteq CopiesOf(<<p, o>>)
<1> DEFINE block == [token |-> DedupToken(offsets[w]), rows |-> rows[w]]
<1>1. CASE BatchIsSeen(w)
    BY <1>1 DEF BatchIsSeen, InsertSpans, CopiesOf
<1>2. CASE ~ BatchIsSeen(w)
    <2>1. BatchIsNew(w) /\ spansRaw' = spansRaw \cup {block}
        BY <1>2 DEF OneReplays, InsertsNew, BatchIsSeen, InsertSpans
    <2>2. ASSUME NEW i \in DOMAIN rows[w], rows[w][i] = <<p, o>> PROVE FALSE
        <3>1. rows[w][i] \in Range(rows[w])
            BY DEF Range
        <3>2. committed[p] <= o
            BY <2>1, <2>2, <3>1 DEF BatchIsNew
        <3> QED
            BY <3>2 DEF TypeOK
    <2>3. {i \in DOMAIN block.rows : block.rows[i] = <<p, o>>} = {}
        BY <2>2
    <2> QED
        BY <2>1, <2>3 DEF CopiesOf
<1> QED
    BY <1>1, <1>2

(* ReplayEnds: with one process, every copy of a row is made before its    *)
(* offset is committed: the batch a crash or a failed call leaves between  *)
(* insert and commit is inserted again only under the token it had, or is  *)
(* read again from the committed offset.                                   *)
THEOREM ReplayEnds ==
    ASSUME NEW only, Workers = {only}
    PROVE  Spec => CommitEndsReplay
<1>1. TypeOK /\ OneReplays /\ [Next]_vars =>
        [\A p \in Partitions : \A o \in 0 .. committed[p] - 1 :
            CopiesOf(<<p, o>>)' \subseteq CopiesOf(<<p, o>>)]_vars
    <2> SUFFICES ASSUME TypeOK, OneReplays, Next,
                        NEW p \in Partitions, NEW o \in 0 .. committed[p] - 1
                 PROVE  CopiesOf(<<p, o>>)' \subseteq CopiesOf(<<p, o>>)
        OBVIOUS
    <2>1. ASSUME NEW w \in Workers, Insert(w) \/ InsertError(w)
          PROVE  CopiesOf(<<p, o>>)' \subseteq CopiesOf(<<p, o>>)
        <3>1. spansRaw' \in {spansRaw, InsertSpans(spansRaw, rows[w], DedupToken(offsets[w]))}
            BY <2>1 DEF Insert, InsertError
        <3>2. CASE spansRaw' = spansRaw
            BY <3>2 DEF CopiesOf
        <3> QED
            BY <3>1, <3>2, NoFurtherCopy
    <2>2. CASE UNCHANGED spansRaw
        BY <2>2 DEF CopiesOf
    <2> QED
        BY <2>1, <2>2 DEF Next, Progress, Fault, Publish, Start, Rejoin, Adopt, Poll, PollIdle,
              LeaveLoop, Commit, CommitRejected, Close, Stop, Crash, PollError, CommitError,
              Expire, DlqReport
<1> QED
    BY <1>1, TypeCorrect, ReplaysInit, ReplaysStep, PTL DEF Spec, CommitEndsReplay
=============================================================================
