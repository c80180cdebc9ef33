----------------------------- MODULE Normalizer -----------------------------
(***************************************************************************)
(* The normalizer: a Kafka consumer group whose processes poll spans,      *)
(* collect them in a SpanBatch, insert the batch into ClickHouse with a    *)
(* deduplication token built from its offset ranges, and only then commit  *)
(* (src/normalizer/consumer.py, src/normalizer/clickhouse_sink.py).        *)
(*                                                                         *)
(* A message is abstracted to how many of its spans normalise (rows) and   *)
(* how many do not (rejects); a payload that does not decode is            *)
(* [rows |-> 0, rejects |-> 1].  The elapsed time of a batch is a          *)
(* nondeterministic choice at each turn of the loop that reads the clock.  *)
(* Kafka, its group coordinator and ClickHouse are external: they are      *)
(* modelled from the calls the code makes and the settings it passes.      *)
(***************************************************************************)
EXTENDS Integers, Sequences, FiniteSets, Functions

CONSTANTS
    Workers,        \* processes of the consumer group
    NoWorker,       \* owner of a partition while the group is empty
    Partitions,     \* partitions of settings.kafka_topic
    Payloads,       \* what a message may carry: [rows, rejects]
    MaxRows,        \* settings.batch_max_rows
    FailingStores,  \* dead-letter stores that may refuse a write: "topic", "table"
    FaultKinds,     \* what may go wrong, of AllFaults
    MaxLog,         \* bound: messages per partition
    MaxFaults       \* bound: how often something goes wrong

ASSUME WorkersAssumption == NoWorker \notin Workers
ASSUME PayloadsAssumption == Payloads \subseteq [rows : Nat, rejects : Nat]
ASSUME MaxRowsAssumption == MaxRows \in Nat \ {0}
ASSUME FailingStoresAssumption == FailingStores \subseteq {"topic", "table"}
AllFaults == {"crash", "stop", "poll", "insert", "commit", "expire"}

ASSUME FaultKindsAssumption == FaultKinds \subseteq AllFaults
ASSUME BoundsAssumption == MaxLog \in Nat /\ MaxFaults \in Nat

VARIABLES
    (* Kafka: the topic, the group's coordinator, the committed offsets *)
    log,            \* messages of each partition, the one at offset o at index o + 1
    committed,      \* first offset of each partition the group has not committed
    members,        \* processes the coordinator counts in the group
    owner,          \* the member each partition is assigned to
    current,        \* members that have taken over the latest assignment
    (* each process: its consumer, its loop and its SpanBatch *)
    assigned,       \* partitions the process reads
    position,       \* next offset the process reads from each of them
    pc,             \* where Normalizer.run is
    running,        \* self._running
    rows,           \* self.batch.rows: for each row the message it came from
    offsets,        \* self.batch.offsets: partition -> [lo, hi]
    dlqQueue,       \* messages produced to the DLQ topic, not yet on the broker
    (* ClickHouse and the DLQ topic *)
    spansRaw,       \* the blocks of table spans_raw: [token, rows]
    deadTable,      \* messages recorded in table ingest_dead_letter
    dlqTopic,       \* messages in settings.kafka_dlq_topic
    faults          \* faults so far, for the bound only

groupVars == <<members, owner, current>>
readVars == <<assigned, position>>
batchVars == <<rows, offsets>>
deadVars == <<dlqQueue, deadTable, dlqTopic>>
vars == <<log, committed, groupVars, readVars, pc, running, batchVars,
          deadVars, spansRaw, faults>>

Message == Partitions \X Nat

(* The offsets a batch holds of a partition, first to last; NoBounds when  *)
(* the partition is not a key of the dictionary.                           *)
Bounds == [lo : Nat, hi : Nat \cup {-1}]
NoBounds == [lo |-> 0, hi |-> -1]
Offsets == [Partitions -> Bounds]
Block == [token : Offsets, rows : Seq(Message)]
Phase == {"down", "poll", "insert", "commit", "finalInsert", "finalCommit", "closing"}
-----------------------------------------------------------------------------
(* SpanBatch *)

NoOffsets == [p \in Partitions |-> NoBounds]

Lesser(a, b) == IF a <= b THEN a ELSE b
Greater(a, b) == IF a <= b THEN b ELSE a

Track(offs, p, o) ==
    [offs EXCEPT ![p] =
        IF @ = NoBounds THEN [lo |-> o, hi |-> o]
        ELSE [lo |-> Lesser(@.lo, o), hi |-> Greater(@.hi, o)]]

RowsPending(w) == rows[w] # <<>>    \* mutated: the flush gate looks at rows

HasPendingOffsets(w) == offsets[w] # NoOffsets

(* should_flush once elapsed time is left open: the row limit forces a     *)
(* flush, a batch with offsets may also be flushed because it is old.      *)
FlushesAt(rs, elapsed) == Len(rs) >= MaxRows \/ elapsed

TokenOfFirstOffsets(offs) ==    \* mutated: the upper ends left out
    [p \in Partitions |-> IF offs[p] = NoBounds THEN NoBounds
                          ELSE [lo |-> offs[p].lo, hi |-> offs[p].lo]]

DedupToken(offs) == offs

ResetBatch(w) ==
    /\ rows' = [rows EXCEPT ![w] = <<>>]
    /\ offsets' = [offsets EXCEPT ![w] = NoOffsets]
-----------------------------------------------------------------------------
(* ClickHouse *)

(* insert_spans: nothing to write without rows; a token the table has      *)
(* already seen makes the insert a no-op, whatever rows come with it.      *)
InsertSpans(table, rs, token) ==
    IF rs = <<>> \/ (\E b \in table : b.token = token) THEN table
    ELSE table \cup {[token |-> token, rows |-> rs]}

Stored == UNION {Range(b.rows) : b \in spansRaw}
-----------------------------------------------------------------------------
(* Something goes wrong once more. *)
Fails(kind) ==
    /\ kind \in FaultKinds
    /\ faults < MaxFaults
    /\ faults' = faults + 1
-----------------------------------------------------------------------------
(* The consumer group *)

(* A change of membership starts a new generation: every partition goes to *)
(* some member and nobody reads or commits under it before taking it over. *)
Regroup(newMembers) ==
    /\ members' = newMembers
    /\ owner' \in [Partitions -> IF newMembers = {} THEN {NoWorker} ELSE newMembers]
    /\ current' = {}

Join(w) == w \notin members /\ Regroup(members \cup {w})

ResumeAtStart(p) == 0   \* mutated: offsets of the group not found, earliest again

ResumeAt(p) == committed[p]

(* Taking over an assignment: reading resumes at the committed offsets.    *)
(* The code registers no rebalance callback, so the batch is kept.         *)
Adopt(w) ==
    /\ pc[w] # "down"
    /\ w \in members \ current
    /\ current' = current \cup {w}
    /\ assigned' = [assigned EXCEPT ![w] = {p \in Partitions : owner[p] = w}]
    /\ position' = [position EXCEPT ![w] =
            [p \in Partitions |-> IF owner[p] = w THEN ResumeAt(p) ELSE 0]]
    /\ UNCHANGED <<log, committed, members, owner, pc, running, batchVars,
                   deadVars, spansRaw, faults>>

(* A member the coordinator no longer hears from leaves the group: one     *)
(* whose process is gone, or (a fault) a live one that was too slow.       *)
Expire(w) ==
    /\ w \in members
    /\ \/ pc[w] = "down" /\ UNCHANGED faults
       \/ pc[w] # "down" /\ Fails("expire")
    /\ Regroup(members \ {w})
    /\ UNCHANGED <<log, committed, readVars, pc, running, batchVars, deadVars, spansRaw>>

(* A live process that was expired joins again from inside poll.           *)
Rejoin(w) ==
    /\ pc[w] # "down"
    /\ Join(w)
    /\ UNCHANGED <<log, committed, readVars, pc, running, batchVars, deadVars,
                   spansRaw, faults>>
-----------------------------------------------------------------------------
(* The process *)

Publish(p) ==
    /\ Len(log[p]) < MaxLog
    /\ \E m \in Payloads : log' = [log EXCEPT ![p] = Append(@, m)]
    /\ UNCHANGED <<committed, groupVars, readVars, pc, running, batchVars,
                   deadVars, spansRaw, faults>>

(* main and run up to subscribe.  A process whose previous incarnation is  *)
(* still counted as a member gets no partition before that one expires.    *)
Start(w) ==
    /\ pc[w] = "down"
    /\ Join(w)
    /\ pc' = [pc EXCEPT ![w] = "poll"]
    /\ running' = [running EXCEPT ![w] = TRUE]
    /\ UNCHANGED <<log, committed, readVars, batchVars, deadVars, spansRaw, faults>>

DeadLetterFallback(w, m) ==     \* mutated: the table only when the topic refuses
    \E queued \in BOOLEAN :
        /\ ~queued => "topic" \in FailingStores
        /\ dlqQueue' = [dlqQueue EXCEPT ![w] = IF queued THEN @ \cup {m} ELSE @]
        /\ deadTable' = IF queued THEN deadTable ELSE deadTable \cup {m}

(* dead_letter: both writes are attempted, a refusal of either is logged.  *)
(* produce only queues the message in the process.                         *)
DeadLetter(w, m) ==
    \E queued, recorded \in BOOLEAN :
        /\ ~queued => "topic" \in FailingStores
        /\ ~recorded => "table" \in FailingStores
        /\ dlqQueue' = [dlqQueue EXCEPT ![w] = IF queued THEN @ \cup {m} ELSE @]
        /\ deadTable' = IF recorded THEN deadTable \cup {m} ELSE deadTable

(* The rows a message normalises to, each named by the message it is of.   *)
RowsOf(p, o, n) == [i \in 1 .. n |-> <<p, o>>]

(* One turn of the loop in which poll returns a message: handle, then      *)
(* should_flush.                                                           *)
Poll(w, p) ==
    LET o == position[w][p]
        m == log[p][o + 1]
        newRows == rows[w] \o RowsOf(p, o, m.rows)
    IN  /\ pc[w] = "poll" /\ running[w]
        /\ p \in assigned[w]
        /\ o < Len(log[p])
        /\ position' = [position EXCEPT ![w][p] = o + 1]
        /\ rows' = [rows EXCEPT ![w] = newRows]
        /\ offsets' = [offsets EXCEPT ![w] = Track(@, p, o)]
        /\ IF m.rejects > 0 THEN DeadLetter(w, <<p, o>>) ELSE UNCHANGED <<dlqQueue, deadTable>>
        /\ \E elapsed \in BOOLEAN :
            pc' = [pc EXCEPT ![w] = IF FlushesAt(newRows, elapsed) THEN "insert" ELSE "poll"]
        /\ UNCHANGED <<log, committed, groupVars, assigned, running, dlqTopic,
                       spansRaw, faults>>

(* One turn in which poll returns None and the batch has become old.       *)
PollIdle(w) ==
    /\ pc[w] = "poll" /\ running[w]
    /\ HasPendingOffsets(w)
    /\ pc' = [pc EXCEPT ![w] = "insert"]
    /\ UNCHANGED <<log, committed, groupVars, readVars, running, batchVars,
                   deadVars, spansRaw, faults>>

FirstShutdownPhase(w) == IF HasPendingOffsets(w) THEN "finalInsert" ELSE "closing"

(* poll returns an error message: run raises into its finally clause.      *)
PollError(w) ==
    /\ pc[w] = "poll" /\ running[w]
    /\ Fails("poll")
    /\ pc' = [pc EXCEPT ![w] = FirstShutdownPhase(w)]
    /\ UNCHANGED <<log, committed, groupVars, readVars, running, batchVars,
                   deadVars, spansRaw>>

(* stop on a signal, or the loop of a replay that has been idle too long.  *)
Stop(w) ==
    /\ pc[w] # "down" /\ running[w]
    /\ Fails("stop")
    /\ running' = [running EXCEPT ![w] = FALSE]
    /\ UNCHANGED <<log, committed, groupVars, readVars, pc, batchVars, deadVars, spansRaw>>

(* The loop ends and shutdown flushes what is pending.                     *)
LeaveLoop(w) ==
    /\ pc[w] = "poll" /\ ~running[w]
    /\ pc' = [pc EXCEPT ![w] = FirstShutdownPhase(w)]
    /\ UNCHANGED <<log, committed, groupVars, readVars, running, batchVars,
                   deadVars, spansRaw, faults>>
-----------------------------------------------------------------------------
(* flush, called by the loop ("insert", "commit") or by shutdown ("final") *)

AfterInsert(phase) == IF phase = "insert" THEN "commit" ELSE "finalCommit"

(* An exception inside the loop's flush reaches shutdown, which flushes    *)
(* again; one inside shutdown's own flush goes on to close.                *)
AfterFailure(phase) == IF phase \in {"insert", "commit"} THEN "finalInsert" ELSE "closing"

Insert(w) ==
    /\ pc[w] \in {"insert", "finalInsert"}
    /\ spansRaw' = InsertSpans(spansRaw, rows[w], DedupToken(offsets[w]))
    /\ pc' = [pc EXCEPT ![w] = AfterInsert(@)]
    /\ UNCHANGED <<log, committed, groupVars, readVars, running, batchVars,
                   deadVars, faults>>

AfterSwallowedError(phase) == AfterInsert(phase)    \* mutated: logged, not re-raised

AfterInsertError(phase) == AfterFailure(phase)

(* insert_spans raises; the server may have applied the block all the same.*)
InsertError(w) ==
    /\ pc[w] \in {"insert", "finalInsert"}
    /\ rows[w] # <<>>
    /\ Fails("insert")
    /\ spansRaw' \in {spansRaw, InsertSpans(spansRaw, rows[w], DedupToken(offsets[w]))}
    /\ pc' = [pc EXCEPT ![w] = AfterInsertError(@)]
    /\ UNCHANGED <<log, committed, groupVars, readVars, running, batchVars, deadVars>>

BatchStarts(w) ==   \* mutated: the offsets the batch starts at
    [p \in Partitions |-> IF offsets[w][p] # NoBounds THEN offsets[w][p].lo ELSE committed[p]]

(* commit without arguments: the positions of the current assignment.      *)
CommitOffsets(w) ==
    [p \in Partitions |-> IF p \in assigned[w] THEN position[w][p] ELSE committed[p]]

(* The coordinator takes a commit of the latest generation only, and the   *)
(* client has one to send only when it has read something under it.        *)
CanCommit(w) ==
    /\ w \in current
    /\ \E p \in assigned[w] : position[w][p] > committed[p]

Commit(w) ==
    /\ pc[w] \in {"commit", "finalCommit"}
    /\ CanCommit(w)
    /\ committed' = CommitOffsets(w)
    /\ ResetBatch(w)
    /\ pc' = [pc EXCEPT ![w] = IF @ = "commit" THEN "poll" ELSE "closing"]
    /\ UNCHANGED <<log, groupVars, readVars, running, deadVars, spansRaw, faults>>

(* commit raises because the assignment it belongs to is gone.             *)
CommitRejected(w) ==
    /\ pc[w] \in {"commit", "finalCommit"}
    /\ ~CanCommit(w)
    /\ pc' = [pc EXCEPT ![w] = AfterFailure(@)]
    /\ UNCHANGED <<log, committed, groupVars, readVars, running, batchVars,
                   deadVars, spansRaw, faults>>

(* commit raises although it could have succeeded, and perhaps did.        *)
CommitError(w) ==
    /\ pc[w] \in {"commit", "finalCommit"}
    /\ CanCommit(w)
    /\ Fails("commit")
    /\ committed' \in {committed, CommitOffsets(w)}
    /\ pc' = [pc EXCEPT ![w] = AfterFailure(@)]
    /\ UNCHANGED <<log, groupVars, readVars, running, batchVars, deadVars, spansRaw>>
-----------------------------------------------------------------------------
(* The end of a process *)

(* What dies with a process: its batch, its reads and its producer queue.  *)
Forget(w) ==
    /\ pc' = [pc EXCEPT ![w] = "down"]
    /\ running' = [running EXCEPT ![w] = FALSE]
    /\ assigned' = [assigned EXCEPT ![w] = {}]
    /\ position' = [position EXCEPT ![w] = [p \in Partitions |-> 0]]
    /\ dlqQueue' = [dlqQueue EXCEPT ![w] = {}]
    /\ ResetBatch(w)

(* shutdown after its flush: the DLQ producer gets five seconds to drain,  *)
(* then close leaves the group without committing.                         *)
Close(w) ==
    /\ pc[w] = "closing"
    /\ \E sent \in SUBSET dlqQueue[w] : dlqTopic' = dlqTopic \cup sent
    /\ IF w \in members THEN Regroup(members \ {w}) ELSE UNCHANGED groupVars
    /\ Forget(w)
    /\ UNCHANGED <<log, committed, deadTable, spansRaw, faults>>

Crash(w) ==
    /\ pc[w] # "down"
    /\ Fails("crash")
    /\ current' = current \ {w}
    /\ Forget(w)
    /\ UNCHANGED <<log, committed, members, owner, deadTable, dlqTopic, spansRaw>>

(* The producer's background thread: a queued dead letter is delivered, or *)
(* given up, which nobody hears of since no delivery callback is set.      *)
DlqReport(w) ==
    /\ \E m \in dlqQueue[w], delivered \in BOOLEAN :
        /\ ~delivered => "topic" \in FailingStores
        /\ dlqQueue' = [dlqQueue EXCEPT ![w] = @ \ {m}]
        /\ dlqTopic' = IF delivered THEN dlqTopic \cup {m} ELSE dlqTopic
    /\ UNCHANGED <<log, committed, groupVars, readVars, pc, running, batchVars,
                   deadTable, spansRaw, faults>>
-----------------------------------------------------------------------------
Init ==
    /\ log = [p \in Partitions |-> <<>>]
    /\ committed = [p \in Partitions |-> 0]
    /\ members = {} /\ current = {}
    /\ owner = [p \in Partitions |-> NoWorker]
    /\ assigned = [w \in Workers |-> {}]
    /\ position = [w \in Workers |-> [p \in Partitions |-> 0]]
    /\ pc = [w \in Workers |-> "down"]
    /\ running = [w \in Workers |-> FALSE]
    /\ rows = [w \in Workers |-> <<>>]
    /\ offsets = [w \in Workers |-> NoOffsets]
    /\ dlqQueue = [w \in Workers |-> {}]
    /\ spansRaw = {} /\ deadTable = {} /\ dlqTopic = {}
    /\ faults = 0

(* What a healthy process, and a healthy coordinator, do by themselves.    *)
Progress(w) ==
    \/ Start(w) \/ Rejoin(w) \/ Adopt(w)
    \/ (\E p \in Partitions : Poll(w, p)) \/ PollIdle(w) \/ LeaveLoop(w)
    \/ Insert(w) \/ Commit(w) \/ CommitRejected(w) \/ Close(w)

Fault(w) ==
    \/ Stop(w) \/ Crash(w) \/ PollError(w) \/ InsertError(w) \/ CommitError(w)

Next ==
    \/ \E p \in Partitions : Publish(p)
    \/ \E w \in Workers : Progress(w) \/ Fault(w) \/ Expire(w) \/ DlqReport(w)

Spec == Init /\ [][Next]_vars

(* Every process keeps running its loop and is restarted when it exits,    *)
(* and the coordinator expires members it no longer hears from.            *)
Fairness ==
    \A w \in Workers :
        /\ WF_vars(Progress(w))
        /\ WF_vars(Expire(w) /\ pc[w] = "down")

FairSpec == Spec /\ Fairness
-----------------------------------------------------------------------------
(* What must hold *)

(* The message at an offset carries rows to store, or spans to dead-letter.*)
Due(p, o) == o < Len(log[p]) /\ log[p][o + 1].rows > 0
Poison(p, o) == o < Len(log[p]) /\ log[p][o + 1].rejects > 0

(* TypeOK: every variable has its type (SpanBatch, the consumer, the table *)
(* and the loop of consumer.py).                                           *)
TypeOK ==
    /\ log \in [Partitions -> Seq(Payloads)]
    /\ committed \in [Partitions -> Nat]
    /\ members \in SUBSET Workers /\ current \in SUBSET Workers
    /\ owner \in [Partitions -> Workers \cup {NoWorker}]
    /\ assigned \in [Workers -> SUBSET Partitions]
    /\ position \in [Workers -> [Partitions -> Nat]]
    /\ pc \in [Workers -> Phase]
    /\ running \in [Workers -> BOOLEAN]
    /\ rows \in [Workers -> Seq(Message)]
    /\ offsets \in [Workers -> Offsets]
    /\ dlqQueue \in [Workers -> SUBSET Message]
    /\ spansRaw \in SUBSET Block
    /\ deadTable \in SUBSET Message /\ dlqTopic \in SUBSET Message
    /\ faults \in Nat

(* CommittedStored: a committed offset's rows are in spans_raw.  This is   *)
(* the insert-then-commit order of flush, and it has to survive crashes,   *)
(* ambiguous inserts and commits, rebalances that leave a batch behind in  *)
(* a process that lost its partitions, and inserts that ClickHouse drops   *)
(* because their token was seen before.                                    *)
CommittedStored ==
    \A p \in Partitions : \A o \in 0 .. committed[p] - 1 :
        Due(p, o) => <<p, o>> \in Stored

(* The parts of the inductive invariant behind CommittedStored.  Kept(w)   *)
(* are the messages whose rows are stored or in the batch of w.            *)
Kept(w) == Stored \cup Range(rows[w])

WithinLog ==
    /\ \A p \in Partitions : committed[p] <= Len(log[p])
    /\ \A w \in Workers, p \in Partitions : position[w][p] <= Len(log[p])
    /\ \A w \in Workers, p \in Partitions : offsets[w][p].hi < Len(log[p])
    /\ \A b \in spansRaw, p \in Partitions : b.token[p].hi < Len(log[p])

ReadIsKept ==
    \A w \in Workers : \A p \in assigned[w] : \A o \in 0 .. position[w][p] - 1 :
        Due(p, o) => <<p, o>> \in Kept(w)

RowsAreTracked ==
    \A w \in Workers : \A m \in Range(rows[w]) :
        m[2] <= offsets[w][m[1]].hi /\ Due(m[1], m[2])

TrackedIsKept ==
    \A w \in Workers, p \in Partitions : \A o \in 0 .. offsets[w][p].hi :
        Due(p, o) => <<p, o>> \in Kept(w)

TokenIsStored ==
    \A b \in spansRaw, p \in Partitions : \A o \in 0 .. b.token[p].hi :
        Due(p, o) => <<p, o>> \in Stored

InsertedBeforeCommit ==
    \A w \in Workers :
        pc[w] \in {"commit", "finalCommit"} => Range(rows[w]) \subseteq Stored

(* StoreInv: whatever lies below the upper end of a token's ranges is      *)
(* stored, holes included, so that dropping an insert by its token never   *)
(* loses a row that the commit after it acknowledges.                      *)
StoreInv ==
    /\ WithinLog
    /\ CommittedStored
    /\ ReadIsKept
    /\ RowsAreTracked
    /\ TrackedIsKept
    /\ TokenIsStored
    /\ InsertedBeforeCommit

(* CurrentOwns: a member of the latest generation reads only what it owns, *)
(* from the committed offset on.                                           *)
CurrentOwns ==
    \A w \in current : \A p \in assigned[w] :
        owner[p] = w /\ committed[p] <= position[w][p]

(* CommitNeverRegresses: no commit moves an offset backwards, although a   *)
(* batch may hold offsets of partitions that others have since advanced.   *)
CommitNeverRegresses == [][\A p \in Partitions : committed[p] <= committed'[p]]_vars

(* DeliversAtLeastOnce: the consumer group implements SpanDelivery.        *)
Delivery == INSTANCE SpanDelivery WITH delivered <- Stored, acked <- committed

DeliversAtLeastOnce == Delivery!Spec

(* Where spans_raw holds the rows of a message: every copy has a block and *)
(* a place in it.                                                          *)
CopiesOf(m) == UNION {{b} \X {i \in DOMAIN b.rows : b.rows[i] = m} : b \in spansRaw}

(* CommitEndsReplay: once an offset is committed, its rows get no further  *)
(* copy.  With one process duplicates are confined to what a crash or a    *)
(* failed call left between insert and commit.                             *)
CommitEndsReplay ==
    [][\A p \in Partitions : \A o \in 0 .. committed[p] - 1 :
            CopiesOf(<<p, o>>)' \subseteq CopiesOf(<<p, o>>)]_vars

(* PoisonIsKept: past a committed offset, a message with spans that were   *)
(* rejected is in the dead-letter table, in the DLQ topic or on its way    *)
(* there ("Poison message -> DLQ, then the offset advances").              *)
PoisonIsKept ==
    \A p \in Partitions : \A o \in 0 .. committed[p] - 1 :
        Poison(p, o) => <<p, o>> \in deadTable \cup dlqTopic \cup UNION Range(dlqQueue)

(* EventuallyCommitted: every message is committed past, poison or not: no *)
(* message stalls its partition, and a batch without rows is flushed too.  *)
EventuallyCommitted ==
    \A p \in Partitions : \A n \in 1 .. MaxLog :
        Len(log[p]) >= n ~> committed[p] >= n
=============================================================================
