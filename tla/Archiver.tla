------------------------------ MODULE Archiver ------------------------------
(***************************************************************************)
(* The archiver: reads the spans topic under a group of its own, splits    *)
(* each message by tenant, collects the parts per tenant and partition,    *)
(* puts one object for each such group and only then commits               *)
(* (src/archiver/archiver.py).                                             *)
(*                                                                         *)
(* A message is the set of tenants whose spans it carries; one that does   *)
(* not decode belongs to the tenant "unknown", one that is empty to none.  *)
(* A part is named by its tenant, partition and offset.  One process is    *)
(* modelled, which may crash and is restarted.  Whether a batch is full by *)
(* age or by bytes is a nondeterministic choice.  Kafka and the object     *)
(* store are external.                                                     *)
(***************************************************************************)
EXTENDS Integers, Sequences, FiniteSets

CONSTANTS
    Tenants,        \* tenants found in resource attributes, "unknown" among them
    Partitions,     \* partitions of KAFKA_TOPIC
    Payloads,       \* what a message may carry: sets of tenants
    MaxMessages,    \* ARCHIVE_MAX_MESSAGES
    MaxLog,         \* bound: messages per partition
    MaxHour,        \* bound: turns of the hour
    MaxFaults       \* bound: how often something goes wrong

ASSUME PayloadsAssumption == Payloads \subseteq SUBSET Tenants
ASSUME PayloadsFinite == \A m \in Payloads : IsFiniteSet(m)
ASSUME BoundsAssumption ==
    MaxMessages \in Nat \ {0} /\ MaxLog \in Nat /\ MaxHour \in Nat /\ MaxFaults \in Nat

VARIABLES
    log,            \* messages of each partition, the one at offset o at index o + 1
    committed,      \* first offset of each partition the group has not committed
    position,       \* next offset the process reads from each partition
    pc,             \* where Archiver.run is
    groups,         \* self.batch.groups, NoGroup for a key that is absent
    count,          \* self.batch.count
    when,           \* the hour flush read before its puts
    todo,           \* the groups flush has still to put
    store,          \* the objects of the bucket
    hour,           \* the clock, as far as archive_key tells times apart
    faults          \* faults so far, for the bound only

batchVars == <<groups, count>>
flushVars == <<when, todo>>
vars == <<log, committed, position, pc, batchVars, flushVars, store, hour, faults>>

Keys == Tenants \X Partitions
Group == [first : Nat, last : Nat \cup {-1}, offsets : SUBSET Nat]
NoGroup == [first |-> 0, last |-> -1, offsets |-> {}]
NoGroups == [k \in Keys |-> NoGroup]
Object == [key : Keys, hour : Nat, first : Nat, last : Nat \cup {-1}, offsets : SUBSET Nat]
Phase == {"down", "poll", "put", "finalPut"}
-----------------------------------------------------------------------------
Lesser(a, b) == IF a <= b THEN a ELSE b
Greater(a, b) == IF a <= b THEN b ELSE a

Fails == faults < MaxFaults /\ faults' = faults + 1

(* A further payload of a group that exists.                               *)
Extend(g, o) ==
    [first |-> Lesser(g.first, o), last |-> Greater(g.last, o), offsets |-> g.offsets \cup {o}]

(* ArchiveBatch.add *)
AddTo(g, o) ==
    IF g = NoGroup THEN [first |-> o, last |-> o, offsets |-> {o}] ELSE Extend(g, o)

(* The groups once every part of the message at offset o has been added.   *)
AddAll(p, o, tenants) ==
    [k \in Keys |-> IF k[2] = p /\ k[1] \in tenants THEN AddTo(groups[k], o) ELSE groups[k]]

FullByCount(n, aged) == n >= MaxMessages    \* mutated: a slow batch is never full

(* full: by messages; by bytes or by age only when there is something.     *)
Full(n, aged) == n >= MaxMessages \/ (n > 0 /\ aged)

Pending == {k \in Keys : groups[k] # NoGroup}

(* archive_key and frame: one object per group.                            *)
ObjectOf(k) ==
    [key |-> k, hour |-> when, first |-> groups[k].first, last |-> groups[k].last,
     offsets |-> groups[k].offsets]

SameStart(x, y) ==      \* mutated: the last offset is not in the name
    x.key = y.key /\ x.hour = y.hour /\ x.first = y.first

SameName(x, y) == x.key = y.key /\ x.hour = y.hour /\ x.first = y.first /\ x.last = y.last

(* put: an object of the same name is overwritten.                         *)
Written(x) == {y \in store : ~SameName(x, y)} \cup {x}
-----------------------------------------------------------------------------
Publish(p) ==
    /\ Len(log[p]) < MaxLog
    /\ \E m \in Payloads : log' = [log EXCEPT ![p] = Append(@, m)]
    /\ UNCHANGED <<committed, position, pc, batchVars, flushVars, store, hour, faults>>

HourTurns ==
    /\ hour < MaxHour
    /\ hour' = hour + 1
    /\ UNCHANGED <<log, committed, position, pc, batchVars, flushVars, store, faults>>

ResumeAt(p) == committed[p]

Start ==
    /\ pc = "down"
    /\ pc' = "poll"
    /\ position' = [p \in Partitions |-> ResumeAt(p)]
    /\ UNCHANGED <<log, committed, batchVars, flushVars, store, hour, faults>>

(* flush begins: the hour is read once, before the first put.              *)
BeginFlush(phase) ==
    /\ pc' = phase
    /\ when' = hour
    /\ todo' = {k \in Keys : groups'[k] # NoGroup}

(* One turn of the loop with a message.                                    *)
Poll(p) ==
    LET o == position[p]
        m == log[p][o + 1]
    IN  /\ pc = "poll"
        /\ o < Len(log[p])
        /\ position' = [position EXCEPT ![p] = o + 1]
        /\ groups' = AddAll(p, o, m)
        /\ count' = count + Cardinality(m)
        /\ \E aged \in BOOLEAN :
            IF Full(count', aged) THEN BeginFlush("put") ELSE UNCHANGED <<pc, flushVars>>
        /\ UNCHANGED <<log, committed, store, hour, faults>>

(* One turn in which poll returns None and the batch is full by age.       *)
PollIdle ==
    /\ pc = "poll"
    /\ Full(count, TRUE)
    /\ UNCHANGED batchVars
    /\ BeginFlush("put")
    /\ UNCHANGED <<log, committed, position, store, hour, faults>>

Put ==
    /\ pc \in {"put", "finalPut"}
    /\ \E k \in todo :
        /\ store' = Written(ObjectOf(k))
        /\ todo' = todo \ {k}
    /\ UNCHANGED <<log, committed, position, pc, batchVars, when, hour, faults>>

(* reset, and the end of a process: what it had collected is forgotten.    *)
Reset == groups' = NoGroups /\ count' = 0

Exit == pc' = "down" /\ Reset /\ when' = 0 /\ todo' = {}

(* Every put has returned: commit, then reset.  In the loop it goes on; in *)
(* the finally clause the consumer is closed.                              *)
Commit ==
    /\ pc \in {"put", "finalPut"} /\ todo = {}
    /\ committed' = position
    /\ IF pc = "put" THEN pc' = "poll" /\ Reset /\ UNCHANGED flushVars ELSE Exit
    /\ UNCHANGED <<log, position, store, hour, faults>>

(* The finally clause flushes whatever is pending, once more.              *)
Finally ==
    IF Pending = {} THEN Exit ELSE UNCHANGED batchVars /\ BeginFlush("finalPut")

(* A signal ends the loop, or poll returns an error, which raises.         *)
LeaveLoop ==
    /\ pc = "poll"
    /\ Fails
    /\ Finally
    /\ UNCHANGED <<log, committed, position, store, hour>>

AfterError == IF pc = "put" THEN Finally ELSE Exit

Swallowed ==            \* mutated: a failed put is logged and passed over
    UNCHANGED <<pc, batchVars, when>> /\ \E k \in todo : todo' = todo \ {k}

AfterPutError == AfterError

(* put raises; the store may have taken the object all the same.           *)
PutError ==
    /\ pc \in {"put", "finalPut"}
    /\ Fails
    /\ \E k \in todo : store' \in {store, Written(ObjectOf(k))}
    /\ AfterPutError
    /\ UNCHANGED <<log, committed, position, hour>>

(* commit raises, perhaps after it took effect.                            *)
CommitError ==
    /\ pc \in {"put", "finalPut"} /\ todo = {}
    /\ Fails
    /\ committed' \in {committed, position}
    /\ AfterError
    /\ UNCHANGED <<log, position, store, hour>>

Crash ==
    /\ pc # "down"
    /\ Fails
    /\ Exit
    /\ UNCHANGED <<log, committed, position, store, hour>>
-----------------------------------------------------------------------------
Init ==
    /\ log = [p \in Partitions |-> <<>>]
    /\ committed = [p \in Partitions |-> 0]
    /\ position = [p \in Partitions |-> 0]
    /\ pc = "down"
    /\ groups = NoGroups /\ count = 0
    /\ when = 0 /\ todo = {}
    /\ store = {} /\ hour = 0 /\ faults = 0

Progress ==
    Start \/ (\E p \in Partitions : Poll(p)) \/ PollIdle \/ Put \/ Commit

Next ==
    \/ \E p \in Partitions : Publish(p)
    \/ HourTurns \/ Progress
    \/ LeaveLoop \/ PutError \/ CommitError \/ Crash

Spec == Init /\ [][Next]_vars

(* The process keeps running its loop and is restarted when it exits.      *)
FairSpec == Spec /\ WF_vars(Progress)
-----------------------------------------------------------------------------
(* What must hold *)

(* The offsets of a partition at which a tenant has a part.                *)
Parts(k) == {o \in 0 .. Len(log[k[2]]) - 1 : k[1] \in log[k[2]][o + 1]}

Archived(k) == UNION {x.offsets : x \in {y \in store : y.key = k}}

(* TypeOK: every variable has its type (ArchiveBatch, Archiver).           *)
TypeOK ==
    /\ log \in [Partitions -> Seq(Payloads)]
    /\ committed \in [Partitions -> Nat]
    /\ position \in [Partitions -> Nat]
    /\ pc \in Phase
    /\ groups \in [Keys -> Group]
    /\ count \in Nat
    /\ when \in Nat /\ hour \in Nat
    /\ todo \in SUBSET Keys
    /\ store \in SUBSET Object
    /\ faults \in Nat

(* CommittedArchived: a committed offset's parts are in some object of     *)
(* their tenant.  Re-archiving after a crash, a failed put or a failed     *)
(* commit overwrites objects, which must not lose what they held.          *)
CommittedArchived ==
    \A k \in Keys : \A o \in Parts(k) : o < committed[k[2]] => o \in Archived(k)

(* ObjectsAreWhole: an object holds every part of its tenant between the   *)
(* offsets its name states, and nothing else ("a faithful copy rather than *)
(* a parallel opinion").                                                   *)
ObjectsAreWhole ==
    \A x \in store : x.offsets = Parts(x.key) \cap (x.first .. x.last)

(* OverwritesAreIdentical: an object that is overwritten keeps its content *)
(* ("overwrites the identical object").                                    *)
OverwritesAreIdentical ==
    [][\A x \in store : \E y \in store' : SameName(x, y) /\ x.offsets = y.offsets]_vars

(* EventuallyArchived: every part is committed past in the end: a batch    *)
(* that never fills is put when it is old.                                 *)
EventuallyArchived ==
    \A k \in Keys : \A o \in 0 .. MaxLog - 1 : o \in Parts(k) ~> o < committed[k[2]]

(* The parts of the inductive invariant behind CommittedArchived.          *)
WithinLog ==
    /\ \A p \in Partitions : committed[p] <= Len(log[p]) /\ position[p] <= Len(log[p])
    /\ \A x \in store : x.last < Len(log[x.key[2]])

GroupsAreWhole ==
    \A k \in Pending :
        /\ groups[k].first <= groups[k].last /\ groups[k].last < position[k[2]]
        /\ groups[k].offsets = Parts(k) \cap (groups[k].first .. groups[k].last)
        /\ groups[k].offsets = Parts(k) \cap (groups[k].first .. position[k[2]] - 1)

DownIsEmpty == pc = "down" => groups = NoGroups

ReadIsKept ==
    pc # "down" =>
        \A k \in Keys : \A o \in Parts(k) :
            o < position[k[2]] => o \in Archived(k) \cup groups[k].offsets

PutIsArchived ==
    pc \in {"put", "finalPut"} =>
        /\ todo \subseteq Pending
        /\ \A k \in Keys \ todo : groups[k].offsets \subseteq Archived(k)

(* ArchiveInv: whatever was read is in an object or in the batch, and      *)
(* batches and objects hold all there is between their bounds.             *)
ArchiveInv ==
    /\ WithinLog
    /\ CommittedArchived
    /\ ObjectsAreWhole
    /\ GroupsAreWhole
    /\ DownIsEmpty
    /\ ReadIsKept
    /\ PutIsArchived
=============================================================================
