--------------------------- MODULE ArchiverProofs ---------------------------
(***************************************************************************)
(* Theorems about Archiver, for any tenants, partitions, payloads and      *)
(* number of faults: types, the inductive invariant ArchiveInv, and that   *)
(* an overwritten object keeps its content.                                *)
(***************************************************************************)
EXTENDS Archiver, FiniteSetTheorems, TLAPS

(* What a group becomes by one more message.                               *)
LEMMA AddToType ==
    ASSUME NEW g \in Group, NEW o \in Nat
    PROVE  AddTo(g, o) \in Group
BY DEF AddTo, Extend, Lesser, Greater, Group

LEMMA AddAllType ==
    ASSUME groups \in [Keys -> Group], NEW p, NEW o \in Nat, NEW m
    PROVE  AddAll(p, o, m) \in [Keys -> Group]
BY AddToType DEF AddAll

LEMMA NoGroupsType == NoGroups \in [Keys -> Group]
BY DEF NoGroups, NoGroup, Group

LEMMA WrittenType ==
    ASSUME TypeOK, NEW k \in Keys
    PROVE  Written(ObjectOf(k)) \in SUBSET Object
<1>1. groups[k] \in Group /\ when \in Nat
    BY DEF TypeOK
<1>2. ObjectOf(k) \in Object
    BY <1>1 DEF ObjectOf, Object, Group
<1> QED BY <1>2 DEF Written, TypeOK

-----------------------------------------------------------------------------
(* TypeCorrect: every variable has its type, for all constants.            *)
THEOREM TypeCorrect == Spec => []TypeOK
<1>1. Init => TypeOK
  <2>1. ASSUME NEW p \in Partitions PROVE <<>> \in Seq(Payloads)
      OBVIOUS
  <2> QED BY NoGroupsType DEF Init, TypeOK, Phase
<1>2. TypeOK /\ [Next]_vars => TypeOK'
  <2> SUFFICES ASSUME TypeOK, [Next]_vars PROVE TypeOK'
    OBVIOUS
  <2> USE DEF TypeOK
  <2>0. /\ "poll" \in Phase /\ "put" \in Phase /\ "finalPut" \in Phase /\ "down" \in Phase
        /\ NoGroups \in [Keys -> Group]
    BY NoGroupsType DEF Phase
  <2>E. Exit => /\ pc' \in Phase /\ groups' \in [Keys -> Group] /\ count' \in Nat
                /\ when' \in Nat /\ todo' \in SUBSET Keys
    BY <2>0 DEF Exit, Reset
  <2>B. ASSUME NEW phase \in Phase, BeginFlush(phase)
        PROVE  pc' \in Phase /\ when' \in Nat /\ todo' \in SUBSET Keys
    BY <2>B DEF BeginFlush
  <2>F. Finally => /\ pc' \in Phase /\ groups' \in [Keys -> Group] /\ count' \in Nat
                   /\ when' \in Nat /\ todo' \in SUBSET Keys
    BY <2>0, <2>E, <2>B DEF Finally, batchVars
  <2>1. ASSUME NEW p \in Partitions, Publish(p) PROVE TypeOK'
    <3>1. PICK m \in Payloads : log' = [log EXCEPT ![p] = Append(@, m)]
        BY <2>1 DEF Publish
    <3>2. log' \in [Partitions -> Seq(Payloads)]
        BY <3>1
    <3> QED BY <2>1, <3>2 DEF Publish, batchVars, flushVars
  <2>2. CASE HourTurns
    BY <2>2 DEF HourTurns, batchVars, flushVars
  <2>3. CASE Start
    BY <2>0, <2>3 DEF Start, ResumeAt, batchVars, flushVars
  <2>4. ASSUME NEW p \in Partitions, Poll(p) PROVE TypeOK'
    <3> DEFINE o == position[p]
               m == log[p][o + 1]
    <3>1. /\ o < Len(log[p])
          /\ position' = [position EXCEPT ![p] = o + 1]
          /\ groups' = AddAll(p, o, m)
          /\ count' = count + Cardinality(m)
          /\ BeginFlush("put") \/ UNCHANGED <<pc, flushVars>>
          /\ UNCHANGED <<log, committed, store, hour, faults>>
        BY <2>4 DEF Poll
    <3>2. o \in Nat
        OBVIOUS
    <3>3. m \in Payloads
        BY <3>1, <3>2
    <3>4. Cardinality(m) \in Nat
        BY <3>3, PayloadsFinite, FS_CardinalityType
    <3> HIDE DEF o, m
    <3>5. groups' \in [Keys -> Group]
        BY <3>1, <3>2, AddAllType
    <3>6. pc' \in Phase /\ when' \in Nat /\ todo' \in SUBSET Keys
        BY <2>0, <2>B, <3>1 DEF flushVars
    <3> QED BY <3>1, <3>2, <3>4, <3>5, <3>6
  <2>5. CASE PollIdle
    BY <2>0, <2>5, <2>B DEF PollIdle, batchVars
  <2>6. CASE Put
    BY <2>6, WrittenType DEF Put, batchVars
  <2>7. CASE Commit
    <3>1. /\ pc' \in Phase /\ groups' \in [Keys -> Group] /\ count' \in Nat
          /\ when' \in Nat /\ todo' \in SUBSET Keys
        BY <2>0, <2>7, <2>E DEF Commit, Reset, flushVars
    <3> QED BY <2>7, <3>1 DEF Commit
  <2>8. CASE LeaveLoop
    BY <2>8, <2>F DEF LeaveLoop, Fails
  <2>9. CASE PutError
    <3>1. store' \in SUBSET Object
        BY <2>9, WrittenType DEF PutError
    <3> QED BY <2>9, <2>E, <2>F, <3>1 DEF PutError, AfterPutError, AfterError, Fails
  <2>10. CASE CommitError
    BY <2>10, <2>E, <2>F DEF CommitError, AfterError, Fails
  <2>11. CASE Crash
    BY <2>11, <2>E DEF Crash, Fails
  <2>12. CASE UNCHANGED vars
    BY <2>12 DEF vars, batchVars, flushVars
  <2> QED BY <2>1, <2>2, <2>3, <2>4, <2>5, <2>6, <2>7, <2>8, <2>9, <2>10, <2>11,
             <2>12 DEF Next, Progress
<1> QED BY <1>1, <1>2, PTL DEF Spec

-----------------------------------------------------------------------------
(* What the types say of a key, and of an object.                          *)
LEMMA Ranges ==
    ASSUME TypeOK
    PROVE  /\ \A k \in Keys :
                /\ k[1] \in Tenants /\ k[2] \in Partitions
                /\ log[k[2]] \in Seq(Payloads) /\ Len(log[k[2]]) \in Nat
                /\ committed[k[2]] \in Nat /\ position[k[2]] \in Nat
                /\ groups[k].first \in Nat /\ groups[k].last \in Int
                /\ groups[k].offsets \in SUBSET Nat
           /\ \A x \in store :
                x.key \in Keys /\ x.first \in Nat /\ x.last \in Int
BY DEF TypeOK, Keys, Group, Object

LEMMA PartsAre ==
    ASSUME TypeOK, NEW k \in Keys, NEW o
    PROVE  o \in Parts(k) <=> /\ o \in Nat /\ o < Len(log[k[2]])
                              /\ k[1] \in log[k[2]][o + 1]
BY Ranges DEF Parts

LEMMA PendingAre == \A k \in Keys : k \notin Pending => groups[k].offsets = {}
BY DEF Pending, NoGroup

LEMMA ArchivedAre ==
    \A k, o : o \in Archived(k) <=> \E x \in store : x.key = k /\ o \in x.offsets
BY DEF Archived

(* A published message changes nothing below the end of the log.           *)
LEMMA PartsGrow ==
    ASSUME TypeOK, TypeOK', NEW p \in Partitions, Publish(p), NEW k \in Keys
    PROVE  /\ Len(log[k[2]]) <= Len(log'[k[2]])
           /\ \A o : o < Len(log[k[2]]) => (o \in Parts(k)' <=> o \in Parts(k))
<1>1. PICK m \in Payloads : log' = [log EXCEPT ![p] = Append(@, m)]
    BY DEF Publish
<1>2. k[2] \in Partitions /\ log[k[2]] \in Seq(Payloads)
    BY Ranges
<1>3. log'[k[2]] = IF k[2] = p THEN Append(log[k[2]], m) ELSE log[k[2]]
    BY <1>1, <1>2 DEF TypeOK
<1>4. /\ Len(log[k[2]]) \in Nat
      /\ Len(log'[k[2]]) \in Nat
      /\ Len(log[k[2]]) <= Len(log'[k[2]])
    BY <1>2, <1>3
<1>5. \A o \in Nat : o < Len(log[k[2]]) => log'[k[2]][o + 1] = log[k[2]][o + 1]
    BY <1>2, <1>3
<1>6. \A o : o \in Parts(k)' <=> /\ o \in Nat /\ o < Len(log'[k[2]])
                                /\ k[1] \in log'[k[2]][o + 1]
    BY <1>4 DEF Parts
<1> QED BY <1>4, <1>5, <1>6, PartsAre

-----------------------------------------------------------------------------
(* A put: what was archived stays archived, and its group is archived.     *)
LEMMA PutKeeps ==
    ASSUME TypeOK, ArchiveInv, NEW k \in todo, pc \in {"put", "finalPut"}
    PROVE  /\ \A x \in store : SameName(x, ObjectOf(k)) => x.offsets = ObjectOf(k).offsets
           /\ ObjectOf(k).offsets = Parts(k) \cap (ObjectOf(k).first .. ObjectOf(k).last)
           /\ ObjectOf(k).last < Len(log[k[2]]) /\ ObjectOf(k).key = k
<1>1. k \in Keys /\ k \in Pending
    BY DEF ArchiveInv, PutIsArchived, TypeOK
<1>2. groups[k].offsets = Parts(k) \cap (groups[k].first .. groups[k].last)
    BY <1>1 DEF ArchiveInv, GroupsAreWhole
<1>3. groups[k].last < position[k[2]] /\ position[k[2]] <= Len(log[k[2]])
    BY <1>1, Ranges DEF ArchiveInv, GroupsAreWhole, WithinLog
<1>4. groups[k].last < Len(log[k[2]])
    BY <1>1, <1>3, Ranges
<1>5. \A x \in store : SameName(x, ObjectOf(k)) => x.offsets = groups[k].offsets
    BY <1>2 DEF ArchiveInv, ObjectsAreWhole, SameName, ObjectOf
<1> QED BY <1>2, <1>4, <1>5 DEF ObjectOf

LEMMA StoreStep ==
    ASSUME TypeOK, ArchiveInv, NEW k \in todo, pc \in {"put", "finalPut"},
           store' \in {store, Written(ObjectOf(k))}, UNCHANGED log
    PROVE  /\ \A x \in store' : x.last < Len(log'[x.key[2]])
           /\ ObjectsAreWhole'
           /\ \A j : Archived(j) \subseteq Archived(j)'
           /\ store' = Written(ObjectOf(k)) => groups[k].offsets \subseteq Archived(k)'
           /\ \A x \in store : \E y \in store' : SameName(x, y) /\ x.offsets = y.offsets
<1> DEFINE obj == ObjectOf(k)
<1>1. /\ \A x \in store : SameName(x, obj) => x.offsets = obj.offsets
      /\ obj.offsets = Parts(k) \cap (obj.first .. obj.last)
      /\ obj.last < Len(log[k[2]]) /\ obj.key = k
    BY PutKeeps
<1>2. obj.offsets = groups[k].offsets
    BY DEF ObjectOf
<1> HIDE DEF obj
<1>3. \A x \in store' : x \in store \/ x = obj
    BY DEF Written, obj
<1>4. \A x \in store' : x.last < Len(log'[x.key[2]])
    BY <1>1, <1>3 DEF ArchiveInv, WithinLog
<1>5. \A x \in store' : x.offsets = Parts(x.key) \cap (x.first .. x.last)
    BY <1>1, <1>3 DEF ArchiveInv, ObjectsAreWhole
<1>6. ObjectsAreWhole'
    BY <1>5 DEF ObjectsAreWhole, Parts
<1>7. \A x \in store : \E y \in store' : SameName(x, y) /\ x.offsets = y.offsets
    BY <1>1 DEF Written, SameName, obj
<1>8. \A j : Archived(j) \subseteq Archived(j)'
    BY <1>7 DEF Archived, SameName
<1>9. store' = Written(obj) => groups[k].offsets \subseteq Archived(k)'
    BY <1>1, <1>2 DEF Archived, Written
<1> QED BY <1>4, <1>6, <1>7, <1>8, <1>9 DEF obj

(* Once every put has returned, everything read is archived.               *)
LEMMA AllPut ==
    ASSUME TypeOK, ArchiveInv, pc \in {"put", "finalPut"}, todo = {}
    PROVE  \A k \in Keys : \A o \in Parts(k) : o < position[k[2]] => o \in Archived(k)
BY DEF ArchiveInv, ReadIsKept, PutIsArchived

(* The parts of the invariant that speak of the batch, when a process ends *)
(* or a flush begins.                                                      *)
BatchInv == GroupsAreWhole /\ DownIsEmpty /\ ReadIsKept /\ PutIsArchived

LEMMA ExitStep == Exit => BatchInv'
BY DEF Exit, Reset, BatchInv, GroupsAreWhole, DownIsEmpty, ReadIsKept, PutIsArchived,
       Pending, NoGroups

LEMMA BeginStep ==
    ASSUME TypeOK, ArchiveInv, pc # "down", NEW phase \in {"put", "finalPut"},
           BeginFlush(phase), UNCHANGED <<batchVars, position, log>>,
           \A j : Archived(j) \subseteq Archived(j)'
    PROVE  BatchInv'
<1>1. GroupsAreWhole' /\ DownIsEmpty'
    BY DEF ArchiveInv, GroupsAreWhole, DownIsEmpty, BeginFlush, batchVars, Pending, Parts
<1>2. ReadIsKept'
    BY DEF ArchiveInv, ReadIsKept, batchVars, Parts
<1>3. \A k \in Keys : k \notin todo' => groups'[k].offsets = {}
    BY DEF BeginFlush, NoGroup
<1>4. PutIsArchived'
    BY <1>3 DEF PutIsArchived, BeginFlush, Pending
<1> QED BY <1>1, <1>2, <1>4 DEF BatchInv

LEMMA FinallyStep ==
    ASSUME TypeOK, ArchiveInv, pc # "down", Finally, UNCHANGED <<position, log>>,
           \A j : Archived(j) \subseteq Archived(j)'
    PROVE  BatchInv'
BY ExitStep, BeginStep DEF Finally

(* The parts that speak of the log, the offsets and the objects.           *)
StoreInv == WithinLog /\ CommittedArchived /\ ObjectsAreWhole

LEMMA InvParts == ArchiveInv <=> StoreInv /\ BatchInv
BY DEF ArchiveInv, StoreInv, BatchInv

LEMMA StoreKept ==
    ASSUME TypeOK, ArchiveInv, UNCHANGED <<log, store>>,
           committed' \in {committed, position}, position' = position,
           committed' = position =>
              \A k \in Keys : \A o \in Parts(k) : o < position[k[2]] => o \in Archived(k)
    PROVE  StoreInv'
<1>1. WithinLog'
    BY DEF ArchiveInv, WithinLog
<1>2. CommittedArchived'
    BY DEF ArchiveInv, CommittedArchived, Parts, Archived
<1>3. ObjectsAreWhole'
    BY DEF ArchiveInv, ObjectsAreWhole, Parts
<1> QED BY <1>1, <1>2, <1>3 DEF StoreInv

-----------------------------------------------------------------------------
(* A group by one more message of its tenant at the position read.         *)
LEMMA Widen ==
    ASSUME TypeOK, ArchiveInv, NEW k \in Keys,
           position[k[2]] \in Parts(k)
    PROVE  LET o == position[k[2]]
               g == AddTo(groups[k], o)
           IN  /\ g # NoGroup /\ g.first <= g.last /\ g.last = o
               /\ g.offsets = Parts(k) \cap (g.first .. o)
               /\ groups[k].offsets \subseteq g.offsets /\ o \in g.offsets
<1> DEFINE o == position[k[2]]
<1>0. o \in Nat
    BY Ranges
<1>1. CASE groups[k] = NoGroup
  <2>1. AddTo(groups[k], o) = [first |-> o, last |-> o, offsets |-> {o}]
      BY <1>1 DEF AddTo
  <2>2. {o} = Parts(k) \cap (o .. o)
      BY <1>0
  <2> QED BY <1>0, <1>1, <2>1, <2>2 DEF NoGroup
<1>2. CASE groups[k] # NoGroup
  <2>1. /\ groups[k].first <= groups[k].last /\ groups[k].last < o
        /\ groups[k].offsets = Parts(k) \cap (groups[k].first .. o - 1)
        /\ groups[k].first \in Nat /\ groups[k].last \in Int
      BY <1>2, Ranges DEF ArchiveInv, GroupsAreWhole, Pending
  <2>2. AddTo(groups[k], o) =
            [first |-> groups[k].first, last |-> o, offsets |-> groups[k].offsets \cup {o}]
      BY <1>0, <1>2, <2>1 DEF AddTo, Extend, Lesser, Greater
  <2>3. Parts(k) \cap (groups[k].first .. o)
            = (Parts(k) \cap (groups[k].first .. o - 1)) \cup {o}
      BY <1>0, <2>1
  <2> QED BY <1>0, <2>1, <2>2, <2>3 DEF NoGroup
<1> QED BY <1>1, <1>2

LEMMA PollStep ==
    ASSUME TypeOK, ArchiveInv, NEW p \in Partitions, Poll(p)
    PROVE  StoreInv' /\ BatchInv'
<1> DEFINE o == position[p]
           m == log[p][o + 1]
<1>1. /\ pc = "poll" /\ o < Len(log[p])
      /\ position' = [position EXCEPT ![p] = o + 1]
      /\ groups' = AddAll(p, o, m)
      /\ BeginFlush("put") \/ UNCHANGED <<pc, flushVars>>
      /\ UNCHANGED <<log, committed, store>>
    BY DEF Poll
<1>2. o \in Nat /\ position \in [Partitions -> Nat]
    BY DEF TypeOK
<1>3. \A k \in Keys : position'[k[2]] = IF k[2] = p THEN o + 1 ELSE position[k[2]]
    BY <1>1, <1>2, Ranges
<1>4. \A k \in Keys : k[2] = p /\ o \in Parts(k) => groups'[k] = AddTo(groups[k], o)
    BY <1>1, PartsAre DEF AddAll
<1>5. \A k \in Keys : ~(k[2] = p /\ o \in Parts(k)) => groups'[k] = groups[k]
    BY <1>1, <1>2, PartsAre DEF AddAll
<1>6. \A k : Parts(k)' = Parts(k) /\ Archived(k)' = Archived(k)
    BY <1>1 DEF Parts, Archived
<1> HIDE DEF o, m
<1>7. StoreInv'
  <2>1. WithinLog'
    <3>1. \A q \in Partitions : committed'[q] <= Len(log'[q])
        BY <1>1 DEF ArchiveInv, WithinLog
    <3>2. \A q \in Partitions : position'[q] <= Len(log'[q])
      <4> SUFFICES ASSUME NEW q \in Partitions PROVE position'[q] <= Len(log[q])
          BY <1>1
      <4>1. CASE q = p
          <5>1. Len(log[p]) \in Nat
              BY DEF TypeOK
          <5> QED BY <1>1, <1>2, <4>1, <5>1
      <4>2. CASE q # p
          BY <1>1, <1>2, <4>2 DEF ArchiveInv, WithinLog
      <4> QED BY <4>1, <4>2
    <3>3. \A x \in store' : x.last < Len(log'[x.key[2]])
        BY <1>1 DEF ArchiveInv, WithinLog
    <3> QED BY <3>1, <3>2, <3>3 DEF WithinLog
  <2>2. CommittedArchived'
      BY <1>1, <1>6 DEF ArchiveInv, CommittedArchived
  <2>3. ObjectsAreWhole'
      BY <1>1, <1>6 DEF ArchiveInv, ObjectsAreWhole
  <2> QED BY <2>1, <2>2, <2>3 DEF StoreInv
<1>8. GroupsAreWhole'
  <2> SUFFICES ASSUME NEW k \in Keys, groups'[k] # NoGroup
               PROVE  /\ groups'[k].first <= groups'[k].last
                      /\ groups'[k].last < position'[k[2]]
                      /\ groups'[k].offsets = Parts(k) \cap (groups'[k].first .. groups'[k].last)
                      /\ groups'[k].offsets = Parts(k) \cap (groups'[k].first .. position'[k[2]] - 1)
      BY <1>6 DEF GroupsAreWhole, Pending
  <2>1. CASE k[2] = p /\ o \in Parts(k)
    <3> DEFINE g == AddTo(groups[k], o)
    <3>1. /\ g.first <= g.last /\ g.last = o
          /\ g.offsets = Parts(k) \cap (g.first .. o)
        BY <2>1, Widen DEF o
    <3>2. groups'[k] = g /\ position'[k[2]] = o + 1
        BY <1>3, <1>4, <2>1
    <3> HIDE DEF g
    <3>3. o + 1 - 1 = o /\ o < o + 1
        BY <1>2
    <3>4. groups'[k].offsets = Parts(k) \cap (groups'[k].first .. groups'[k].last)
        BY <3>1, <3>2
    <3>5. position'[k[2]] - 1 = groups'[k].last
        BY <1>2, <3>1, <3>2, <3>3
    <3>6. groups'[k].first <= groups'[k].last /\ groups'[k].last < position'[k[2]]
        BY <1>2, <3>1, <3>2, <3>3
    <3> QED BY <3>4, <3>5, <3>6
  <2>2. CASE ~(k[2] = p /\ o \in Parts(k))
    <3>1. groups'[k] = groups[k] /\ k \in Pending
        BY <1>5, <2>2 DEF Pending
    <3>2. /\ groups[k].first <= groups[k].last
          /\ groups[k].last < position[k[2]]
          /\ groups[k].offsets = Parts(k) \cap (groups[k].first .. groups[k].last)
          /\ groups[k].offsets = Parts(k) \cap (groups[k].first .. position[k[2]] - 1)
        BY <3>1 DEF ArchiveInv, GroupsAreWhole
    <3>3. CASE k[2] # p
        BY <1>3, <3>1, <3>2, <3>3
    <3>4. CASE k[2] = p /\ o \notin Parts(k)
      <4>1. position[k[2]] = o /\ position'[k[2]] = o + 1
          BY <1>3, <3>4 DEF o
      <4>2. groups[k].first \in Nat /\ groups[k].last \in Int
          BY Ranges
      <4>3. \A i \in Int : i \in groups[k].first .. o => i \in groups[k].first .. o - 1 \/ i = o
          BY <1>2, <4>2
      <4>7. \A i \in Int : i \in groups[k].first .. o - 1 => i \in groups[k].first .. o
          BY <1>2, <4>2
      <4>4. Parts(k) \subseteq Int
          BY PartsAre
      <4>5. Parts(k) \cap (groups[k].first .. o) = Parts(k) \cap (groups[k].first .. o - 1)
          BY <3>4, <4>3, <4>4, <4>7
      <4>6. o + 1 - 1 = o /\ groups[k].last < o + 1
          BY <1>2, <3>2, <4>1, <4>2
      <4>8. groups'[k].offsets = Parts(k) \cap (groups'[k].first .. groups'[k].last)
          BY <3>1, <3>2
      <4>9. position[k[2]] - 1 = o - 1 /\ position'[k[2]] - 1 = o
          BY <1>2, <4>1, <4>6
      <4>10. groups'[k].offsets = Parts(k) \cap (groups'[k].first .. position'[k[2]] - 1)
          BY <3>1, <3>2, <4>5, <4>9
      <4>11. groups'[k].first <= groups'[k].last /\ groups'[k].last < position'[k[2]]
          BY <3>1, <3>2, <4>1, <4>6
      <4> QED BY <4>8, <4>10, <4>11
    <3> QED BY <2>2, <3>3, <3>4
  <2> QED BY <2>1, <2>2
<1>9. \A k \in Keys : groups[k].offsets \subseteq groups'[k].offsets
    BY <1>4, <1>5, Widen DEF o
<1>10. ReadIsKept'
  <2> SUFFICES ASSUME NEW k \in Keys, NEW i \in Parts(k), i < position'[k[2]]
               PROVE  i \in Archived(k) \cup groups'[k].offsets
      BY <1>6 DEF ReadIsKept
  <2>1. CASE i < position[k[2]]
      BY <1>1, <1>9, <2>1 DEF ArchiveInv, ReadIsKept
  <2>2. CASE ~(i < position[k[2]])
    <3>1. position[k[2]] \in Nat /\ i \in Nat
        BY Ranges, PartsAre
    <3>2. k[2] = p
        BY <1>3, <2>2
    <3>3. i < o + 1 /\ ~(i < o)
        BY <1>3, <2>2, <3>2 DEF o
    <3>4. i = o
        BY <1>2, <3>1, <3>3
    <3> QED BY <3>2, <1>4, <3>2, <3>4, Widen DEF o
  <2> QED BY <2>1, <2>2
<1>11. DownIsEmpty'
    BY <1>1 DEF DownIsEmpty, BeginFlush, flushVars
<1>12. PutIsArchived'
  <2>1. CASE UNCHANGED <<pc, flushVars>>
      BY <1>1, <2>1 DEF PutIsArchived
  <2>2. CASE BeginFlush("put")
    <3>1. \A k \in Keys : k \notin todo' => groups'[k].offsets = {}
        BY <2>2 DEF BeginFlush, NoGroup
    <3> QED BY <2>2, <3>1 DEF PutIsArchived, BeginFlush, Pending
  <2> QED BY <1>1, <2>1, <2>2
<1> QED BY <1>7, <1>8, <1>10, <1>11, <1>12 DEF BatchInv

-----------------------------------------------------------------------------
(* Every other step that changes the batch, the log or the objects.        *)
LEMMA PublishStep ==
    ASSUME TypeOK, TypeOK', ArchiveInv, NEW p \in Partitions, Publish(p)
    PROVE  StoreInv' /\ BatchInv'
<1>1. UNCHANGED <<committed, position, pc, groups, todo, store>>
    BY DEF Publish, batchVars, flushVars
<1>2. \A k \in Keys :
        /\ Len(log[k[2]]) <= Len(log'[k[2]])
        /\ Len(log[k[2]]) \in Nat /\ Len(log'[k[2]]) \in Nat
        /\ \A o : o < Len(log[k[2]]) => (o \in Parts(k)' <=> o \in Parts(k))
  <2> SUFFICES ASSUME NEW k \in Keys
               PROVE  /\ Len(log[k[2]]) <= Len(log'[k[2]])
                      /\ Len(log[k[2]]) \in Nat /\ Len(log'[k[2]]) \in Nat
                      /\ \A o : o < Len(log[k[2]]) => (o \in Parts(k)' <=> o \in Parts(k))
      OBVIOUS
  <2>1. k[2] \in Partitions
      BY DEF Keys
  <2>2. log[k[2]] \in Seq(Payloads) /\ log'[k[2]] \in Seq(Payloads)
      BY <2>1 DEF TypeOK
  <2> QED BY <2>2, PartsGrow
<1>3. \A q \in Partitions : /\ Len(log[q]) \in Nat /\ Len(log'[q]) \in Nat
                             /\ Len(log[q]) <= Len(log'[q])
  <2>1. PICK m \in Payloads : log' = [log EXCEPT ![p] = Append(@, m)]
      BY DEF Publish
  <2>2. \A q \in Partitions : log[q] \in Seq(Payloads)
      BY DEF TypeOK
  <2>3. \A q \in Partitions : log'[q] = IF q = p THEN Append(log[q], m) ELSE log[q]
      BY <2>1 DEF TypeOK
  <2> TAKE q \in Partitions
  <2>4. Len(Append(log[q], m)) = Len(log[q]) + 1 /\ Len(log[q]) \in Nat
      BY <2>2
  <2>5. CASE q = p
    <3>1. log'[q] = Append(log[q], m)
        BY <2>3, <2>5
    <3>2. Len(log'[q]) = Len(log[q]) + 1
        BY <2>4, <3>1
    <3> QED BY <2>4, <3>2
  <2>6. CASE q # p
      BY <2>3, <2>4, <2>6
  <2> QED BY <2>5, <2>6
<1>4. \A k \in Keys : committed[k[2]] \in Nat /\ committed[k[2]] <= Len(log[k[2]])
                      /\ position[k[2]] \in Nat /\ position[k[2]] <= Len(log[k[2]])
    BY Ranges DEF ArchiveInv, WithinLog
<1>5. \A k \in Keys, a, b \in Int :
        b < Len(log[k[2]]) => Parts(k)' \cap (a .. b) = Parts(k) \cap (a .. b)
  <2> SUFFICES ASSUME NEW k \in Keys, NEW a \in Int, NEW b \in Int, b < Len(log[k[2]]), NEW i
               PROVE  i \in a .. b => (i \in Parts(k)' <=> i \in Parts(k))
      OBVIOUS
  <2>1. i \in a .. b => i < Len(log[k[2]])
      BY <1>2
  <2> QED BY <1>2, <2>1
<1>6. WithinLog'
  <2>1. \A q \in Partitions : committed'[q] <= Len(log'[q]) /\ position'[q] <= Len(log'[q])
      BY <1>1, <1>3 DEF ArchiveInv, WithinLog, TypeOK
  <2>2. \A x \in store' : x.last < Len(log'[x.key[2]])
    <3> SUFFICES ASSUME NEW x \in store PROVE x.last < Len(log'[x.key[2]])
        BY <1>1
    <3>1. x.last < Len(log[x.key[2]]) /\ x.last \in Int /\ x.key \in Keys
        BY Ranges DEF ArchiveInv, WithinLog
    <3> QED BY <1>2, <3>1
  <2> QED BY <2>1, <2>2 DEF WithinLog
<1>7. \A k \in Keys : \A o \in Parts(k)' :
        o < committed[k[2]] \/ o < position[k[2]] => o \in Parts(k)
  <2> SUFFICES ASSUME NEW k \in Keys, NEW o \in Parts(k)',
                      o < committed[k[2]] \/ o < position[k[2]]
               PROVE  o \in Parts(k)
      OBVIOUS
  <2>1. o \in Nat
      BY <1>2 DEF Parts
  <2>2. o < Len(log[k[2]])
      BY <1>2, <1>4, <2>1
  <2> QED BY <1>2, <2>2
<1>8. CommittedArchived'
    BY <1>1, <1>7 DEF ArchiveInv, CommittedArchived, Archived
<1>9. ObjectsAreWhole'
  <2> SUFFICES ASSUME NEW x \in store PROVE x.offsets = Parts(x.key)' \cap (x.first .. x.last)
      BY <1>1 DEF ObjectsAreWhole
  <2>1. x.last < Len(log[x.key[2]]) /\ x.last \in Int /\ x.first \in Int /\ x.key \in Keys
      BY Ranges DEF ArchiveInv, WithinLog
  <2> QED BY <1>5, <2>1 DEF ArchiveInv, ObjectsAreWhole
<1>10. GroupsAreWhole'
  <2> SUFFICES ASSUME NEW k \in Pending
               PROVE  /\ groups[k].first <= groups[k].last
                      /\ groups[k].last < position[k[2]]
                      /\ groups[k].offsets = Parts(k)' \cap (groups[k].first .. groups[k].last)
                      /\ groups[k].offsets = Parts(k)' \cap (groups[k].first .. position[k[2]] - 1)
      BY <1>1 DEF GroupsAreWhole, Pending
  <2>1. /\ groups[k].first <= groups[k].last
        /\ groups[k].last < position[k[2]]
        /\ groups[k].offsets = Parts(k) \cap (groups[k].first .. groups[k].last)
        /\ groups[k].offsets = Parts(k) \cap (groups[k].first .. position[k[2]] - 1)
      BY DEF ArchiveInv, GroupsAreWhole
  <2>2. k \in Keys /\ groups[k].first \in Int /\ groups[k].last \in Int
      BY Ranges DEF Pending
  <2>3. /\ groups[k].last < Len(log[k[2]])
        /\ position[k[2]] - 1 < Len(log[k[2]]) /\ position[k[2]] - 1 \in Int
      BY <1>2, <1>4, <2>1, <2>2
  <2> QED BY <1>5, <2>1, <2>2, <2>3
<1>11. ReadIsKept'
    BY <1>1, <1>7 DEF ArchiveInv, ReadIsKept, Archived
<1>12. DownIsEmpty' /\ PutIsArchived'
    BY <1>1 DEF ArchiveInv, DownIsEmpty, PutIsArchived, Pending, Archived
<1> QED BY <1>6, <1>8, <1>9, <1>10, <1>11, <1>12 DEF StoreInv, BatchInv

LEMMA StartStep == TypeOK /\ ArchiveInv /\ Start => StoreInv' /\ BatchInv'
<1> SUFFICES ASSUME TypeOK, ArchiveInv, Start PROVE StoreInv' /\ BatchInv'
    OBVIOUS
<1>1. /\ pc = "down" /\ pc' = "poll" /\ \A p \in Partitions : position'[p] = committed[p]
      /\ UNCHANGED <<log, committed, groups, store>>
    BY DEF Start, ResumeAt, batchVars
<1>2. groups = NoGroups /\ \A k \in Keys : groups[k] = NoGroup
    BY <1>1 DEF ArchiveInv, DownIsEmpty, NoGroups
<1>3. \A k : Parts(k)' = Parts(k) /\ Archived(k)' = Archived(k)
    BY <1>1 DEF Parts, Archived
<1>4. StoreInv'
  <2>1. WithinLog'
      BY <1>1 DEF ArchiveInv, WithinLog
  <2>2. CommittedArchived' /\ ObjectsAreWhole'
      BY <1>1, <1>3 DEF ArchiveInv, CommittedArchived, ObjectsAreWhole
  <2> QED BY <2>1, <2>2 DEF StoreInv
<1>5. GroupsAreWhole' /\ DownIsEmpty' /\ PutIsArchived'
    BY <1>1, <1>2 DEF GroupsAreWhole, DownIsEmpty, PutIsArchived, Pending
<1>6. ReadIsKept'
    BY <1>1, <1>3, Ranges DEF ArchiveInv, CommittedArchived, ReadIsKept
<1> QED BY <1>4, <1>5, <1>6 DEF BatchInv

LEMMA PutStep == TypeOK /\ ArchiveInv /\ Put => StoreInv' /\ BatchInv'
<1> SUFFICES ASSUME TypeOK, ArchiveInv, Put PROVE StoreInv' /\ BatchInv'
    OBVIOUS
<1>1. PICK k \in todo : store' = Written(ObjectOf(k)) /\ todo' = todo \ {k}
    BY DEF Put
<1>2. /\ pc \in {"put", "finalPut"}
      /\ UNCHANGED <<log, committed, position, pc, groups>>
    BY DEF Put, batchVars
<1>3. /\ \A x \in store' : x.last < Len(log'[x.key[2]])
      /\ ObjectsAreWhole'
      /\ \A j : Archived(j) \subseteq Archived(j)'
      /\ groups[k].offsets \subseteq Archived(k)'
    BY <1>1, <1>2, StoreStep
<1>4. StoreInv'
    BY <1>2, <1>3 DEF ArchiveInv, StoreInv, WithinLog, CommittedArchived, Parts
<1>5. GroupsAreWhole' /\ DownIsEmpty'
    BY <1>2 DEF ArchiveInv, GroupsAreWhole, DownIsEmpty, Pending, Parts
<1>6. ReadIsKept'
    BY <1>2, <1>3 DEF ArchiveInv, ReadIsKept, Parts
<1>7. PutIsArchived'
    BY <1>1, <1>2, <1>3 DEF ArchiveInv, PutIsArchived, Pending
<1> QED BY <1>4, <1>5, <1>6, <1>7 DEF BatchInv

LEMMA CommitStep == TypeOK /\ ArchiveInv /\ Commit => StoreInv' /\ BatchInv'
<1> SUFFICES ASSUME TypeOK, ArchiveInv, Commit PROVE StoreInv' /\ BatchInv'
    OBVIOUS
<1>1. /\ pc \in {"put", "finalPut"} /\ todo = {}
      /\ committed' = position
      /\ UNCHANGED <<log, position, store>>
    BY DEF Commit
<1>2. \A k \in Keys : \A o \in Parts(k) : o < position[k[2]] => o \in Archived(k)
    BY <1>1, AllPut
<1>3. StoreInv'
    BY <1>1, <1>2, StoreKept
<1>4. CASE pc = "finalPut"
    BY <1>3, <1>4, ExitStep DEF Commit
<1>5. CASE pc = "put"
  <2>1. pc' = "poll" /\ groups' = NoGroups
      BY <1>5 DEF Commit, Reset
  <2>2. GroupsAreWhole' /\ DownIsEmpty' /\ PutIsArchived'
      BY <2>1 DEF GroupsAreWhole, DownIsEmpty, PutIsArchived, Pending, NoGroups
  <2>3. ReadIsKept'
      BY <1>1, <1>2 DEF ReadIsKept, Parts, Archived
  <2> QED BY <1>3, <2>2, <2>3 DEF BatchInv
<1> QED BY <1>1, <1>4, <1>5

LEMMA ErrorStep ==
    TypeOK /\ ArchiveInv /\ (PutError \/ CommitError \/ LeaveLoop \/ Crash)
        => StoreInv' /\ BatchInv'
<1> SUFFICES ASSUME TypeOK, ArchiveInv, PutError \/ CommitError \/ LeaveLoop \/ Crash
             PROVE  StoreInv' /\ BatchInv'
    OBVIOUS
<1>1. CASE PutError
  <2>1. PICK k \in todo : store' \in {store, Written(ObjectOf(k))}
      BY <1>1 DEF PutError
  <2>2. /\ pc \in {"put", "finalPut"} /\ AfterError
        /\ UNCHANGED <<log, committed, position>>
      BY <1>1 DEF PutError, AfterPutError
  <2>3. /\ \A x \in store' : x.last < Len(log'[x.key[2]])
        /\ ObjectsAreWhole'
        /\ \A j : Archived(j) \subseteq Archived(j)'
      BY <2>1, <2>2, StoreStep
  <2>4. StoreInv'
      BY <2>2, <2>3 DEF ArchiveInv, StoreInv, WithinLog, CommittedArchived, Parts
  <2>5. BatchInv'
      BY <2>2, <2>3, FinallyStep, ExitStep DEF AfterError
  <2> QED BY <2>4, <2>5
<1>2. CASE CommitError
  <2>1. /\ pc \in {"put", "finalPut"} /\ todo = {} /\ AfterError
        /\ committed' \in {committed, position}
        /\ UNCHANGED <<log, position, store>>
      BY <1>2 DEF CommitError
  <2>2. StoreInv'
      BY <2>1, AllPut, StoreKept
  <2>3. \A j : Archived(j) \subseteq Archived(j)'
      BY <2>1 DEF Archived
  <2>4. BatchInv'
      BY <2>1, <2>3, FinallyStep, ExitStep DEF AfterError
  <2> QED BY <2>2, <2>4
<1>3. CASE LeaveLoop \/ Crash
  <2>1. /\ pc # "down"
        /\ Finally \/ Exit
        /\ UNCHANGED <<log, committed, position, store>>
      BY <1>3 DEF LeaveLoop, Crash
  <2>2. StoreInv'
      BY <2>1 DEF ArchiveInv, StoreInv, WithinLog, CommittedArchived, ObjectsAreWhole,
                  Parts, Archived
  <2>3. \A j : Archived(j) \subseteq Archived(j)'
      BY <2>1 DEF Archived
  <2>4. BatchInv'
      BY <2>1, <2>3, FinallyStep, ExitStep
  <2> QED BY <2>2, <2>4
<1> QED BY <1>1, <1>2, <1>3
-----------------------------------------------------------------------------
(* ArchiveInvariant: whatever was read is in an object or in the batch,    *)
(* and both hold all there is between their bounds: ArchiveInv.            *)
THEOREM ArchiveInvariant == Spec => []ArchiveInv
<1>1. Init => ArchiveInv
  <2> SUFFICES ASSUME Init PROVE ArchiveInv
      OBVIOUS
  <2>1. StoreInv
      BY DEF Init, StoreInv, WithinLog, CommittedArchived, ObjectsAreWhole, Parts, Keys
  <2>2. BatchInv
      BY DEF Init, BatchInv, GroupsAreWhole, DownIsEmpty, ReadIsKept, PutIsArchived,
             Pending, NoGroups
  <2> QED BY <2>1, <2>2, InvParts
<1>2. TypeOK /\ TypeOK' /\ ArchiveInv /\ [Next]_vars => ArchiveInv'
  <2> SUFFICES ASSUME TypeOK, TypeOK', ArchiveInv, [Next]_vars PROVE StoreInv' /\ BatchInv'
      BY DEF ArchiveInv, StoreInv, BatchInv
  <2>1. CASE HourTurns \/ UNCHANGED vars
    <3>1. UNCHANGED <<log, committed, position, pc, groups, todo, store>>
        BY <2>1 DEF HourTurns, vars, batchVars, flushVars
    <3> QED BY <3>1 DEF ArchiveInv, StoreInv, BatchInv, WithinLog, CommittedArchived,
                        ObjectsAreWhole, GroupsAreWhole, DownIsEmpty, ReadIsKept,
                        PutIsArchived, Parts, Archived, Pending
  <2>2. ASSUME PollIdle PROVE StoreInv' /\ BatchInv'
    <3>1. /\ pc = "poll" /\ BeginFlush("put")
          /\ UNCHANGED <<batchVars, position, log, committed, store>>
        BY <2>2 DEF PollIdle
    <3>2. \A j : Archived(j) \subseteq Archived(j)'
        BY <3>1 DEF Archived
    <3>3. StoreInv'
        BY <3>1 DEF ArchiveInv, StoreInv, WithinLog, CommittedArchived, ObjectsAreWhole,
                    Parts, Archived
    <3> QED BY <3>1, <3>2, <3>3, BeginStep
  <2> QED BY <2>1, <2>2, PublishStep, StartStep, PollStep, PutStep, CommitStep, ErrorStep
          DEF Next, Progress
<1> QED BY <1>1, <1>2, TypeCorrect, PTL DEF Spec

(* NothingUnarchived: an offset is committed only once its parts are in    *)
(* objects of their tenants: CommittedArchived.                            *)
THEOREM NothingUnarchived == Spec => []CommittedArchived
<1>1. ArchiveInv => CommittedArchived
    BY DEF ArchiveInv
<1> QED BY <1>1, ArchiveInvariant, PTL

(* OverwritesKeep: an object that is overwritten keeps its content:        *)
(* OverwritesAreIdentical.                                                 *)
THEOREM OverwritesKeep == Spec => OverwritesAreIdentical
<1> DEFINE Same == \A x \in store : \E y \in store' : SameName(x, y) /\ x.offsets = y.offsets
<1>1. TypeOK /\ ArchiveInv /\ [Next]_vars => [Same]_vars
  <2> SUFFICES ASSUME TypeOK, ArchiveInv, [Next]_vars PROVE Same
      OBVIOUS
  <2>1. CASE store' = store
      BY <2>1 DEF SameName
  <2>2. CASE Put \/ PutError
    <3>1. PICK k \in todo : store' \in {store, Written(ObjectOf(k))}
        BY <2>2 DEF Put, PutError
    <3>2. pc \in {"put", "finalPut"} /\ UNCHANGED log
        BY <2>2 DEF Put, PutError
    <3> QED BY <3>1, <3>2, StoreStep
  <2>3. store' = store \/ Put \/ PutError
      BY DEF Next, Progress, Publish, HourTurns, Start, Poll, PollIdle, Commit, LeaveLoop,
             CommitError, Crash, vars
  <2> QED BY <2>1, <2>2, <2>3
<1> QED BY <1>1, TypeCorrect, ArchiveInvariant, PTL DEF Spec, OverwritesAreIdentical
=============================================================================
