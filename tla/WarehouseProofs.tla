-------------------------- MODULE WarehouseProofs ---------------------------
(***************************************************************************)
(* Theorems about Warehouse, for any rows, runners, recomputations and     *)
(* schema files that satisfy its assumptions.                              *)
(***************************************************************************)
EXTENDS Warehouse, FiniteSetTheorems, NaturalsInduction, WellFoundedInduction, TLAPS

-----------------------------------------------------------------------------
(***************************************************************************)
(* Types.                                                                  *)
(***************************************************************************)

Multiset == [Names -> Nat]

Resting == [stage : {"idle", "ready", "refused"}]
Working == [stage : {"applying"}, todo : (SUBSET Discover) \ {{}}, at : Nat \ {0},
            alone : BOOLEAN, pure : BOOLEAN]

IdleJob == [stage : {"idle"}]
BusyJob == [stage : {"dropped", "created", "filled", "ending"}, table : Tables, day : Days,
            alone : BOOLEAN, pure : BOOLEAN]

Typed ==
  /\ raw \subseteq Names
  /\ objects \subseteq Objects
  /\ content \in [Tables -> Multiset]
  /\ staging \in [Tables -> [there : BOOLEAN, holds : Multiset]]
  /\ runners \in [Runners -> Resting \cup Working]
  /\ jobs \in [Jobs -> IdleJob \cup BusyJob]
  /\ trust \in [Pairs -> {"exact", "over", "unknown"}]

LEMMA TypedIsTyped == Typed => TypeOK
BY DEF Typed, TypeOK, Multiset, Resting, Working, IdleJob, BusyJob

LEMMA WorkingType == ASSUME Typed, NEW r \in Applying PROVE runners[r] \in Working
BY DEF Typed, Applying, Resting

LEMMA BusyType == ASSUME Typed, NEW j \in Busy PROVE jobs[j] \in BusyJob
BY DEF Typed, Busy, IdleJob

\* The next migration of a runner is the first of those it still has to apply.
LEMMA FirstOf ==
  ASSUME NEW todo \in SUBSET Discover, todo # {}
  PROVE  \E f \in todo : \A g \in todo : f.version <= g.version
<1> DEFINE T == Versions(todo)
           R == {p \in Nat \X Nat : p[1] < p[2]}
<1>1. T \subseteq Nat /\ T # {}
  BY FilesAssumption DEF Versions
<1>2. IsWellFoundedOn(R, Nat)
  BY NatLessThanWellFounded DEF OpToRel
<1>3. \E v \in T : \A w \in T : ~ (<<w, v>> \in R)
  <2> HIDE DEF T, R
  <2> QED BY <1>1, <1>2, WFMin
<1>4. PICK v \in T : \A w \in T : <<w, v>> \notin R
  BY <1>3
<1>5. ASSUME NEW w \in T PROVE v <= w
  <2>1. v \in Nat /\ w \in Nat
    BY <1>1
  <2>2. w < v => <<w, v>> \in R
    BY <2>1
  <2> QED BY <2>1, <2>2, <1>4
<1>6. PICK f \in todo : f.version = v
  BY <1>4 DEF Versions
<1> QED BY <1>5, <1>6 DEF Versions

LEMMA CurrentIsFirst ==
  ASSUME Typed, NEW r \in Applying
  PROVE  /\ Current(r) \in runners[r].todo
         /\ Current(r) \in Discover
         /\ \A g \in runners[r].todo : Current(r).version <= g.version
<1>1. runners[r].todo \in SUBSET Discover /\ runners[r].todo # {}
  BY WorkingType DEF Working
<1> QED BY <1>1, FirstOf DEF Current

LEMMA StatementType ==
  ASSUME Typed, NEW r \in Runners, HasNext(r)
  PROVE  /\ r \in Applying
         /\ runners[r].at \in DOMAIN Current(r).statements
         /\ Statement(r) \in Statements
<1>1. r \in Applying
  BY DEF HasNext, Applying
<1>2. Current(r).statements \in Seq(Statements)
  BY <1>1, CurrentIsFirst, FilesAssumption
<1>3. runners[r].at \in Nat \ {0}
  BY <1>1, WorkingType DEF Working
<1>4. runners[r].at \in DOMAIN Current(r).statements
  BY <1>2, <1>3 DEF HasNext
<1> QED BY <1>1, <1>2, <1>4 DEF Statement

LEMMA NewWorking ==
  ASSUME NEW todo \in (SUBSET Discover) \ {{}}, NEW alone \in BOOLEAN
  PROVE  [stage |-> "applying", todo |-> todo, at |-> 1, alone |-> alone, pure |-> FALSE] \in Working
BY DEF Working

LEMMA WorkingMoves ==
  ASSUME NEW w \in Working, NEW pure \in BOOLEAN
  PROVE  Advanced(w, pure) \in Working
<1>1. w.at + 1 \in Nat \ {0}
  BY DEF Working
<1>2. DOMAIN Advanced(w, pure) = {"stage", "todo", "at", "alone", "pure"}
  BY DEF Working, Advanced
<1> QED BY <1>1 DEF Working, Advanced

LEMMA WorkingProceeds ==
  ASSUME NEW w \in Working, NEW todo \in (SUBSET Discover) \ {{}}
  PROVE  [w EXCEPT !.todo = todo, !.at = 1] \in Working
<1>1. [w EXCEPT !.todo = todo] \in Working
  BY DEF Working
<1>2. [w EXCEPT !.todo = todo, !.at = 1] = [[w EXCEPT !.todo = todo] EXCEPT !.at = 1]
  BY DEF Working
<1>3. \A v \in Working : [v EXCEPT !.at = 1] \in Working
  BY DEF Working
<1> QED BY <1>1, <1>2, <1>3

LEMMA OnceType == ASSUME NEW S PROVE Once(S, Names) \in Multiset
BY DEF Once, Multiset

LEMMA PlusType == ASSUME NEW f \in Multiset, NEW g \in Multiset PROVE Plus(f, g) \in Multiset
BY DEF Plus, Multiset

LEMMA NothingType == Nothing \in Multiset
BY DEF Nothing, Multiset

LEMMA DayType == ASSUME NEW n \in Names PROVE DayOf(n) \in Days
BY DEF DayOf, Days

LEMMA RunTyped == ASSUME Typed, NEW r \in Runners, Run(r) PROVE Typed'
<1> DEFINE todo == Pending(ledger)
<1>1. CASE Refuses(ledger) \/ todo = {}
  <2>1. runners' \in [Runners -> Resting \cup Working]
    BY <1>1 DEF Run, Typed, Resting
  <2> QED BY <1>1, <2>1 DEF Run, Typed
<1>2. CASE ~ (Refuses(ledger) \/ todo = {})
  <2>1. todo \in (SUBSET Discover) \ {{}}
    BY <1>2 DEF Pending
  <2>2. \A q \in Runners : runners'[q] \in Resting \cup Working
    <3> SUFFICES ASSUME NEW q \in Runners PROVE runners'[q] \in Resting \cup Working
      OBVIOUS
    <3>1. CASE q = r
      <4>1. (Applying = {} /\ Busy = {}) \in BOOLEAN
        OBVIOUS
      <4>2. runners'[r] = [stage |-> "applying", todo |-> todo, at |-> 1,
                           alone |-> Applying = {} /\ Busy = {}, pure |-> FALSE]
        BY <1>2 DEF Run
      <4> QED BY <2>1, <3>1, <4>1, <4>2, NewWorking
    <3>2. CASE q # r /\ q \in Applying
      <4>1. runners[q] \in Working
        BY <3>2, WorkingType
      <4>2. runners'[q] = [runners[q] EXCEPT !.alone = FALSE]
        BY <1>2, <3>2 DEF Run
      <4> QED BY <4>1, <4>2 DEF Working
    <3>3. CASE q # r /\ q \notin Applying
      BY <1>2, <3>3 DEF Run, Typed
    <3> QED BY <3>1, <3>2, <3>3
  <2>3. \A j \in Jobs : jobs'[j] \in IdleJob \cup BusyJob
    <3> SUFFICES ASSUME NEW j \in Jobs PROVE jobs'[j] \in IdleJob \cup BusyJob
      OBVIOUS
    <3>1. CASE j \in Busy
      <4>1. jobs[j] \in BusyJob
        BY <3>1, BusyType
      <4>2. jobs'[j] = [jobs[j] EXCEPT !.alone = FALSE]
        BY <1>2, <3>1 DEF Run
      <4> QED BY <4>1, <4>2 DEF BusyJob
    <3>2. CASE j \notin Busy
      BY <1>2, <3>2 DEF Run, Typed
    <3> QED BY <3>1, <3>2
  <2>4. /\ runners' \in [Runners -> Resting \cup Working]
        /\ jobs' \in [Jobs -> IdleJob \cup BusyJob]
    BY <1>2, <2>2, <2>3 DEF Run
  <2> QED BY <2>4 DEF Run, Typed
<1> QED BY <1>1, <1>2

LEMMA ExecuteTyped == ASSUME Typed, NEW r \in Runners, Execute(r) PROVE Typed'
<1> DEFINE op == Statement(r)[1]
           o  == Statement(r)[2]
<1>1. r \in Applying /\ Statement(r) \in Statements
  BY StatementType DEF Execute
<1>2. runners' \in [Runners -> Resting \cup Working]
  <2>1. CASE Errs(op, o)
    BY <2>1 DEF Execute, Typed, Resting
  <2>2. CASE ~ Errs(op, o)
    <3>1. runners[r] \in Working
      BY <1>1, WorkingType
    <3> DEFINE next == Advanced(runners[r], op = "create")
    <3>2. next \in Working
      BY <3>1, WorkingMoves
    <3>3. runners' = [runners EXCEPT ![r] = next]
      BY <2>2 DEF Execute
    <3> HIDE DEF next
    <3> QED BY <3>2, <3>3 DEF Typed
  <2> QED BY <2>1, <2>2
<1>3. objects' \subseteq Objects
  BY <1>1 DEF Execute, Typed, Statements
<1>4. content' \in [Tables -> Multiset] /\ trust' \in [Pairs -> {"exact", "over", "unknown"}]
  <2>1. op \in {"create", "drop"} \/ (op = "backfill" /\ o \in Tables)
    BY <1>1 DEF Statements
  <2>2. CASE Errs(op, o) \/ op = "create" \/ (op = "drop" /\ o \notin Tables)
    BY <2>2 DEF Execute, Typed
  <2>3. CASE ~ Errs(op, o) /\ op = "drop" /\ o \in Tables
    BY <2>3, NothingType DEF Execute, Typed, Retrust
  <2>4. CASE ~ Errs(op, o) /\ op = "backfill" /\ o \in Tables
    <3>1. Plus(content[o], Once(Latest(raw), Names)) \in Multiset
      BY <2>4, PlusType, OnceType DEF Typed
    <3>2. content' = [content EXCEPT ![o] = Plus(@, Once(Latest(raw), Names))]
      BY <2>4 DEF Execute
    <3>3. \E value \in {"exact", "over", "unknown"} : Retrust(o, value)
      BY <2>4 DEF Execute
    <3> QED BY <2>4, <3>1, <3>2, <3>3 DEF Typed, Retrust
  <2> QED BY <2>1, <2>2, <2>3, <2>4
<1> QED BY <1>2, <1>3, <1>4 DEF Execute, Typed

LEMMA ProceedTyped ==
  ASSUME Typed, NEW r \in Applying, Proceed(r)
  PROVE  runners' \in [Runners -> Resting \cup Working]
<1> DEFINE rest == runners[r].todo \ {Current(r)}
<1>1. runners[r] \in Working
  BY WorkingType
<1>2. CASE rest = {}
  BY <1>2 DEF Proceed, Typed, Resting
<1>3. CASE rest # {}
  <2>1. rest \in (SUBSET Discover) \ {{}}
    BY <1>1, <1>3 DEF Working
  <2>2. [runners[r] EXCEPT !.todo = rest, !.at = 1] \in Working
    BY <1>1, <2>1, WorkingProceeds
  <2>3. runners' = [runners EXCEPT ![r] = [@ EXCEPT !.todo = rest, !.at = 1]]
    BY <1>3 DEF Proceed
  <2> QED BY <2>2, <2>3 DEF Typed
<1> QED BY <1>2, <1>3

LEMMA RecordTyped == ASSUME Typed, NEW r \in Runners, Record(r) PROVE Typed'
<1>1. r \in Applying
  BY DEF Record, Applying
<1>2. runners' \in [Runners -> Resting \cup Working]
  BY <1>1, ProceedTyped DEF Record
<1> QED BY <1>2 DEF Record, Typed, scratch

LEMMA DiesTyped == ASSUME Typed, NEW r \in Runners, Dies(r) PROVE Typed'
BY DEF Dies, Typed, Resting, scratch

LEMMA InsertTyped == ASSUME Typed, NEW row \in Names, Insert(row) PROVE Typed'
<1>1. raw' \subseteq Names
  BY DEF Insert, Typed
<1>2. content' \in [Tables -> Multiset]
  <2>1. \A t \in Tables : content[t] \in Multiset
    BY DEF Typed
  <2>2. \A f \in Multiset : [f EXCEPT ![row] = @ + 1] \in Multiset
    BY DEF Multiset
  <2> QED BY <2>1, <2>2 DEF Insert
<1>3. trust' \in [Pairs -> {"exact", "over", "unknown"}]
  <2>1. ASSUME NEW p \in Pairs PROVE TrustAfter(p[1], p[2], row) \in {"exact", "over", "unknown"}
    <3>1. <<p[1], p[2]>> \in Pairs /\ trust[<<p[1], p[2]>>] \in {"exact", "over", "unknown"}
      BY DEF Pairs, Typed
    <3> QED BY <3>1 DEF TrustAfter
  <2> QED BY <2>1 DEF Insert
<1>4. runners' \in [Runners -> Resting \cup Working]
  <2>1. \A r \in Applying : [runners[r] EXCEPT !.pure = FALSE] \in Working
    BY WorkingType DEF Working
  <2> QED BY <2>1 DEF Insert, Typed
<1>5. jobs' \in [Jobs -> IdleJob \cup BusyJob]
  <2>1. \A j \in Busy : [jobs[j] EXCEPT !.pure = FALSE] \in BusyJob
    BY BusyType DEF BusyJob
  <2> QED BY <2>1 DEF Insert, Typed
<1> QED BY <1>1, <1>2, <1>3, <1>4, <1>5 DEF Insert, Typed

LEMMA NewBusyJob ==
  ASSUME NEW t \in Tables, NEW d \in Days, NEW alone \in BOOLEAN
  PROVE  [stage |-> "dropped", table |-> t, day |-> d, alone |-> alone, pure |-> FALSE] \in BusyJob
BY DEF BusyJob

LEMMA StartTyped ==
  ASSUME Typed, NEW j \in Jobs, NEW t \in Tables, NEW d \in Days, Start(j, t, d)
  PROVE  Typed'
<1>1. staging' \in [Tables -> [there : BOOLEAN, holds : Multiset]]
  BY NothingType DEF Start, Typed, NoStaging
<1>2. runners' \in [Runners -> Resting \cup Working]
  <2>1. \A r \in Applying : [runners[r] EXCEPT !.alone = FALSE] \in Working
    BY WorkingType DEF Working
  <2> QED BY <2>1 DEF Start, Typed
<1>3. jobs' \in [Jobs -> IdleJob \cup BusyJob]
  <2> DEFINE alone == BusyOn(t) = {} /\ Applying = {}
             new   == [stage |-> "dropped", table |-> t, day |-> d, alone |-> alone, pure |-> FALSE]
  <2>1. new \in BusyJob
    <3>1. alone \in BOOLEAN
      OBVIOUS
    <3> HIDE DEF alone
    <3> QED BY <3>1, NewBusyJob
  <2>2. \A i \in BusyOn(t) : [jobs[i] EXCEPT !.alone = FALSE] \in BusyJob
    BY BusyType DEF BusyJob, BusyOn
  <2>3. jobs' = [i \in Jobs |-> IF i = j THEN new
                                ELSE IF i \in BusyOn(t) THEN [jobs[i] EXCEPT !.alone = FALSE]
                                ELSE jobs[i]]
    BY DEF Start
  <2> HIDE DEF new
  <2> QED BY <2>1, <2>2, <2>3 DEF Typed
<1> QED BY <1>1, <1>2, <1>3 DEF Start, Typed

LEMMA MoveTyped ==
  ASSUME Typed, NEW j \in Jobs, jobs[j].stage # "idle",
         NEW stage \in {"created", "filled", "ending"}, Move(j, stage)
  PROVE  jobs' \in [Jobs -> IdleJob \cup BusyJob]
<1>1. jobs[j] \in BusyJob
  BY BusyType DEF Busy
<1>2. [jobs[j] EXCEPT !.stage = stage] \in BusyJob
  BY <1>1 DEF BusyJob
<1>3. jobs' = [jobs EXCEPT ![j] = [jobs[j] EXCEPT !.stage = stage]]
  BY DEF Move, Typed
<1> QED BY <1>2, <1>3 DEF Typed

LEMMA LeaveTyped ==
  ASSUME Typed, NEW j \in Jobs, Leave(j) PROVE jobs' \in [Jobs -> IdleJob \cup BusyJob]
BY DEF Leave, Typed, IdleJob

\* The table a busy job works on.
LEMMA JobTable == ASSUME Typed, NEW j \in Busy PROVE jobs[j].table \in Tables /\ jobs[j].day \in Days
BY BusyType DEF BusyJob

LEMMA StagingType ==
  ASSUME Typed, NEW t \in Tables
  PROVE  staging[t] \in [there : BOOLEAN, holds : Multiset]
BY DEF Typed

LEMMA CreateTyped == ASSUME Typed, NEW j \in Jobs, Create(j) PROVE Typed'
<1> DEFINE t == jobs[j].table
<1>1. j \in Busy /\ t \in Tables /\ jobs[j].stage # "idle"
  BY JobTable DEF Create, At, Busy
<1>2. CASE staging[t].there \/ t \notin objects
  <2>1. jobs' \in [Jobs -> IdleJob \cup BusyJob]
    BY <1>2, LeaveTyped DEF Create
  <2> QED BY <1>2, <2>1 DEF Create, Typed, schema
<1>3. CASE ~ (staging[t].there \/ t \notin objects)
  <2>1. jobs' \in [Jobs -> IdleJob \cup BusyJob]
    BY <1>1, <1>3, MoveTyped DEF Create
  <2>2. [staging[t] EXCEPT !.there = TRUE] \in [there : BOOLEAN, holds : Multiset]
    BY <1>1, StagingType
  <2>3. staging' = [staging EXCEPT ![t] = [staging[t] EXCEPT !.there = TRUE]]
    BY <1>1, <1>3 DEF Create, Typed
  <2>4. staging' \in [Tables -> [there : BOOLEAN, holds : Multiset]]
    BY <2>2, <2>3 DEF Typed
  <2> QED BY <2>1, <2>4 DEF Create, Typed, schema
<1> QED BY <1>2, <1>3

LEMMA FillTyped == ASSUME Typed, NEW j \in Jobs, Fill(j) PROVE Typed'
<1> DEFINE t == jobs[j].table
           filled == Plus(staging[t].holds, Once(Latest(OfDay(raw, jobs[j].day)), Names))
<1>1. j \in Busy /\ t \in Tables /\ jobs[j].stage # "idle"
  BY JobTable DEF Fill, At, Busy
<1>2. CASE ~ staging[t].there
  <2>1. jobs' \in [Jobs -> IdleJob \cup BusyJob]
    BY <1>1, <1>2, MoveTyped DEF Fill
  <2> QED BY <1>2, <2>1 DEF Fill, Typed, schema
<1>3. CASE staging[t].there
  <2>1. filled \in Multiset
    BY <1>1, StagingType, OnceType, PlusType
  <2>2. [staging[t] EXCEPT !.holds = filled] \in [there : BOOLEAN, holds : Multiset]
    BY <1>1, <2>1, StagingType
  <2>3. staging' = [staging EXCEPT ![t] = [staging[t] EXCEPT !.holds = filled]]
    BY <1>1, <1>3 DEF Fill, Typed
  <2>4. staging' \in [Tables -> [there : BOOLEAN, holds : Multiset]]
    BY <2>2, <2>3 DEF Typed
  <2>5. [jobs[j] EXCEPT !.stage = "filled", !.pure = TRUE] \in BusyJob
    <3>1. jobs[j] \in BusyJob
      BY <1>1, BusyType
    <3> QED BY <3>1 DEF BusyJob
  <2>6. jobs' = [jobs EXCEPT ![j] = [jobs[j] EXCEPT !.stage = "filled", !.pure = TRUE]]
    BY <1>1, <1>3 DEF Fill, Typed
  <2>7. jobs' \in [Jobs -> IdleJob \cup BusyJob]
    BY <2>5, <2>6 DEF Typed
  <2> QED BY <2>4, <2>7 DEF Fill, Typed, schema
<1> QED BY <1>2, <1>3

LEMMA ReplaceTyped == ASSUME Typed, NEW j \in Jobs, Replace(j) PROVE Typed'
<1> DEFINE t == jobs[j].table
           d == jobs[j].day
<1>1. j \in Busy /\ t \in Tables /\ d \in Days /\ jobs[j].stage # "idle"
  BY JobTable DEF Replace, At, Busy
<1>2. jobs' \in [Jobs -> IdleJob \cup BusyJob]
  BY <1>1, MoveTyped DEF Replace
<1>3. CASE ~ (staging[t].there /\ t \in objects)
  BY <1>2, <1>3 DEF Replace, Typed, schema
<1>4. CASE staging[t].there /\ t \in objects
  <2>1. [n \in Names |-> IF DayOf(n) = d THEN staging[t].holds[n] ELSE content[t][n]] \in Multiset
    BY <1>1, StagingType DEF Multiset, Typed
  <2>2. content' \in [Tables -> Multiset]
    BY <1>4, <2>1 DEF Replace, Typed
  <2>3. trust' \in [Pairs -> {"exact", "over", "unknown"}]
    BY <1>4 DEF Replace, Typed
  <2> QED BY <1>2, <2>2, <2>3 DEF Replace, Typed, schema
<1> QED BY <1>3, <1>4

LEMMA EndTyped == ASSUME Typed, NEW j \in Jobs, End(j) PROVE Typed'
<1>1. jobs' \in [Jobs -> IdleJob \cup BusyJob]
  BY LeaveTyped DEF End
<1>2. staging' \in [Tables -> [there : BOOLEAN, holds : Multiset]]
  BY NothingType DEF End, Typed, NoStaging
<1> QED BY <1>1, <1>2 DEF End, Typed, schema

LEMMA KilledTyped == ASSUME Typed, NEW j \in Jobs, Killed(j) PROVE Typed'
<1>1. jobs' \in [Jobs -> IdleJob \cup BusyJob]
  BY LeaveTyped DEF Killed
<1> QED BY <1>1 DEF Killed, Typed, schema

LEMMA InitTyped == Init => Typed
<1> SUFFICES ASSUME Init PROVE Typed
  OBVIOUS
<1>1. objects \subseteq Objects
  BY InstallationsAssumption DEF Init
<1>2. runners \in [Runners -> Resting \cup Working] /\ jobs \in [Jobs -> IdleJob \cup BusyJob]
  BY DEF Init, Resting, IdleJob
<1>3. /\ content \in [Tables -> Multiset]
      /\ staging \in [Tables -> [there : BOOLEAN, holds : Multiset]]
  BY NothingType DEF Init, NoStaging
<1> QED BY <1>1, <1>2, <1>3 DEF Init, Typed

LEMMA NextTyped == Typed /\ [Next]_vars => Typed'
<1> SUFFICES ASSUME Typed, [Next]_vars PROVE Typed'
  OBVIOUS
<1>1. CASE UNCHANGED vars
  BY <1>1 DEF vars, schema, scratch, Typed
<1>2. ASSUME NEW r \in Runners, RunnerStep(r) \/ Dies(r) PROVE Typed'
  BY <1>2, RunTyped, ExecuteTyped, RecordTyped, DiesTyped DEF RunnerStep
<1>3. ASSUME NEW j \in Jobs, JobStep(j) \/ Killed(j) PROVE Typed'
  BY <1>3, CreateTyped, FillTyped, ReplaceTyped, EndTyped, KilledTyped DEF JobStep
<1> QED BY <1>1, <1>2, <1>3, InsertTyped, StartTyped DEF Next

\* The variables have their types, through every interleaving of runners, inserts
\* and recomputations and wherever they die.
THEOREM TypeCorrect == Spec => []Typed
BY InitTyped, NextTyped, PTL DEF Spec

-----------------------------------------------------------------------------
(***************************************************************************)
(* The ledger and the schema.                                              *)
(***************************************************************************)

\* No runner applies anything while an applied migration has been edited.
NotEdited == Applying # {} => ~ WasEdited(ledger)

\* Whatever a runner does not still have to apply is recorded.
NoneSkipped ==
  \A r \in Applying, f \in Discover : f \in runners[r].todo \/ f.version \in Versions(ledger)

AppliesNow(r) == Current(r).statements

\* The runner's file has created or dropped the object, or will create it.
HasTouched(r, o) ==
  \E i \in DOMAIN AppliesNow(r) :
    i < runners[r].at /\ AppliesNow(r)[i] \in {<<"create", o>>, <<"drop", o>>}

WillCreate(r, o) ==
  \E k \in DOMAIN AppliesNow(r) : runners[r].at <= k /\ AppliesNow(r)[k] = <<"create", o>>

AllRecorded(o) == \A f \in Discover : Touches(f, o) => f.version \in Versions(ledger)

\* While runners take turns: what only recorded files build is there, and what the
\* file being applied has touched is there or comes back.
TakingTurns ==
  ~ together =>
    /\ \A r, q \in Applying : r = q
    /\ \A r \in Applying : \A f \in runners[r].todo : f.version \notin Versions(ledger)
    /\ \A o \in Objects : AllRecorded(o) => o \in objects
    /\ \A r \in Applying, o \in Objects :
         HasTouched(r, o) => o \in objects \/ WillCreate(r, o)

SchemaInv == NotEdited /\ InOrder(ledger) /\ NoneSkipped /\ TakingTurns

\* The schema is left alone, and those that still apply files are where they were.
SchemaKept ==
  /\ UNCHANGED <<objects, ledger, together>>
  /\ Applying' \subseteq Applying
  /\ \A r \in Applying' : /\ runners'[r].todo = runners[r].todo
                          /\ runners'[r].at = runners[r].at

LEMMA OthersKeepSchema ==
  ASSUME Typed,
         \/ \E row \in Names : Insert(row)
         \/ \E j \in Jobs : JobStep(j) \/ Killed(j) \/ \E t \in Tables, d \in Days : Start(j, t, d)
         \/ UNCHANGED vars
  PROVE  SchemaKept
<1>1. ASSUME runners' = runners PROVE Applying' \subseteq Applying
  BY <1>1 DEF Applying
<1>2. ASSUME NEW row \in Names, Insert(row) PROVE SchemaKept
  <2>1. \A r \in Applying : runners[r] \in Working
    BY WorkingType
  <2>2. \A r \in Runners : /\ r \in Applying => /\ runners'[r].stage = "applying"
                                                /\ runners'[r].todo = runners[r].todo
                                                /\ runners'[r].at = runners[r].at
                           /\ r \notin Applying => runners'[r] = runners[r]
    BY <1>2, <2>1 DEF Insert, Working
  <2> QED BY <1>2, <2>2 DEF Insert, SchemaKept, Applying
<1>3. ASSUME NEW j \in Jobs, NEW t \in Tables, NEW d \in Days, Start(j, t, d) PROVE SchemaKept
  <2>1. \A r \in Applying : runners[r] \in Working
    BY WorkingType
  <2>2. \A r \in Runners : /\ r \in Applying => /\ runners'[r].stage = "applying"
                                                /\ runners'[r].todo = runners[r].todo
                                                /\ runners'[r].at = runners[r].at
                           /\ r \notin Applying => runners'[r] = runners[r]
    BY <1>3, <2>1 DEF Start, Working
  <2> QED BY <1>3, <2>2 DEF Start, SchemaKept, Applying
<1>4. ASSUME NEW j \in Jobs, JobStep(j) \/ Killed(j) PROVE SchemaKept
  <2>1. UNCHANGED schema
    BY <1>4 DEF JobStep, Create, Fill, Replace, End, Killed
  <2> QED BY <1>1, <2>1 DEF schema, SchemaKept
<1>5. ASSUME UNCHANGED vars PROVE SchemaKept
  BY <1>1, <1>5 DEF vars, schema, SchemaKept
<1> QED BY <1>2, <1>3, <1>4, <1>5

LEMMA KeptSchemaInv == ASSUME Typed, SchemaInv, SchemaKept PROVE SchemaInv'
<1>1. \A r \in Applying' : Current(r)' = Current(r)
  BY DEF SchemaKept, Current
<1>2. NotEdited'
  BY DEF SchemaInv, NotEdited, SchemaKept, WasEdited
<1>3. InOrder(ledger)'
  BY DEF SchemaInv, InOrder, SchemaKept
<1>4. NoneSkipped'
  BY DEF SchemaInv, NoneSkipped, SchemaKept
<1>5. \A r \in Applying', o \in Objects :
        /\ HasTouched(r, o)' <=> HasTouched(r, o)
        /\ WillCreate(r, o)' <=> WillCreate(r, o)
  BY <1>1 DEF HasTouched, WillCreate, AppliesNow, SchemaKept
<1>6. \A o \in Objects : AllRecorded(o)' <=> AllRecorded(o)
  BY DEF AllRecorded, SchemaKept
<1>7. TakingTurns'
  BY <1>5, <1>6 DEF SchemaInv, TakingTurns, SchemaKept
<1> QED BY <1>2, <1>3, <1>4, <1>7 DEF SchemaInv

LEMMA DiesKeepsSchema == ASSUME Typed, NEW r \in Runners, Dies(r) PROVE SchemaKept
<1>1. \A q \in Runners : q # r => runners'[q] = runners[q]
  BY DEF Dies, Typed
<1>2. r \notin Applying'
  BY DEF Dies, Applying, Typed
<1> QED BY <1>1, <1>2 DEF Dies, SchemaKept, Applying

\* A file's statements are numbered from 1.
LEMMA FileStatements ==
  ASSUME NEW f \in Discover
  PROVE  f.statements \in Seq(Statements) /\ DOMAIN f.statements = 1 .. Len(f.statements)
BY FilesAssumption

LEMMA RunKeepsSchemaInv == ASSUME Typed, SchemaInv, NEW r \in Runners, Run(r) PROVE SchemaInv'
<1> DEFINE todo == Pending(ledger)
<1>1. CASE Refuses(ledger) \/ todo = {}
  <2>1. \A q \in Runners : q # r => runners'[q] = runners[q]
    BY <1>1 DEF Run, Typed
  <2>2. r \notin Applying'
    BY <1>1 DEF Run, Applying, Typed
  <2>3. SchemaKept
    BY <1>1, <2>1, <2>2 DEF Run, SchemaKept, Applying
  <2> QED BY <2>3, KeptSchemaInv
<1>2. CASE ~ (Refuses(ledger) \/ todo = {})
  <2>1. /\ UNCHANGED <<objects, ledger>>
        /\ together' = (together \/ Applying # {})
        /\ r \notin Applying
        /\ runners'[r].todo = todo /\ runners'[r].at = 1
    BY <1>2 DEF Run, Applying
  <2>2. \A q \in Applying : runners[q] \in Working
    BY WorkingType
  <2>3. \A q \in Runners : q # r => /\ runners'[q].stage = runners[q].stage
                                    /\ q \in Applying => /\ runners'[q].todo = runners[q].todo
                                                         /\ runners'[q].at = runners[q].at
    BY <1>2, <2>2 DEF Run, Working
  <2>4. Applying' \subseteq Applying \cup {r}
    BY <2>3 DEF Applying
  <2>5. NotEdited' /\ InOrder(ledger)'
    BY <1>2, <2>1 DEF SchemaInv, NotEdited, InOrder, Refuses, WasEdited
  <2>6. NoneSkipped'
    <3> SUFFICES ASSUME NEW q \in Applying', NEW f \in Discover
                 PROVE  f \in runners'[q].todo \/ f.version \in Versions(ledger)
      BY <2>1 DEF NoneSkipped
    <3>1. CASE q = r
      BY <2>1, <3>1 DEF Pending
    <3>2. CASE q # r
      BY <2>3, <2>4, <3>2 DEF SchemaInv, NoneSkipped, Applying
    <3> QED BY <3>1, <3>2
  <2>7. TakingTurns'
    <3> SUFFICES ASSUME ~ together' PROVE TakingTurns'
      BY DEF TakingTurns
    <3>1. ~ together /\ Applying' \subseteq {r}
      BY <2>1, <2>4
    <3>2. \A f \in runners'[r].todo : f.version \notin Versions(ledger)'
      BY <2>1 DEF Pending
    <3>3. \A o \in Objects : AllRecorded(o)' => o \in objects'
      BY <2>1, <3>1 DEF AllRecorded, SchemaInv, TakingTurns
    <3>4. Current(r)' \in Discover
      <4>1. runners'[r].todo \in SUBSET Discover /\ runners'[r].todo # {}
        BY <1>2, <2>1 DEF Pending
      <4> QED BY <4>1, FirstOf DEF Current
    <3>5. \A o \in Objects : ~ HasTouched(r, o)'
      BY <2>1, <3>4, FileStatements DEF HasTouched, AppliesNow
    <3> QED BY <3>1, <3>2, <3>3, <3>5 DEF TakingTurns
  <2> QED BY <2>5, <2>6, <2>7 DEF SchemaInv
<1> QED BY <1>1, <1>2

\* What a statement that does not err changes.
LEMMA ExecuteEffect ==
  ASSUME Typed, NEW r \in Runners, Execute(r),
         ~ Errs(Statement(r)[1], Statement(r)[2])
  PROVE  /\ UNCHANGED <<ledger, together>>
         /\ Applying' = Applying
         /\ r \in Applying
         /\ \A q \in Applying : q # r => runners'[q] = runners[q]
         /\ runners'[r].todo = runners[r].todo
         /\ runners'[r].at = runners[r].at + 1
         /\ runners'[r].alone = runners[r].alone
         /\ runners'[r].pure = (Statement(r)[1] = "create")
         /\ \A q \in Applying : Current(q)' = Current(q)
<1> DEFINE next == Advanced(runners[r], Statement(r)[1] = "create")
<1>1. r \in Applying
  BY StatementType DEF Execute
<1>2. runners[r] \in Working
  BY <1>1, WorkingType
<1>3. runners' = [runners EXCEPT ![r] = next]
  BY DEF Execute
<1>4. /\ next.stage = "applying" /\ next.todo = runners[r].todo
      /\ next.at = runners[r].at + 1
      /\ next.alone = runners[r].alone
      /\ next.pure = (Statement(r)[1] = "create")
  BY <1>2 DEF Advanced, Working
<1> HIDE DEF next
<1>5. runners'[r] = next /\ \A q \in Runners : q # r => runners'[q] = runners[q]
  BY <1>3 DEF Typed
<1>6. Applying' = Applying
  BY <1>1, <1>4, <1>5 DEF Applying
<1>7. \A q \in Applying : runners'[q].todo = runners[q].todo
  BY <1>4, <1>5 DEF Applying
<1>8. \A q \in Applying : Current(q)' = Current(q)
  BY <1>7 DEF Current
<1>9. \A q \in Applying : q # r => runners'[q] = runners[q]
  BY <1>5 DEF Applying
<1> QED BY <1>1, <1>4, <1>5, <1>6, <1>8, <1>9 DEF Execute

\* What it does to the objects.
LEMMA ExecuteObjects ==
  ASSUME Typed, NEW r \in Runners, Execute(r),
         ~ Errs(Statement(r)[1], Statement(r)[2])
  PROVE  \A o \in Objects :
           /\ Statement(r) = <<"create", o>> => o \in objects'
           /\ Statement(r) \notin {<<"create", o>>, <<"drop", o>>} =>
                (o \in objects' <=> o \in objects)
           /\ o \in objects => o \in objects' \/ Statement(r) = <<"drop", o>>
<1>1. Statement(r) \in Statements
  BY StatementType DEF Execute
<1>2. Statement(r) = <<Statement(r)[1], Statement(r)[2]>>
  BY <1>1 DEF Statements
<1> QED BY <1>1, <1>2 DEF Execute, Statements

LEMMA ExecuteKeepsSchemaInv ==
  ASSUME Typed, SchemaInv, NEW r \in Runners, Execute(r) PROVE SchemaInv'
<1>1. r \in Applying
  BY StatementType DEF Execute
<1>2. CASE Errs(Statement(r)[1], Statement(r)[2])
  <2>1. runners' = [runners EXCEPT ![r] = [stage |-> "idle"]]
    BY <1>2 DEF Execute
  <2>2. \A q \in Runners : q # r => runners'[q] = runners[q]
    BY <2>1 DEF Typed
  <2>3. r \notin Applying'
    BY <2>1 DEF Applying, Typed
  <2>4. SchemaKept
    BY <1>2, <2>2, <2>3 DEF Execute, SchemaKept, Applying
  <2> QED BY <2>4, KeptSchemaInv
<1>3. CASE ~ Errs(Statement(r)[1], Statement(r)[2])
  <2>1. NotEdited' /\ InOrder(ledger)'
    BY <1>3, ExecuteEffect DEF SchemaInv, NotEdited, WasEdited, InOrder
  <2>2. NoneSkipped'
    BY <1>3, ExecuteEffect DEF SchemaInv, NoneSkipped
  <2>3. TakingTurns'
    <3> SUFFICES ASSUME ~ together' PROVE TakingTurns'
      BY DEF TakingTurns
    <3>1. ~ together /\ Applying = {r} /\ Applying' = {r}
      BY <1>1, <1>3, ExecuteEffect DEF SchemaInv, TakingTurns
    <3>2. \A f \in runners'[r].todo : f.version \notin Versions(ledger)'
      BY <1>3, <3>1, ExecuteEffect DEF SchemaInv, TakingTurns
    <3> DEFINE f == Current(r)
               at == runners[r].at
    <3>3. f \in Discover /\ f.version \notin Versions(ledger)
      BY <1>1, <3>1, CurrentIsFirst DEF SchemaInv, TakingTurns
    <3>4. at \in DOMAIN f.statements /\ Statement(r) = f.statements[at] /\ at \in Nat
      BY <1>1, StatementType, WorkingType DEF Execute, Statement, Working
    <3>5. ASSUME NEW o \in Objects, AllRecorded(o)' PROVE o \in objects'
      <4>1. AllRecorded(o)
        BY <1>3, <3>5, ExecuteEffect DEF AllRecorded
      <4>2. Statement(r) \notin {<<"create", o>>, <<"drop", o>>}
        BY <3>3, <3>4, <4>1 DEF AllRecorded, Touches
      <4> QED BY <1>3, <3>1, <4>1, <4>2, ExecuteObjects DEF SchemaInv, TakingTurns
    <3>6. ASSUME NEW o \in Objects, HasTouched(r, o)' PROVE o \in objects' \/ WillCreate(r, o)'
      <4>1. PICK i \in DOMAIN f.statements :
              i < at + 1 /\ f.statements[i] \in {<<"create", o>>, <<"drop", o>>}
        BY <1>1, <1>3, <3>6, ExecuteEffect DEF HasTouched, AppliesNow
      <4>2. WillCreate(r, o)' <=> \E k \in DOMAIN f.statements :
                                    at + 1 <= k /\ f.statements[k] = <<"create", o>>
        BY <1>1, <1>3, ExecuteEffect DEF WillCreate, AppliesNow
      <4>3. DOMAIN f.statements \subseteq Nat /\ DOMAIN f.statements = 1 .. Len(f.statements)
        BY <3>3, FileStatements
      <4>4. CASE Statement(r) = <<"create", o>>
        BY <1>3, <4>4, ExecuteObjects
      <4>5. CASE Statement(r) = <<"drop", o>>
        <5>1. PICK k \in at .. Len(f.statements) : f.statements[k] = <<"create", o>>
          <6>1. f.statements[at][1] = "drop" /\ f.statements[at][2] = o
            BY <3>4, <4>5
          <6>2. <<"create", o>> \in {f.statements[k] : k \in at .. Len(f.statements)}
            BY <3>3, <3>4, <6>1, FilesAssumption
          <6> QED BY <6>2
        <5>2. k # at
          <6>1. f.statements[k][1] = "create" /\ f.statements[at][1] = "drop"
            BY <3>4, <4>5, <5>1
          <6> QED BY <6>1
        <5>3. at \in Nat /\ k \in Nat /\ k <= Len(f.statements) /\ at + 1 <= k
          BY <3>4, <4>3, <5>1, <5>2
        <5>4. k \in DOMAIN f.statements
          BY <3>3, <4>3, <5>3
        <5> QED BY <4>2, <5>1, <5>3, <5>4
      <4>6. CASE Statement(r) \notin {<<"create", o>>, <<"drop", o>>}
        <5>1. HasTouched(r, o)
          BY <3>4, <4>1, <4>3, <4>6 DEF HasTouched, AppliesNow
        <5>2. o \in objects \/ WillCreate(r, o)
          BY <3>1, <5>1 DEF SchemaInv, TakingTurns
        <5>3. CASE o \in objects
          BY <1>3, <4>6, <5>3, ExecuteObjects
        <5>4. CASE WillCreate(r, o)
          <6>1. PICK k \in DOMAIN f.statements : at <= k /\ f.statements[k] = <<"create", o>>
            BY <5>4 DEF WillCreate, AppliesNow
          <6>2. k # at
            BY <3>4, <4>6, <6>1
          <6> QED BY <3>4, <4>2, <4>3, <6>1, <6>2
        <5> QED BY <5>2, <5>3, <5>4
      <4> QED BY <4>4, <4>5, <4>6
    <3> QED BY <3>1, <3>2, <3>5, <3>6 DEF TakingTurns
  <2> QED BY <2>1, <2>2, <2>3 DEF SchemaInv
<1> QED BY <1>2, <1>3

LEMMA RecordKeepsSchemaInv ==
  ASSUME Typed, SchemaInv, NEW r \in Runners, Record(r) PROVE SchemaInv'
<1> DEFINE f == Current(r)
           rest == runners[r].todo \ {f}
<1>1. r \in Applying /\ f \in Discover /\ f \in runners[r].todo
  BY CurrentIsFirst DEF Record, Applying
<1>2. runners[r] \in Working
  BY <1>1, WorkingType
<1>3. UNCHANGED <<objects, together>> /\ ledger' = ledger \cup {LedgerRow(f)}
  BY DEF Record
<1>4. Versions(ledger)' = Versions(ledger) \cup {f.version}
  <2>1. LedgerRow(f).version = f.version
    BY DEF LedgerRow
  <2> QED BY <1>3, <2>1 DEF Versions
<1>5. \A q \in Runners : q # r => runners'[q] = runners[q]
  BY DEF Record, Proceed, Typed
<1>6. r \in Applying' => runners'[r].todo = rest /\ runners'[r].at = 1 /\ rest # {}
  <2>1. CASE rest = {}
    <3>1. runners'[r].stage = "ready"
      BY <2>1 DEF Record, Proceed, Typed
    <3> QED BY <3>1 DEF Applying
  <2>2. CASE rest # {}
    <3>1. runners'[r] = [runners[r] EXCEPT !.todo = rest, !.at = 1]
      BY <2>2 DEF Record, Proceed, Typed
    <3> QED BY <1>2, <2>2, <3>1 DEF Working
  <2> QED BY <2>1, <2>2
<1>7. Applying' \subseteq Applying
  BY <1>1, <1>5 DEF Applying
<1>8. NotEdited'
  <2>1. ~ WasEdited(ledger)
    BY <1>1 DEF SchemaInv, NotEdited
  <2>2. \A g \in Discover : LedgerRow(f).version = g.version => LedgerRow(f).checksum = g.checksum
    BY <1>1, FilesAssumption DEF LedgerRow
  <2> QED BY <1>3, <2>1, <2>2 DEF NotEdited, WasEdited
<1>9. InOrder(ledger)'
  <2>1. ASSUME NEW g \in Discover, g.version < f.version PROVE g.version \in Versions(ledger)
    <3>1. g \notin runners[r].todo
      <4>1. g.version \in Nat /\ f.version \in Nat
        BY <1>1, FilesAssumption
      <4> QED BY <1>1, <2>1, <4>1, CurrentIsFirst
    <3> QED BY <1>1, <3>1 DEF SchemaInv, NoneSkipped
  <2>2. LedgerRow(f).version = f.version
    BY DEF LedgerRow
  <2> QED BY <1>3, <1>4, <2>1, <2>2 DEF SchemaInv, InOrder
<1>10. NoneSkipped'
  <2> SUFFICES ASSUME NEW q \in Applying', NEW g \in Discover
               PROVE  g \in runners'[q].todo \/ g.version \in Versions(ledger)'
    BY DEF NoneSkipped
  <2>1. g \in runners[q].todo \/ g.version \in Versions(ledger)
    BY <1>7 DEF SchemaInv, NoneSkipped
  <2>2. CASE q = r
    BY <1>4, <1>6, <2>1, <2>2
  <2>3. CASE q # r
    BY <1>4, <1>5, <2>1, <2>3 DEF Applying
  <2> QED BY <2>2, <2>3
<1>11. TakingTurns'
  <2> SUFFICES ASSUME ~ together' PROVE TakingTurns'
    BY DEF TakingTurns
  <2>1. ~ together /\ Applying = {r} /\ Applying' \subseteq {r}
    BY <1>1, <1>3, <1>7 DEF SchemaInv, TakingTurns
  <2>2. ASSUME r \in Applying', NEW g \in runners'[r].todo PROVE g.version \notin Versions(ledger)'
    <3>1. g \in runners[r].todo /\ g # f
      BY <1>6, <2>2
    <3>2. g.version \notin Versions(ledger)
      BY <2>1, <3>1 DEF SchemaInv, TakingTurns
    <3>3. g.version # f.version
      BY <1>1, <1>2, <3>1, FilesAssumption DEF Working
    <3> QED BY <1>4, <3>2, <3>3
  <2>3. ASSUME NEW o \in Objects, AllRecorded(o)' PROVE o \in objects'
    <3>1. CASE Touches(f, o)
      <4>1. PICK i \in DOMAIN f.statements : f.statements[i] \in {<<"create", o>>, <<"drop", o>>}
        BY <3>1 DEF Touches
      <4>2. /\ runners[r].at \in Nat /\ ~ (runners[r].at <= Len(f.statements))
            /\ Len(f.statements) \in Nat
            /\ DOMAIN f.statements = 1 .. Len(f.statements)
        BY <1>1, <1>2, FileStatements DEF Record, HasNext, Working
      <4>3. HasTouched(r, o) /\ ~ WillCreate(r, o)
        BY <4>1, <4>2 DEF HasTouched, WillCreate, AppliesNow
      <4> QED BY <1>3, <2>1, <4>3 DEF SchemaInv, TakingTurns
    <3>2. CASE ~ Touches(f, o)
      <4>1. ASSUME NEW g \in Discover, Touches(g, o) PROVE g.version \in Versions(ledger)
        <5>1. g.version \in Versions(ledger)'
          BY <2>3, <4>1 DEF AllRecorded
        <5>2. g.version # f.version
          BY <1>1, <3>2, <4>1, FilesAssumption
        <5> QED BY <1>4, <5>1, <5>2
      <4>2. AllRecorded(o)
        BY <4>1 DEF AllRecorded
      <4> QED BY <1>3, <2>1, <4>2 DEF SchemaInv, TakingTurns
    <3> QED BY <3>1, <3>2
  <2>4. ASSUME r \in Applying', NEW o \in Objects PROVE ~ HasTouched(r, o)'
    <3>1. Current(r)' \in Discover
      <4>1. runners'[r].todo \in SUBSET Discover /\ runners'[r].todo # {}
        BY <1>2, <1>6, <2>4 DEF Working
      <4> QED BY <4>1, FirstOf DEF Current
    <3> QED BY <1>6, <2>4, <3>1, FileStatements DEF HasTouched, AppliesNow
  <2> QED BY <2>1, <2>2, <2>3, <2>4 DEF TakingTurns
<1> QED BY <1>8, <1>9, <1>10, <1>11 DEF SchemaInv

LEMMA InitSchemaInv == Init => SchemaInv
<1> SUFFICES ASSUME Init PROVE SchemaInv
  OBVIOUS
<1>1. Applying = {}
  BY DEF Init, Applying
<1>2. InOrder(ledger) /\ \A o \in Objects : AllRecorded(o) => o \in objects
  BY InstallationsAssumption DEF Init, AllRecorded
<1> QED BY <1>1, <1>2 DEF SchemaInv, NotEdited, NoneSkipped, TakingTurns

LEMMA NextSchemaInv == Typed /\ SchemaInv /\ [Next]_vars => SchemaInv'
<1> SUFFICES ASSUME Typed, SchemaInv, [Next]_vars PROVE SchemaInv'
  OBVIOUS
<1>1. ASSUME NEW r \in Runners, RunnerStep(r) \/ Dies(r) PROVE SchemaInv'
  BY <1>1, RunKeepsSchemaInv, ExecuteKeepsSchemaInv, RecordKeepsSchemaInv, DiesKeepsSchema,
     KeptSchemaInv DEF RunnerStep
<1>2. ASSUME \/ \E row \in Names : Insert(row)
             \/ \E j \in Jobs : JobStep(j) \/ Killed(j) \/ \E t \in Tables, d \in Days : Start(j, t, d)
             \/ UNCHANGED vars
      PROVE  SchemaInv'
  BY <1>2, OthersKeepSchema, KeptSchemaInv
<1> QED BY <1>1, <1>2 DEF Next

\* No reachable state has a runner among files that MigrationRunner.run would have
\* refused, skipped or taken in another order.
THEOREM SchemaInvAlways == Spec => []SchemaInv
<1>1. Typed /\ SchemaInv /\ [Next]_vars => SchemaInv'
  BY NextSchemaInv
<1> QED BY <1>1, InitSchemaInv, TypeCorrect, PTL DEF Spec

\* The ledger never runs ahead of the schema, nor out of order, wherever runners
\* die and whatever else goes on between two statements: when every migration is
\* recorded and no two runners worked at a time, everything they build is there.
THEOREM LedgerIsTrue == Spec => []SchemaInOrder
<1>1. Typed /\ SchemaInv => SchemaInOrder
  <2> SUFFICES ASSUME Typed, SchemaInv PROVE SchemaInOrder
    OBVIOUS
  <2>1. SchemaComplete
    <3> SUFFICES ASSUME ~ together, Pending(ledger) = {} PROVE objects = Objects
      BY DEF SchemaComplete
    <3>1. \A f \in Discover : f.version \in Versions(ledger)
      BY DEF Pending
    <3>2. \A o \in Objects : o \in objects
      BY <3>1 DEF SchemaInv, TakingTurns, AllRecorded
    <3> QED BY <3>2 DEF Typed
  <2> QED BY <2>1, TypedIsTyped DEF SchemaInv, SchemaInOrder, AppliedInOrder
<1> QED BY <1>1, TypeCorrect, SchemaInvAlways, PTL

\* While an applied migration has been edited, no runner changes the schema or the
\* ledger: none is in the middle of a file, and none starts one.
THEOREM EditsStopAll == Spec => EditedStopsAll
<1>1. Typed /\ SchemaInv /\ [Next]_vars => [WasEdited(ledger) => UNCHANGED <<objects, ledger>>]_vars
  <2> SUFFICES ASSUME Typed, SchemaInv, Next, WasEdited(ledger)
               PROVE  UNCHANGED <<objects, ledger>>
    BY DEF vars, schema
  <2>1. Applying = {}
    BY DEF SchemaInv, NotEdited
  <2>2. ASSUME NEW r \in Runners PROVE ~ Execute(r) /\ ~ Record(r)
    BY <2>1 DEF Execute, Record, HasNext, Applying
  <2>3. ASSUME NEW r \in Runners, Run(r) \/ Dies(r) PROVE UNCHANGED <<objects, ledger>>
    BY <2>3 DEF Run, Dies
  <2> QED BY <2>2, <2>3, OthersKeepSchema DEF Next, RunnerStep, SchemaKept
<1> QED BY <1>1, TypeCorrect, SchemaInvAlways, PTL DEF Spec, EditedStopsAll

-----------------------------------------------------------------------------
(***************************************************************************)
(* The rollups.                                                            *)
(***************************************************************************)

\* A runner or a recomputation that has been alone since it started is alone: the
\* only runner and no recomputation; no runner and the only one on its table.
AloneIsAlone ==
  /\ \A r \in Applying : runners[r].alone => Applying = {r} /\ Busy = {}
  /\ \A j \in Busy : jobs[j].alone => Applying = {} /\ BusyOn(jobs[j].table) = {j}

\* Between the drop of a table and its backfill nothing gets into it, and after its
\* view is there nothing unnoticed.
RebuiltFromNothing ==
  \A r \in Applying : runners[r].alone =>
    \A t \in Tables : \A i \in DOMAIN AppliesNow(r) : AppliesNow(r)[i] = <<"backfill", t>> =>
      /\ runners[r].at \in {i - 3, i - 2, i - 1} => ViewOf(t) \notin objects
      /\ runners[r].at \in {i - 2, i - 1} => content[t] = Nothing
      /\ runners[r].at = i /\ runners[r].pure => content[t] = Nothing

\* What a recomputation that is alone has in its staging table: nothing before it
\* fills it, and then the latest spans of its day, until one more arrives.
StagedFromNothing ==
  \A j \in Busy : jobs[j].alone =>
    /\ jobs[j].stage \in {"dropped", "created"} => staging[jobs[j].table].holds = Nothing
    /\ jobs[j].stage = "filled" /\ jobs[j].pure =>
         staging[jobs[j].table].holds = Once(Latest(OfDay(raw, jobs[j].day)), Names)

\* What the properties say of each row.
Told(t, d, n) ==
  /\ trust[<<t, d>>] = "exact" => content[t][n] = IF n \in ShouldCount THEN 1 ELSE 0
  /\ trust[<<t, d>>] = "over" /\ n \in ShouldCount => content[t][n] >= 1

TablesTold == \A t \in Tables, d \in Days : \A n \in OfDay(Names, d) : Told(t, d, n)

RollupsInv == AloneIsAlone /\ RebuiltFromNothing /\ StagedFromNothing /\ TablesTold

LEMMA SameSpanSameDay ==
  ASSUME NEW m \in Names, NEW n \in Names, SameSpan(Rows[m], Rows[n])
  PROVE  DayOf(m) = DayOf(n)
BY WarehouseAssumption DEF DayOf

\* The latest version of a span is the one that should count ...
LEMMA LatestIsDue == ASSUME raw \subseteq Names PROVE Latest(raw) = ShouldCount
<1>1. \A m, n \in Names : Rows[m].version <= Rows[n].version <=> ~ (Rows[m].version > Rows[n].version)
  BY WarehouseAssumption
<1>2. ASSUME NEW n \in raw
      PROVE  Rows[n] \in Newest(Records(raw)) <=>
               \A m \in raw : SameSpan(Rows[m], Rows[n]) => Rows[m].version <= Rows[n].version
  BY DEF Newest, Records
<1> QED BY <1>1, <1>2 DEF Latest, ShouldCount

\* ... also when only the rows of its day are looked at.
LEMMA LatestOfDay ==
  ASSUME raw \subseteq Names, NEW d, NEW n \in OfDay(Names, d)
  PROVE  n \in Latest(OfDay(raw, d)) <=> n \in ShouldCount
<1> DEFINE R == OfDay(raw, d)
<1>1. R \subseteq raw /\ \A m \in raw : DayOf(m) = d => m \in R
  BY DEF OfDay
<1>2. ASSUME NEW m \in raw, SameSpan(Rows[m], Rows[n]) PROVE m \in R
  BY <1>1, <1>2, SameSpanSameDay DEF OfDay
<1>3. ASSUME n \in R
      PROVE  Rows[n] \in Newest(Records(R)) <=>
               \A m \in R : SameSpan(Rows[m], Rows[n]) => Rows[m].version <= Rows[n].version
  BY <1>3 DEF Newest, Records
<1>4. n \in Names /\ (n \in raw => n \in R)
  BY <1>1 DEF OfDay
<1>5. \A m \in R : Rows[m].version <= Rows[n].version <=> ~ (Rows[m].version > Rows[n].version)
  BY <1>1, <1>4, WarehouseAssumption
<1> QED BY <1>1, <1>2, <1>3, <1>4, <1>5 DEF Latest, ShouldCount

LEMMA OnceOf == ASSUME NEW S, NEW n \in Names PROVE Once(S, Names)[n] = IF n \in S THEN 1 ELSE 0
BY DEF Once

LEMMA PlusNothing == ASSUME NEW S PROVE Plus(Nothing, Once(S, Names)) = Once(S, Names)
BY DEF Plus, Nothing, Once

LEMMA ContentType ==
  ASSUME Typed, NEW t \in Tables, NEW n \in Names
  PROVE  content[t] \in Multiset /\ content[t][n] \in Nat
BY DEF Typed, Multiset

LEMMA ViewFacts ==
  /\ \A t \in Tables : ViewOf(t) \in Objects /\ ViewOf(t) \notin Tables /\ t \in Objects
  /\ \A t, u \in Tables : ViewOf(t) = ViewOf(u) => t = u
BY DEF Tables, ViewOf, Objects

-----------------------------------------------------------------------------
\* Nobody starts, and nobody that was not alone is.
Quieter ==
  /\ Applying' \subseteq Applying
  /\ \A r \in Applying' : runners'[r].alone => runners[r].alone
  /\ Busy' \subseteq Busy
  /\ \A j \in Busy' : (jobs'[j].alone => jobs[j].alone) /\ jobs'[j].table = jobs[j].table

LEMMA QuieterAlone == ASSUME AloneIsAlone, Quieter PROVE AloneIsAlone'
BY DEF AloneIsAlone, Quieter, BusyOn

RunnersKept ==
  /\ Applying' = Applying
  /\ \A r \in Applying : runners'[r] = runners[r]

JobsKept ==
  /\ Busy' = Busy
  /\ \A j \in Busy : jobs'[j] = jobs[j]

LEMMA SameRunners == UNCHANGED runners => RunnersKept
BY DEF RunnersKept, Applying

LEMMA SameJobs == UNCHANGED jobs => JobsKept
BY DEF JobsKept, Busy

LEMMA InsertActors ==
  ASSUME Typed, NEW row \in Names, Insert(row)
  PROVE  /\ Applying' = Applying
         /\ \A r \in Applying : /\ runners'[r].todo = runners[r].todo
                                /\ runners'[r].at = runners[r].at
                                /\ runners'[r].alone = runners[r].alone
                                /\ ~ runners'[r].pure
         /\ Busy' = Busy
         /\ \A j \in Busy : /\ jobs'[j].stage = jobs[j].stage
                            /\ jobs'[j].table = jobs[j].table
                            /\ jobs'[j].day = jobs[j].day
                            /\ jobs'[j].alone = jobs[j].alone
                            /\ jobs'[j].pure => jobs[j].pure /\ jobs[j].day # DayOf(row)
<1>1. \A r \in Applying : runners[r] \in Working
  BY WorkingType
<1>2. \A r \in Applying : runners'[r] = [runners[r] EXCEPT !.pure = FALSE]
  BY DEF Insert, Applying
<1>3. \A r \in Runners : runners'[r].stage = runners[r].stage
  <2>1. \A r \in Applying : runners'[r].stage = runners[r].stage
    BY <1>1, <1>2 DEF Working
  <2>2. \A r \in Runners \ Applying : runners'[r] = runners[r]
    BY DEF Insert
  <2> QED BY <2>1, <2>2
<1>4. \A j \in Busy : jobs[j] \in BusyJob
  BY BusyType
<1>5. \A j \in Jobs : jobs'[j] = IF j \in Busy /\ jobs[j].day = DayOf(row)
                                 THEN [jobs[j] EXCEPT !.pure = FALSE] ELSE jobs[j]
  BY DEF Insert
<1>6. \A j \in Jobs : jobs'[j].stage = jobs[j].stage
  BY <1>4, <1>5 DEF BusyJob
<1>7. \A r \in Applying : /\ runners'[r].todo = runners[r].todo
                          /\ runners'[r].at = runners[r].at
                          /\ runners'[r].alone = runners[r].alone
                          /\ ~ runners'[r].pure
  <2> TAKE r \in Applying
  <2>1. DOMAIN runners[r] = {"stage", "todo", "at", "alone", "pure"}
    BY <1>1 DEF Working
  <2> QED BY <1>2, <2>1
<1>8. \A j \in Busy : /\ jobs'[j].table = jobs[j].table
                      /\ jobs'[j].day = jobs[j].day
                      /\ jobs'[j].alone = jobs[j].alone
                      /\ jobs'[j].pure => jobs[j].pure /\ jobs[j].day # DayOf(row)
  BY <1>4, <1>5 DEF BusyJob, Busy
<1> QED BY <1>3, <1>6, <1>7, <1>8 DEF Applying, Busy

\* What a recomputation's step changes of the actors: nothing but itself.
LEMMA JobActors ==
  ASSUME Typed, NEW j \in Jobs, JobStep(j) \/ Killed(j)
  PROVE  /\ j \in Busy
         /\ RunnersKept
         /\ \A k \in Jobs : k # j => jobs'[k] = jobs[k]
         /\ j \in Busy' => /\ jobs'[j].table = jobs[j].table
                           /\ jobs'[j].day = jobs[j].day
                           /\ jobs'[j].alone = jobs[j].alone
         /\ Quieter
<1>1. j \in Busy
  BY DEF JobStep, Create, Fill, Replace, End, Killed, At, Busy
<1>2. RunnersKept
  <2>1. UNCHANGED runners
    BY DEF JobStep, Create, Fill, Replace, End, Killed, schema
  <2> QED BY <2>1, SameRunners
<1>3. \/ Leave(j)
      \/ \E stage \in {"created", "filled", "ending"} : Move(j, stage)
      \/ jobs' = [jobs EXCEPT ![j].stage = "filled", ![j].pure = TRUE]
  BY DEF JobStep, Create, Fill, Replace, End, Killed
<1>4. \A k \in Jobs : k # j => jobs'[k] = jobs[k]
  BY <1>3 DEF Leave, Move, Typed
<1>5. jobs[j] \in BusyJob
  BY <1>1, BusyType
<1>6. CASE Leave(j)
  <2>1. j \notin Busy'
    BY <1>6 DEF Leave, Busy, Typed
  <2>2. Quieter
    BY <1>2, <1>4, <2>1 DEF Quieter, RunnersKept, Busy
  <2> QED BY <1>1, <1>2, <1>4, <2>1, <2>2
<1>7. CASE \/ \E stage \in {"created", "filled", "ending"} : Move(j, stage)
           \/ jobs' = [jobs EXCEPT ![j].stage = "filled", ![j].pure = TRUE]
  <2>1. /\ jobs'[j].table = jobs[j].table
        /\ jobs'[j].day = jobs[j].day
        /\ jobs'[j].alone = jobs[j].alone
    BY <1>5, <1>7 DEF Move, Typed, BusyJob
  <2>2. Busy' \subseteq Busy
    BY <1>1, <1>4 DEF Busy
  <2>3. Quieter
    BY <1>2, <1>4, <2>1, <2>2 DEF Quieter, RunnersKept, Busy
  <2> QED BY <1>1, <1>2, <1>4, <2>1, <2>3
<1> QED BY <1>3, <1>6, <1>7

LEMMA StartActors ==
  ASSUME Typed, NEW j \in Jobs, NEW t \in Tables, NEW d \in Days, Start(j, t, d)
  PROVE  /\ Applying' = Applying
         /\ \A r \in Applying : ~ runners'[r].alone
         /\ j \notin Busy /\ Busy' = Busy \cup {j}
         /\ jobs'[j].stage = "dropped" /\ jobs'[j].table = t /\ jobs'[j].day = d
         /\ jobs'[j].alone <=> BusyOn(t) = {} /\ Applying = {}
         /\ \A k \in Busy : /\ jobs'[k].stage = jobs[k].stage
                            /\ jobs'[k].table = jobs[k].table
                            /\ jobs'[k].day = jobs[k].day
                            /\ jobs'[k].pure = jobs[k].pure
                            /\ jobs'[k].alone <=> jobs[k].alone /\ jobs[k].table # t
<1>1. \A r \in Applying : runners[r] \in Working
  BY WorkingType
<1>2. \A r \in Runners : runners'[r] = IF r \in Applying THEN [runners[r] EXCEPT !.alone = FALSE]
                                       ELSE runners[r]
  BY DEF Start
<1>3. \A r \in Runners : /\ runners'[r].stage = runners[r].stage
                         /\ r \in Applying => ~ runners'[r].alone
  BY <1>1, <1>2 DEF Working, Applying
<1>4. j \notin Busy
  BY DEF Start, At, Busy
<1>5. jobs'[j] = [stage |-> "dropped", table |-> t, day |-> d,
                  alone |-> BusyOn(t) = {} /\ Applying = {}, pure |-> FALSE]
  BY DEF Start
<1>6. \A k \in Busy : jobs[k] \in BusyJob
  BY BusyType
<1>7. \A k \in Jobs : k # j => jobs'[k] = IF k \in BusyOn(t) THEN [jobs[k] EXCEPT !.alone = FALSE]
                                          ELSE jobs[k]
  BY DEF Start
<1>8. \A k \in Jobs : k # j => jobs'[k].stage = jobs[k].stage
  BY <1>6, <1>7 DEF BusyJob, BusyOn
<1>9. \A k \in Busy : /\ k # j
                      /\ jobs'[k].table = jobs[k].table
                      /\ jobs'[k].day = jobs[k].day
                      /\ jobs'[k].pure = jobs[k].pure
                      /\ jobs'[k].alone <=> jobs[k].alone /\ jobs[k].table # t
  BY <1>4, <1>6, <1>7 DEF BusyJob, BusyOn, Busy
<1>10. Busy' = Busy \cup {j}
  BY <1>5, <1>8 DEF Busy
<1>11. jobs'[j].stage = "dropped" /\ jobs'[j].table = t /\ jobs'[j].day = d
  BY <1>5
<1>12. jobs'[j].alone <=> BusyOn(t) = {} /\ Applying = {}
  <2> DEFINE alone == BusyOn(t) = {} /\ Applying = {}
  <2>1. jobs'[j] = [stage |-> "dropped", table |-> t, day |-> d, alone |-> alone, pure |-> FALSE]
    BY <1>5
  <2>2. jobs'[j].alone <=> alone
    <3> HIDE DEF alone
    <3> QED BY <2>1
  <2> QED BY <2>2
<1>13. Applying' = Applying /\ \A r \in Applying : ~ runners'[r].alone
  BY <1>3 DEF Applying
<1>14. \A k \in Busy : jobs'[k].stage = jobs[k].stage
  BY <1>8, <1>9 DEF Busy
<1> QED BY <1>4, <1>9, <1>10, <1>11, <1>12, <1>13, <1>14

\* A runner that finds work and no edited file.
Starts(r) == Run(r) /\ ~ Refuses(ledger) /\ Pending(ledger) # {}

LEMMA RunActors ==
  ASSUME Typed, NEW r \in Runners, Starts(r)
  PROVE  /\ r \notin Applying /\ Applying' = Applying \cup {r}
         /\ runners'[r].at = 1
         /\ runners'[r].alone <=> Applying = {} /\ Busy = {}
         /\ \A q \in Applying : ~ runners'[q].alone
         /\ Busy' = Busy
         /\ \A j \in Busy : jobs'[j].table = jobs[j].table /\ ~ jobs'[j].alone
<1>1. \A q \in Applying : runners[q] \in Working
  BY WorkingType
<1>2. \A j \in Busy : jobs[j] \in BusyJob
  BY BusyType
<1>3. r \notin Applying
  BY DEF Starts, Run, Applying
<1>4. runners'[r] = [stage |-> "applying", todo |-> Pending(ledger), at |-> 1,
                     alone |-> Applying = {} /\ Busy = {}, pure |-> FALSE]
  BY DEF Starts, Run
<1>5. \A q \in Runners : q # r => runners'[q] = IF q \in Applying
                                                THEN [runners[q] EXCEPT !.alone = FALSE]
                                                ELSE runners[q]
  BY DEF Starts, Run
<1>6. \A q \in Runners : q # r => /\ runners'[q].stage = runners[q].stage
                                  /\ q \in Applying => ~ runners'[q].alone
  BY <1>1, <1>5 DEF Working
<1>7. \A j \in Jobs : jobs'[j] = IF j \in Busy THEN [jobs[j] EXCEPT !.alone = FALSE] ELSE jobs[j]
  BY DEF Starts, Run
<1>8. \A j \in Busy : /\ jobs'[j].stage = jobs[j].stage
                      /\ jobs'[j].table = jobs[j].table
                      /\ ~ jobs'[j].alone
  BY <1>2, <1>7 DEF BusyJob, Busy
<1>9. Busy' = Busy
  BY <1>7, <1>8 DEF Busy
<1>10. Applying' = Applying \cup {r}
  BY <1>4, <1>6 DEF Applying
<1>11. runners'[r].at = 1
  BY <1>4
<1>12. runners'[r].alone <=> Applying = {} /\ Busy = {}
  <2> DEFINE alone == Applying = {} /\ Busy = {}
  <2>1. runners'[r] = [stage |-> "applying", todo |-> Pending(ledger), at |-> 1,
                       alone |-> alone, pure |-> FALSE]
    BY <1>4
  <2>2. runners'[r].alone <=> alone
    <3> HIDE DEF alone
    <3> QED BY <2>1
  <2> QED BY <2>2
<1>13. \A q \in Applying : ~ runners'[q].alone
  BY <1>3, <1>6 DEF Applying
<1> QED BY <1>3, <1>8, <1>9, <1>10, <1>11, <1>12, <1>13

LEMMA RunnerActors ==
  ASSUME Typed, NEW r \in Runners,
         \/ Execute(r) \/ Record(r) \/ Dies(r)
         \/ Run(r) /\ ~ Starts(r)
  PROVE  /\ UNCHANGED <<raw, staging, jobs>>
         /\ Applying' \subseteq Applying
         /\ \A q \in Runners : q # r => runners'[q] = runners[q]
         /\ r \in Applying' => runners'[r].alone = runners[r].alone
         /\ Quieter
<1>1. UNCHANGED <<raw, staging, jobs>>
  BY DEF Execute, Record, Dies, Run, Starts, scratch
<1>2. /\ \A q \in Runners : q # r => runners'[q] = runners[q]
      /\ r \in Applying' => r \in Applying /\ runners'[r].alone = runners[r].alone
  <2>1. CASE Execute(r) /\ ~ Errs(Statement(r)[1], Statement(r)[2])
    <3>1. \A q \in Runners : q # r => runners'[q] = runners[q]
      BY <2>1 DEF Execute, Typed
    <3> QED BY <2>1, <3>1, ExecuteEffect
  <2>2. CASE Execute(r) /\ Errs(Statement(r)[1], Statement(r)[2])
    <3>1. runners' = [runners EXCEPT ![r] = [stage |-> "idle"]]
      BY <2>2 DEF Execute
    <3> QED BY <3>1 DEF Typed, Applying
  <2>3. CASE Record(r)
    <3>1. r \in Applying
      BY <2>3 DEF Record, Applying
    <3>2. runners[r] \in Working
      BY <3>1, WorkingType
    <3>3. CASE runners[r].todo \ {Current(r)} = {}
      BY <2>3, <3>3 DEF Record, Proceed, Typed, Applying
    <3>4. CASE runners[r].todo \ {Current(r)} # {}
      <4>1. runners' = [runners EXCEPT ![r] = [runners[r] EXCEPT
                          !.todo = runners[r].todo \ {Current(r)}, !.at = 1]]
        BY <2>3, <3>4 DEF Record, Proceed, Typed
      <4>2. runners'[r].alone = runners[r].alone
        BY <3>2, <4>1 DEF Typed, Working
      <4> QED BY <3>1, <4>1, <4>2 DEF Typed
    <3> QED BY <3>3, <3>4
  <2>4. CASE Dies(r) \/ (Run(r) /\ ~ Starts(r))
    <3>1. \E stage \in {"idle", "ready", "refused"} :
            runners' = [runners EXCEPT ![r] = [stage |-> stage]]
      BY <2>4 DEF Dies, Run, Starts
    <3> QED BY <3>1 DEF Typed, Applying
  <2> QED BY <2>1, <2>2, <2>3, <2>4
<1>3. Applying' \subseteq Applying
  BY <1>2 DEF Applying
<1>4. JobsKept
  BY <1>1, SameJobs
<1>5. Quieter
  BY <1>2, <1>3, <1>4 DEF Quieter, JobsKept, Applying
<1> QED BY <1>1, <1>2, <1>3, <1>5

LEMMA NextAlone == ASSUME Typed, AloneIsAlone, [Next]_vars PROVE AloneIsAlone'
<1>1. ASSUME NEW r \in Runners, RunnerStep(r) \/ Dies(r) PROVE AloneIsAlone'
  <2>1. CASE Starts(r)
    BY <2>1, RunActors DEF AloneIsAlone
  <2>2. CASE ~ Starts(r)
    BY <1>1, <2>2, RunnerActors, QuieterAlone DEF RunnerStep
  <2> QED BY <2>1, <2>2
<1>2. ASSUME NEW row \in Names, Insert(row) PROVE AloneIsAlone'
  <2>1. Quieter
    BY <1>2, InsertActors DEF Quieter
  <2> QED BY <2>1, QuieterAlone
<1>3. ASSUME NEW j \in Jobs, NEW t \in Tables, NEW d \in Days, Start(j, t, d) PROVE AloneIsAlone'
  <2>1. \A r \in Applying' : ~ runners'[r].alone
    BY <1>3, StartActors
  <2>2. BusyOn(t)' = BusyOn(t) \cup {j}
    BY <1>3, StartActors DEF BusyOn
  <2>3. \A u \in Tables : u # t => BusyOn(u)' = BusyOn(u)
    BY <1>3, StartActors DEF BusyOn
  <2>4. ASSUME NEW k \in Busy', jobs'[k].alone
        PROVE  Applying' = {} /\ BusyOn(jobs[k].table)' = {k}
    <3>1. CASE k = j
      BY <1>3, <2>2, <2>4, <3>1, StartActors
    <3>2. CASE k # j
      <4>1. k \in Busy /\ jobs'[k].table = jobs[k].table /\ jobs[k].alone /\ jobs[k].table # t
        BY <1>3, <2>4, <3>2, StartActors
      <4> QED BY <1>3, <2>3, <4>1, StartActors, JobTable DEF AloneIsAlone
    <3> QED BY <3>1, <3>2
  <2> QED BY <2>1, <2>4 DEF AloneIsAlone
<1>4. ASSUME NEW j \in Jobs, JobStep(j) \/ Killed(j) PROVE AloneIsAlone'
  BY <1>4, JobActors, QuieterAlone
<1>5. CASE UNCHANGED vars
  BY <1>5 DEF vars, schema, scratch, AloneIsAlone, Applying, Busy, BusyOn
<1> QED BY <1>1, <1>2, <1>3, <1>4, <1>5 DEF Next

\* Two recomputations of one table: neither is alone.
LEMMA OtherTable ==
  ASSUME AloneIsAlone, NEW j \in Busy, NEW k \in Busy, k # j, jobs[k].alone
  PROVE  jobs[k].table # jobs[j].table
BY DEF AloneIsAlone, BusyOn

\* What is to be shown of one recomputation.
StagedOf(k) ==
  jobs[k].alone =>
    /\ jobs[k].stage \in {"dropped", "created"} => staging[jobs[k].table].holds = Nothing
    /\ jobs[k].stage = "filled" /\ jobs[k].pure =>
         staging[jobs[k].table].holds = Once(Latest(OfDay(raw, jobs[k].day)), Names)

LEMMA JobKeepsStaged ==
  ASSUME Typed, AloneIsAlone, StagedFromNothing, NEW j \in Jobs, JobStep(j) \/ Killed(j)
  PROVE  StagedFromNothing'
<1> DEFINE t == jobs[j].table
<1>1. j \in Busy /\ t \in Tables /\ raw' = raw
  BY JobActors, JobTable DEF JobStep, Create, Fill, Replace, End, Killed
<1>2. \A u \in Tables : u # t => staging'[u] = staging[u]
  BY DEF JobStep, Create, Fill, Replace, End, Killed, Typed
<1>3. ASSUME NEW k \in Busy', k # j PROVE StagedOf(k)'
  <2>1. jobs'[k] = jobs[k] /\ k \in Busy
    BY <1>3, JobActors DEF Busy
  <2>2. jobs[k].alone => jobs[k].table \in Tables /\ jobs[k].table # t
    BY <1>1, <1>3, <2>1, OtherTable, JobTable
  <2> QED BY <1>1, <1>2, <2>1, <2>2 DEF StagedFromNothing, StagedOf
<1>4. ASSUME j \in Busy' PROVE StagedOf(j)'
  <2>1. /\ jobs'[j].table = t
        /\ jobs'[j].day = jobs[j].day
        /\ jobs'[j].alone = jobs[j].alone
    BY <1>4, JobActors
  <2>2. jobs[j] \in BusyJob
    BY <1>1, BusyType
  <2>3. CASE Create(j)
    <3>1. jobs'[j].stage = "created" /\ staging'[t].holds = staging[t].holds
      <4>1. ~ (staging[t].there \/ t \notin objects)
        BY <1>4, <2>3 DEF Create, Leave, Typed, Busy
      <4>2. staging' = [staging EXCEPT ![t].there = TRUE] /\ Move(j, "created")
        BY <2>3, <4>1 DEF Create
      <4>3. staging[t] \in [there : BOOLEAN, holds : Multiset]
        BY <1>1, StagingType
      <4> QED BY <1>1, <2>2, <4>2, <4>3 DEF Move, Typed, BusyJob
    <3>2. jobs[j].stage = "dropped"
      BY <2>3 DEF Create, At
    <3> QED BY <1>1, <2>1, <3>1, <3>2 DEF StagedFromNothing, StagedOf
  <2>4. CASE Fill(j)
    <3> DEFINE due == Once(Latest(OfDay(raw, jobs[j].day)), Names)
    <3>1. CASE staging[t].there
      <4>1. staging' = [staging EXCEPT ![t].holds = Plus(@, due)]
        BY <2>4, <3>1 DEF Fill
      <4>2. staging[t] \in [there : BOOLEAN, holds : Multiset]
        BY <1>1, StagingType
      <4>3. staging'[t].holds = Plus(staging[t].holds, due)
        BY <1>1, <4>1, <4>2 DEF Typed
      <4>4. jobs[j].stage = "created"
        BY <2>4 DEF Fill, At
      <4>5. jobs[j].alone => staging'[t].holds = due
        BY <1>1, <4>3, <4>4, PlusNothing DEF StagedFromNothing
      <4>6. jobs'[j].stage = "filled"
        BY <1>1, <2>2, <2>4, <3>1 DEF Fill, Typed, BusyJob
      <4> QED BY <1>1, <2>1, <4>5, <4>6 DEF StagedOf
    <3>2. CASE ~ staging[t].there
      <4>1. jobs'[j].stage = "ending"
        BY <1>1, <2>2, <2>4, <3>2 DEF Fill, Move, Typed, BusyJob
      <4> QED BY <4>1 DEF StagedOf
    <3> QED BY <3>1, <3>2
  <2>5. CASE Replace(j)
    <3>1. jobs'[j].stage = "ending"
      BY <1>1, <2>2, <2>5 DEF Replace, Move, Typed, BusyJob
    <3> QED BY <3>1 DEF StagedOf
  <2>6. ~ End(j) /\ ~ Killed(j)
    BY <1>4 DEF End, Killed, Leave, Typed, Busy
  <2> QED BY <2>3, <2>4, <2>5, <2>6 DEF JobStep
<1>5. \A k \in Busy' : StagedOf(k)'
  BY <1>3, <1>4
<1> QED BY <1>5 DEF StagedFromNothing, StagedOf

LEMMA StartKeepsStaged ==
  ASSUME Typed, StagedFromNothing,
         NEW j \in Jobs, NEW t \in Tables, NEW d \in Days, Start(j, t, d)
  PROVE  StagedFromNothing'
<1>1. raw' = raw /\ staging' = [staging EXCEPT ![t] = NoStaging]
  BY DEF Start
<1>2. staging'[t].holds = Nothing
  BY <1>1 DEF Typed, NoStaging
<1>3. StagedOf(j)'
  BY <1>2, StartActors DEF StagedOf
<1>4. ASSUME NEW k \in Busy PROVE StagedOf(k)'
  <2>1. jobs[k].table \in Tables
    BY JobTable
  <2>2. jobs[k].table # t => staging'[jobs[k].table] = staging[jobs[k].table]
    BY <1>1, <2>1 DEF Typed
  <2> QED BY <1>1, <2>2, StartActors DEF StagedFromNothing, StagedOf
<1>5. \A k \in Busy' : StagedOf(k)'
  BY <1>3, <1>4, StartActors
<1> QED BY <1>5 DEF StagedFromNothing, StagedOf

LEMMA InsertKeepsStaged ==
  ASSUME Typed, StagedFromNothing, NEW row \in Names, Insert(row)
  PROVE  StagedFromNothing'
<1>1. staging' = staging /\ raw' = raw \cup {row}
  BY DEF Insert
<1>2. \A d : d # DayOf(row) => OfDay(raw', d) = OfDay(raw, d)
  BY <1>1 DEF OfDay
<1>3. ASSUME NEW k \in Busy PROVE StagedOf(k)'
  BY <1>1, <1>2, InsertActors DEF StagedFromNothing, StagedOf
<1> QED BY <1>3, InsertActors DEF StagedFromNothing, StagedOf

LEMMA NextStaged == ASSUME Typed, AloneIsAlone, StagedFromNothing, [Next]_vars PROVE StagedFromNothing'
<1>1. ASSUME NEW r \in Runners, RunnerStep(r) \/ Dies(r) PROVE StagedFromNothing'
  <2>1. CASE Starts(r)
    BY <2>1, RunActors DEF StagedFromNothing
  <2>2. CASE ~ Starts(r)
    BY <1>1, <2>2, RunnerActors, SameJobs DEF RunnerStep, StagedFromNothing, JobsKept
  <2> QED BY <2>1, <2>2
<1>2. CASE UNCHANGED vars
  BY <1>2, SameJobs DEF vars, schema, scratch, StagedFromNothing, JobsKept
<1> QED BY <1>1, <1>2, JobKeepsStaged, StartKeepsStaged, InsertKeepsStaged DEF Next

\* What is to be shown of one backfill of one runner.
RebuiltAt(r, t, i) ==
  AppliesNow(r)[i] = <<"backfill", t>> =>
    /\ runners[r].at \in {i - 3, i - 2, i - 1} => ViewOf(t) \notin objects
    /\ runners[r].at \in {i - 2, i - 1} => content[t] = Nothing
    /\ runners[r].at = i /\ runners[r].pure => content[t] = Nothing

LEMMA BackfillRebuilds ==
  ASSUME NEW f \in Discover, NEW t \in Tables, NEW i \in DOMAIN f.statements,
         f.statements[i] = <<"backfill", t>>
  PROVE  /\ i \in Nat /\ i > 4
         /\ f.statements[i - 4] = <<"drop", ViewOf(t)>>
         /\ f.statements[i - 3] = <<"drop", t>>
         /\ f.statements[i - 2] = <<"create", t>>
         /\ f.statements[i - 1] = <<"create", ViewOf(t)>>
<1>1. f.statements[i][1] = "backfill" /\ f.statements[i][2] = t
  OBVIOUS
<1>2. i \in Nat
  BY FileStatements
<1> QED BY <1>1, <1>2, FilesAssumption

\* What the runner's own statement does to the table and its view.
LEMMA ExecuteTables ==
  ASSUME Typed, NEW r \in Runners, Execute(r),
         ~ Errs(Statement(r)[1], Statement(r)[2]), NEW t \in Tables
  PROVE  /\ Statement(r) = <<"drop", ViewOf(t)>> => ViewOf(t) \notin objects'
         /\ Statement(r) = <<"drop", t>> =>
              content'[t] = Nothing /\ (ViewOf(t) \notin objects => ViewOf(t) \notin objects')
         /\ Statement(r) = <<"create", t>> =>
              content'[t] = content[t] /\ (ViewOf(t) \notin objects => ViewOf(t) \notin objects')
         /\ Statement(r) = <<"create", ViewOf(t)>> =>
              content'[t] = content[t]
<1>1. ASSUME Statement(r) = <<"drop", ViewOf(t)>> PROVE ViewOf(t) \notin objects'
  <2>1. Statement(r)[1] = "drop" /\ Statement(r)[2] = ViewOf(t)
    BY <1>1
  <2>2. objects' = objects \ {ViewOf(t)}
    BY <2>1 DEF Execute
  <2> QED BY <2>1, <2>2
<1>2. ASSUME Statement(r) = <<"drop", t>>
      PROVE  content'[t] = Nothing /\ (ViewOf(t) \notin objects => ViewOf(t) \notin objects')
  <2>1. Statement(r)[1] = "drop" /\ Statement(r)[2] = t
    BY <1>2
  <2>2. objects' = objects \ {t} /\ content' = [content EXCEPT ![t] = Nothing]
    BY <2>1 DEF Execute
  <2> QED BY <2>1, <2>2 DEF Typed
<1>3. CASE Statement(r) = <<"create", t>> \/ Statement(r) = <<"create", ViewOf(t)>>
  <2>1. Statement(r)[1] = "create" /\ Statement(r)[2] \in {t, ViewOf(t)}
    BY <1>3
  <2>2. objects' = objects \cup {Statement(r)[2]} /\ content' = content
    BY <2>1 DEF Execute
  <2>3. ViewOf(t) # t
    BY ViewFacts
  <2> QED BY <1>3, <2>1, <2>2, <2>3
<1> QED BY <1>1, <1>2, <1>3

LEMMA ExecuteKeepsRebuilt ==
  ASSUME Typed, AloneIsAlone, RebuiltFromNothing, NEW r \in Runners, Execute(r)
  PROVE  RebuiltFromNothing'
<1>1. r \in Applying
  BY StatementType DEF Execute
<1>2. ASSUME NEW q \in Applying', runners'[q].alone PROVE q = r
  <2>1. q \in Applying /\ runners[q].alone
    BY <1>2, RunnerActors DEF Quieter
  <2> QED BY <1>1, <2>1 DEF AloneIsAlone
<1>3. CASE Errs(Statement(r)[1], Statement(r)[2])
  <2>1. r \notin Applying'
    BY <1>3 DEF Execute, Typed, Applying
  <2> QED BY <1>2, <2>1 DEF RebuiltFromNothing
<1>4. CASE ~ Errs(Statement(r)[1], Statement(r)[2])
  <2> DEFINE f == Current(r)
             at == runners[r].at
  <2>1. Current(r)' = f /\ runners'[r].at = at + 1 /\ runners'[r].alone = runners[r].alone
    BY <1>1, <1>4, ExecuteEffect
  <2>2. f \in Discover /\ at \in Nat /\ at \in DOMAIN f.statements /\ Statement(r) = f.statements[at]
    BY <1>1, CurrentIsFirst, StatementType, WorkingType DEF Execute, Statement, Working
  <2>3. ASSUME runners[r].alone, NEW t \in Tables, NEW i \in DOMAIN f.statements,
               f.statements[i] = <<"backfill", t>>
        PROVE  /\ at + 1 \in {i - 3, i - 2, i - 1} => ViewOf(t) \notin objects'
               /\ at + 1 \in {i - 2, i - 1} => content'[t] = Nothing
               /\ at + 1 = i => content'[t] = Nothing
    <3>1. /\ i \in Nat /\ i > 4
          /\ f.statements[i - 4] = <<"drop", ViewOf(t)>>
          /\ f.statements[i - 3] = <<"drop", t>>
          /\ f.statements[i - 2] = <<"create", t>>
          /\ f.statements[i - 1] = <<"create", ViewOf(t)>>
      BY <2>2, <2>3, BackfillRebuilds
    <3>2. /\ at \in {i - 3, i - 2, i - 1} => ViewOf(t) \notin objects
          /\ at \in {i - 2, i - 1} => content[t] = Nothing
      BY <1>1, <2>3 DEF RebuiltFromNothing, AppliesNow
    <3>3. CASE at = i - 4
      <4>1. Statement(r) = <<"drop", ViewOf(t)>>
        BY <2>2, <3>1, <3>3
      <4> QED BY <1>4, <3>1, <3>3, <4>1, ExecuteTables
    <3>4. CASE at = i - 3
      <4>1. Statement(r) = <<"drop", t>> /\ ViewOf(t) \notin objects
        BY <2>2, <3>1, <3>2, <3>4
      <4> QED BY <1>4, <4>1, ExecuteTables
    <3>5. CASE at = i - 2
      <4>1. Statement(r) = <<"create", t>> /\ ViewOf(t) \notin objects /\ content[t] = Nothing
        BY <2>2, <3>1, <3>2, <3>5
      <4> QED BY <1>4, <4>1, ExecuteTables
    <3>6. CASE at = i - 1
      <4>1. Statement(r) = <<"create", ViewOf(t)>> /\ content[t] = Nothing
        BY <2>2, <3>1, <3>2, <3>6
      <4>2. content'[t] = Nothing
        BY <1>4, <4>1, ExecuteTables
      <4> QED BY <2>2, <3>1, <3>6, <4>2
    <3> QED BY <2>2, <3>1, <3>3, <3>4, <3>5, <3>6
  <2> QED BY <1>2, <2>1, <2>3 DEF RebuiltFromNothing, AppliesNow
<1> QED BY <1>3, <1>4

LEMMA RecordKeepsRebuilt ==
  ASSUME Typed, AloneIsAlone, RebuiltFromNothing, NEW r \in Runners, Record(r)
  PROVE  RebuiltFromNothing'
<1>1. r \in Applying
  BY DEF Record, Applying
<1>2. ASSUME NEW q \in Applying', runners'[q].alone PROVE q = r
  <2>1. q \in Applying /\ runners[q].alone
    BY <1>2, RunnerActors DEF Quieter
  <2> QED BY <1>1, <2>1 DEF AloneIsAlone
<1>3. ASSUME r \in Applying', NEW t \in Tables, NEW i \in DOMAIN AppliesNow(r)'
      PROVE  RebuiltAt(r, t, i)'
  <2> DEFINE rest == runners[r].todo \ {Current(r)}
  <2>1. runners[r] \in Working
    BY <1>1, WorkingType
  <2>2. rest # {}
    BY <1>3 DEF Record, Proceed, Typed, Applying
  <2>3. runners'[r] = [runners[r] EXCEPT !.todo = rest, !.at = 1]
    BY <2>2 DEF Record, Proceed, Typed
  <2>4. runners'[r].at = 1 /\ runners'[r].todo = rest
    BY <2>1, <2>3 DEF Working
  <2>5. Current(r)' \in Discover
    <3>1. rest \in SUBSET Discover
      BY <2>1 DEF Working
    <3> QED BY <2>2, <2>4, <3>1, FirstOf DEF Current
  <2>6. AppliesNow(r)'[i] = <<"backfill", t>> => i \in Nat /\ i > 4
    BY <1>3, <2>5, BackfillRebuilds DEF AppliesNow
  <2> QED BY <2>4, <2>6 DEF RebuiltAt
<1> QED BY <1>2, <1>3 DEF RebuiltFromNothing, RebuiltAt

LEMMA InsertKeepsRebuilt ==
  ASSUME Typed, RebuiltFromNothing, NEW row \in Names, Insert(row)
  PROVE  RebuiltFromNothing'
<1>1. objects' = objects /\ \A t \in Tables : ViewOf(t) \notin objects => content'[t] = content[t]
  BY DEF Insert
<1>2. ASSUME NEW r \in Applying
      PROVE  /\ Current(r)' = Current(r) /\ runners'[r].at = runners[r].at
             /\ runners'[r].alone = runners[r].alone /\ ~ runners'[r].pure
  BY InsertActors DEF Current
<1>3. ASSUME NEW r \in Applying, runners[r].alone,
             NEW t \in Tables, NEW i \in DOMAIN AppliesNow(r)
      PROVE  RebuiltAt(r, t, i)'
  <2>1. RebuiltAt(r, t, i) /\ AppliesNow(r)' = AppliesNow(r)
    BY <1>2, <1>3 DEF RebuiltFromNothing, RebuiltAt, AppliesNow
  <2>2. i \in Nat
    BY <1>3, CurrentIsFirst, FileStatements DEF AppliesNow
  <2> QED BY <1>1, <1>2, <2>1, <2>2 DEF RebuiltAt
<1>4. \A r \in Applying : AppliesNow(r)' = AppliesNow(r)
  BY <1>2 DEF AppliesNow
<1> QED BY <1>2, <1>3, <1>4, InsertActors DEF RebuiltFromNothing, RebuiltAt

LEMMA NextRebuilt ==
  ASSUME Typed, AloneIsAlone, RebuiltFromNothing, [Next]_vars PROVE RebuiltFromNothing'
<1>1. ASSUME NEW r \in Runners, Starts(r) PROVE RebuiltFromNothing'
  <2>1. ASSUME NEW q \in Applying', runners'[q].alone PROVE q = r
    BY <1>1, <2>1, RunActors
  <2>2. Current(r)' \in Discover
    <3>1. runners'[r].todo = Pending(ledger) /\ Pending(ledger) # {}
      BY <1>1 DEF Starts, Run
    <3>2. Pending(ledger) \in SUBSET Discover
      BY DEF Pending
    <3> QED BY <3>1, <3>2, FirstOf DEF Current
  <2>3. ASSUME NEW t \in Tables, NEW i \in DOMAIN AppliesNow(r)' PROVE RebuiltAt(r, t, i)'
    <3>1. AppliesNow(r)'[i] = <<"backfill", t>> => i \in Nat /\ i > 4
      BY <2>2, <2>3, BackfillRebuilds DEF AppliesNow
    <3> QED BY <1>1, <3>1, RunActors DEF RebuiltAt
  <2> QED BY <2>1, <2>3 DEF RebuiltFromNothing, RebuiltAt
<1>2. ASSUME NEW r \in Runners, Dies(r) \/ (Run(r) /\ ~ Starts(r)) PROVE RebuiltFromNothing'
  <2>1. UNCHANGED <<objects, content>>
    BY <1>2 DEF Dies, Run, Starts
  <2>2. r \notin Applying'
    <3>1. \E stage \in {"idle", "ready", "refused"} :
            runners' = [runners EXCEPT ![r] = [stage |-> stage]]
      BY <1>2 DEF Dies, Run, Starts
    <3> QED BY <3>1 DEF Typed, Applying
  <2>3. \A q \in Applying' : runners'[q] = runners[q] /\ q \in Applying
    BY <1>2, <2>2, RunnerActors DEF Applying
  <2>4. \A q \in Applying' : AppliesNow(q)' = AppliesNow(q)
    BY <2>3 DEF AppliesNow, Current
  <2> QED BY <2>1, <2>3, <2>4 DEF RebuiltFromNothing
<1>3. ASSUME NEW j \in Jobs, NEW t \in Tables, NEW d \in Days, Start(j, t, d)
      PROVE  RebuiltFromNothing'
  BY <1>3, StartActors DEF RebuiltFromNothing
<1>4. ASSUME NEW j \in Jobs, JobStep(j) \/ Killed(j) PROVE RebuiltFromNothing'
  BY <1>4, JobActors DEF RebuiltFromNothing, RunnersKept, AloneIsAlone
<1>5. CASE UNCHANGED vars
  <2>1. UNCHANGED <<runners, objects, content>>
    BY <1>5 DEF vars, schema
  <2>2. \A r : AppliesNow(r)' = AppliesNow(r)
    BY <2>1 DEF AppliesNow, Current
  <2> QED BY <2>1, <2>2 DEF RebuiltFromNothing, Applying
<1> QED BY <1>1, <1>2, <1>3, <1>4, <1>5, ExecuteKeepsRebuilt, RecordKeepsRebuilt, InsertKeepsRebuilt
        DEF Next, RunnerStep

\* A step that touches neither the rows, the tables nor the trust.
LEMMA SameTold == ASSUME TablesTold, UNCHANGED <<raw, content, trust>> PROVE TablesTold'
BY DEF TablesTold, Told, ShouldCount, OfDay, DayOf

LEMMA ExecuteKeepsTold ==
  ASSUME Typed, RollupsInv, NEW r \in Runners, Execute(r) PROVE TablesTold'
<1> DEFINE op == Statement(r)[1]
           o  == Statement(r)[2]
<1>1. r \in Applying /\ Statement(r) \in Statements /\ raw' = raw
  BY StatementType DEF Execute
<1>2. op \in {"create", "drop"} \/ (op = "backfill" /\ o \in Tables)
  BY <1>1 DEF Statements
<1>3. CASE Errs(op, o) \/ op = "create" \/ (op = "drop" /\ o \notin Tables)
  <2>1. UNCHANGED <<content, trust>>
    BY <1>3 DEF Execute
  <2> QED BY <1>1, <2>1, SameTold DEF RollupsInv
<1>4. \A t \in Tables, d \in Days : <<t, d>> \in Pairs
  BY DEF Pairs
<1>5. ShouldCount' = ShouldCount
  BY <1>1 DEF ShouldCount
<1>6. CASE ~ Errs(op, o) /\ op = "drop" /\ o \in Tables
  <2>1. content' = [content EXCEPT ![o] = Nothing] /\ Retrust(o, "unknown")
    BY <1>6 DEF Execute
  <2> SUFFICES ASSUME NEW t \in Tables, NEW d \in Days, NEW n \in OfDay(Names, d)
               PROVE  Told(t, d, n)'
    BY DEF TablesTold, OfDay, DayOf
  <2>2. CASE t = o
    <3>1. trust'[<<t, d>>] = "unknown"
      BY <1>4, <2>1, <2>2 DEF Retrust
    <3> QED BY <3>1 DEF Told
  <2>3. CASE t # o
    <3>1. trust'[<<t, d>>] = trust[<<t, d>>] /\ content'[t] = content[t]
      BY <1>4, <2>1, <2>3 DEF Retrust, Typed
    <3> QED BY <1>5, <3>1 DEF Told, RollupsInv, TablesTold
  <2> QED BY <2>2, <2>3
<1>7. CASE ~ Errs(op, o) /\ op = "backfill" /\ o \in Tables
  <2> DEFINE value == IF ~ runners[r].alone THEN "unknown"
                      ELSE IF runners[r].pure THEN "exact" ELSE "over"
  <2>1. content' = [content EXCEPT ![o] = Plus(@, Once(Latest(raw), Names))] /\ Retrust(o, value)
    BY <1>7 DEF Execute
  <2>2. Latest(raw) = ShouldCount
    BY LatestIsDue DEF Typed
  <2> SUFFICES ASSUME NEW t \in Tables, NEW d \in Days, NEW n \in OfDay(Names, d)
               PROVE  Told(t, d, n)'
    BY DEF TablesTold, OfDay, DayOf
  <2>3. n \in Names
    BY DEF OfDay
  <2>4. CASE t # o
    <3>1. trust'[<<t, d>>] = trust[<<t, d>>] /\ content'[t] = content[t]
      BY <1>4, <2>1, <2>4 DEF Retrust, Typed
    <3> QED BY <1>5, <3>1 DEF Told, RollupsInv, TablesTold
  <2>5. CASE t = o
    <3>1. trust'[<<t, d>>] = value
      BY <1>4, <2>1, <2>5 DEF Retrust
    <3>2. content'[t] = Plus(content[t], Once(ShouldCount, Names))
      BY <2>1, <2>2, <2>5 DEF Typed
    <3>3. content'[t][n] = content[t][n] + (IF n \in ShouldCount THEN 1 ELSE 0)
      BY <2>3, <3>2, OnceOf DEF Plus
    <3>4. content[t][n] \in Nat
      BY <2>3, ContentType
    <3>5. ASSUME value = "exact" PROVE content[t][n] = 0
      <4>1. runners[r].alone /\ runners[r].pure
        BY <3>5
      <4>2. /\ runners[r].at \in DOMAIN AppliesNow(r)
            /\ AppliesNow(r)[runners[r].at] = <<"backfill", t>>
        <5>1. Statement(r) = <<op, o>>
          BY <1>1 DEF Statements
        <5> QED BY <1>7, <2>5, <5>1, StatementType DEF Execute, Statement, AppliesNow
      <4>3. content[t] = Nothing
        BY <1>1, <4>1, <4>2 DEF RollupsInv, RebuiltFromNothing
      <4> QED BY <2>3, <4>3 DEF Nothing
    <3> QED BY <1>5, <3>1, <3>3, <3>4, <3>5 DEF Told
  <2> QED BY <2>4, <2>5
<1> QED BY <1>2, <1>3, <1>6, <1>7

LEMMA ReplaceKeepsTold ==
  ASSUME Typed, RollupsInv, NEW j \in Jobs, Replace(j) PROVE TablesTold'
<1> DEFINE u == jobs[j].table
           day == jobs[j].day
<1>1. j \in Busy /\ u \in Tables /\ day \in Days /\ raw' = raw
  BY JobTable DEF Replace, At, Busy
<1>2. CASE ~ (staging[u].there /\ u \in objects)
  <2>1. UNCHANGED <<content, trust>>
    BY <1>2 DEF Replace
  <2> QED BY <1>1, <2>1, SameTold DEF RollupsInv
<1>3. CASE staging[u].there /\ u \in objects
  <2> DEFINE value == IF jobs[j].alone /\ jobs[j].pure THEN "exact" ELSE "unknown"
             new   == [n \in Names |-> IF DayOf(n) = day THEN staging[u].holds[n] ELSE content[u][n]]
  <2>1. content' = [content EXCEPT ![u] = new] /\ trust' = [trust EXCEPT ![<<u, day>>] = value]
    BY <1>1, <1>3 DEF Replace, Typed
  <2>2. ShouldCount' = ShouldCount
    BY <1>1 DEF ShouldCount
  <2>3. \A t \in Tables, d \in Days : <<t, d>> \in Pairs
    BY DEF Pairs
  <2> SUFFICES ASSUME NEW t \in Tables, NEW d \in Days, NEW n \in OfDay(Names, d)
               PROVE  Told(t, d, n)'
    BY DEF TablesTold, OfDay, DayOf
  <2>4. n \in Names /\ DayOf(n) = d
    BY DEF OfDay
  <2>5. CASE t = u /\ d = day
    <3>1. trust'[<<t, d>>] = value
      BY <2>1, <2>3, <2>5 DEF Typed
    <3>2. content'[t][n] = staging[u].holds[n]
      BY <2>1, <2>4, <2>5 DEF Typed
    <3>3. ASSUME value = "exact" PROVE content'[t][n] = IF n \in ShouldCount THEN 1 ELSE 0
      <4>1. jobs[j].alone /\ jobs[j].pure /\ jobs[j].stage = "filled"
        BY <3>3 DEF Replace, At
      <4>2. staging[u].holds = Once(Latest(OfDay(raw, d)), Names)
        BY <1>1, <2>5, <4>1 DEF RollupsInv, StagedFromNothing
      <4>3. n \in Latest(OfDay(raw, d)) <=> n \in ShouldCount
        BY LatestOfDay DEF Typed
      <4> QED BY <2>4, <3>2, <4>2, <4>3, OnceOf
    <3> QED BY <2>2, <3>1, <3>3 DEF Told
  <2>6. CASE ~ (t = u /\ d = day)
    <3>1. trust'[<<t, d>>] = trust[<<t, d>>]
      BY <2>1, <2>3, <2>6 DEF Typed
    <3>2. content'[t][n] = content[t][n]
      BY <2>1, <2>4, <2>6 DEF Typed
    <3> QED BY <2>2, <3>1, <3>2 DEF Told, RollupsInv, TablesTold
  <2> QED BY <2>5, <2>6
<1> QED BY <1>2, <1>3

\* What an inserted row does to what should count: nothing on other days, and it
\* adds itself when it is the first of its span.
LEMMA InsertDue ==
  ASSUME raw \subseteq Names, NEW row \in Names, Insert(row), NEW n \in Names
  PROVE  /\ n # row /\ n \in ShouldCount' => n \in ShouldCount
         /\ DayOf(n) # DayOf(row) => (n \in ShouldCount' <=> n \in ShouldCount)
         /\ Versioned(row) = {} =>
              /\ row \in ShouldCount' /\ row \notin ShouldCount
              /\ n # row => (n \in ShouldCount' <=> n \in ShouldCount)
<1>1. raw' = raw \cup {row}
  BY DEF Insert
<1>2. n # row /\ n \in ShouldCount' => n \in ShouldCount
  BY <1>1 DEF ShouldCount
<1>3. ASSUME DayOf(n) # DayOf(row) PROVE n \in ShouldCount' <=> n \in ShouldCount
  <2>1. n # row /\ ~ SameSpan(Rows[row], Rows[n])
    BY <1>3, SameSpanSameDay
  <2> QED BY <1>1, <2>1 DEF ShouldCount
<1>4. ASSUME Versioned(row) = {}
      PROVE  /\ row \in ShouldCount' /\ row \notin ShouldCount
             /\ n # row => (n \in ShouldCount' <=> n \in ShouldCount)
  <2>1. \A m \in raw : ~ SameSpan(Rows[m], Rows[row])
    BY <1>4 DEF Versioned
  <2>2. row \notin raw
    BY <2>1 DEF SameSpan
  <2>3. ~ (Rows[row].version > Rows[row].version)
    BY WarehouseAssumption
  <2>4. row \in ShouldCount' /\ row \notin ShouldCount
    BY <1>1, <2>1, <2>2, <2>3 DEF ShouldCount
  <2>5. n \in raw => ~ SameSpan(Rows[row], Rows[n])
    BY <2>1 DEF SameSpan
  <2>6. n # row => (n \in ShouldCount' <=> n \in ShouldCount)
    BY <1>1, <2>5 DEF ShouldCount
  <2> QED BY <2>4, <2>6
<1> QED BY <1>2, <1>3, <1>4

LEMMA InsertKeepsTold ==
  ASSUME Typed, TablesTold, NEW row \in Names, Insert(row) PROVE TablesTold'
<1> SUFFICES ASSUME NEW t \in Tables, NEW d \in Days, NEW n \in OfDay(Names, d)
             PROVE  Told(t, d, n)'
  BY DEF TablesTold, OfDay, DayOf
<1>1. n \in Names /\ DayOf(n) = d /\ raw \subseteq Names
  BY DEF OfDay, Typed
<1>2. <<t, d>> \in Pairs
  BY DEF Pairs
<1>3. trust'[<<t, d>>] = TrustAfter(t, d, row)
  BY <1>2 DEF Insert
<1>4. /\ ViewOf(t) \in objects => content'[t] = [content[t] EXCEPT ![row] = @ + 1]
      /\ ViewOf(t) \notin objects => content'[t] = content[t]
  BY DEF Insert
<1>5. content[t] \in Multiset /\ content[t][n] \in Nat
  BY <1>1, ContentType
<1>6. n # row => content'[t][n] = content[t][n]
  BY <1>1, <1>4, <1>5 DEF Multiset
<1>7. ViewOf(t) \in objects /\ n = row => content'[t][n] = content[t][n] + 1
  BY <1>1, <1>4, <1>5 DEF Multiset
<1>8. Told(t, d, n)
  BY DEF TablesTold
<1>9. CASE DayOf(row) # d
  <2>1. trust'[<<t, d>>] = trust[<<t, d>>]
    BY <1>3, <1>9 DEF TrustAfter
  <2> QED BY <1>1, <1>6, <1>8, <1>9, <2>1, InsertDue DEF Told
<1>10. CASE DayOf(row) = d
  <2>1. CASE trust[<<t, d>>] = "unknown"
    BY <1>3, <2>1 DEF TrustAfter, Told
  <2>2. CASE trust[<<t, d>>] # "unknown" /\ Misses(t, d)
    BY <1>3, <1>10, <2>2 DEF TrustAfter, Told
  <2>3. CASE trust[<<t, d>>] # "unknown" /\ ~ Misses(t, d)
    <3> ViewOf(t) \in objects
      BY <2>3 DEF Misses
    <3>1. trust[<<t, d>>] \in {"exact", "over"}
      BY <1>2, <2>3 DEF Typed
    <3>2. CASE Versioned(row) # {}
      <4>1. trust'[<<t, d>>] = "over"
        BY <1>3, <1>10, <2>3, <3>2 DEF TrustAfter
      <4>2. CASE n = row
        BY <1>5, <1>7, <2>3, <4>1, <4>2 DEF Told
      <4>3. CASE n # row
        BY <1>1, <1>6, <1>8, <3>1, <4>1, <4>3, InsertDue DEF Told
      <4> QED BY <4>2, <4>3
    <3>3. CASE Versioned(row) = {}
      <4>1. trust'[<<t, d>>] = trust[<<t, d>>]
        BY <1>3, <1>10, <2>3, <3>3 DEF TrustAfter
      <4>2. CASE n = row
        BY <1>1, <1>5, <1>7, <1>8, <2>3, <3>3, <4>1, <4>2, InsertDue DEF Told
      <4>3. CASE n # row
        BY <1>1, <1>6, <1>8, <3>3, <4>1, <4>3, InsertDue DEF Told
      <4> QED BY <4>2, <4>3
    <3> QED BY <3>2, <3>3
  <2> QED BY <2>1, <2>2, <2>3
<1> QED BY <1>9, <1>10

LEMMA NextTold == ASSUME Typed, RollupsInv, [Next]_vars PROVE TablesTold'
<1>1. ASSUME NEW r \in Runners, Run(r) \/ Record(r) \/ Dies(r) PROVE TablesTold'
  BY <1>1, SameTold DEF Run, Record, Dies, RollupsInv
<1>2. ASSUME NEW j \in Jobs, Create(j) \/ Fill(j) \/ End(j) \/ Killed(j) PROVE TablesTold'
  BY <1>2, SameTold DEF Create, Fill, End, Killed, RollupsInv
<1>3. ASSUME NEW j \in Jobs, NEW t \in Tables, NEW d \in Days, Start(j, t, d) PROVE TablesTold'
  BY <1>3, SameTold DEF Start, RollupsInv
<1>4. CASE UNCHANGED vars
  BY <1>4, SameTold DEF vars, RollupsInv
<1>5. ASSUME NEW row \in Names, Insert(row) PROVE TablesTold'
  BY <1>5, InsertKeepsTold DEF RollupsInv
<1> QED BY <1>1, <1>2, <1>3, <1>4, <1>5, ExecuteKeepsTold, ReplaceKeepsTold
        DEF Next, RunnerStep, JobStep

LEMMA InitRollupsInv == Init => RollupsInv
<1> SUFFICES ASSUME Init PROVE RollupsInv
  OBVIOUS
<1>1. Applying = {} /\ Busy = {}
  BY DEF Init, Applying, Busy
<1>2. TablesTold
  <2>1. \A t \in Tables, d \in Days : trust[<<t, d>>] = "exact"
    BY DEF Init, Pairs
  <2>2. \A t \in Tables, n \in Names : content[t][n] = 0
    BY DEF Init, Nothing
  <2>3. ShouldCount = {}
    BY DEF Init, ShouldCount
  <2> QED BY <2>1, <2>2, <2>3 DEF TablesTold, Told, OfDay
<1> QED BY <1>1, <1>2 DEF RollupsInv, AloneIsAlone, RebuiltFromNothing, StagedFromNothing

\* What a rebuild or a recomputation that is alone relies on holds at each of its
\* statements, and every table says what its history lets it be trusted for.
THEOREM RollupsInvAlways == Spec => []RollupsInv
<1>1. Typed /\ RollupsInv /\ [Next]_vars => RollupsInv'
  BY NextAlone, NextRebuilt, NextStaged, NextTold DEF RollupsInv
<1> QED BY <1>1, InitRollupsInv, TypeCorrect, PTL DEF Spec

\* Whatever was inserted, replayed, killed or left behind before: after a
\* recomputation or a backfill that nothing ran into, and until a replay, a rollup
\* table counts every span of the day once, as its latest version has it.
THEOREM RollupsAreExact == Spec => []RollupsExact
<1>1. RollupsInv => RollupsExact
  BY DEF RollupsInv, TablesTold, Told, RollupsExact, Pairs, OfDay
<1> QED BY <1>1, RollupsInvAlways, PTL

\* A replay only adds: no span that is there goes uncounted.
THEOREM DriftOnlyAdds == Spec => []DriftIsUpward
<1>1. Typed /\ RollupsInv => DriftIsUpward
  <2> SUFFICES ASSUME Typed, RollupsInv, NEW p \in Pairs, trust[p] = "over",
                      NEW n \in OfDay(ShouldCount, p[2])
               PROVE  content[p[1]][n] >= 1
    BY DEF DriftIsUpward
  <2>1. PICK t \in Tables, d \in Days : p = <<t, d>>
    BY DEF Pairs
  <2>2. n \in ShouldCount /\ n \in OfDay(Names, d)
    BY <2>1 DEF OfDay, ShouldCount, Typed
  <2> QED BY <2>1, <2>2 DEF RollupsInv, TablesTold, Told
<1> QED BY <1>1, TypeCorrect, RollupsInvAlways, PTL
-----------------------------------------------------------------------------
(***************************************************************************)
(* What the console shows.                                                 *)
(***************************************************************************)
\* A sum over a set, as its definition builds it up from the empty set.
Pick(s) == CHOOSE x \in s : TRUE

IsSum(it, f, S) ==
  it = [s \in SUBSET S |-> IF s = {} THEN 0 ELSE f[Pick(s)] + it[s \ {Pick(s)}]]

\* What the elements of s stand for, when each stands for a set of its own.
PartsOf(P, s) == UNION {P[x] : x \in s}

Partition(P, X) ==
  /\ IsFiniteSet(X)
  /\ \A x \in X : IsFiniteSet(P[x])
  /\ \A x, y \in X : x # y => P[x] \cap P[y] = {}

LEMMA PartsFinite ==
  ASSUME NEW X, NEW P, Partition(P, X), NEW s \in SUBSET X
  PROVE  IsFiniteSet(PartsOf(P, s)) /\ Cardinality(PartsOf(P, s)) \in Nat
<1> DEFINE C == [x \in s |-> P[x]]
           T == {P[x] : x \in s}
<1>1. IsFiniteSet(s)
  BY FS_Subset DEF Partition
<1>2. C \in Surjection(s, T)
  BY DEF Surjection
<1>3. IsFiniteSet(T)
  BY <1>1, <1>2, FS_Surjection
<1>4. \A t \in T : IsFiniteSet(t)
  BY DEF Partition
<1>5. IsFiniteSet(PartsOf(P, s))
  BY <1>3, <1>4, FS_UNION DEF PartsOf
<1> QED BY <1>5, FS_CardinalityType

LEMMA PartsSplit ==
  ASSUME NEW X, NEW P, Partition(P, X), NEW s \in SUBSET X, NEW x \in s
  PROVE  Cardinality(PartsOf(P, s)) = Cardinality(P[x]) + Cardinality(PartsOf(P, s \ {x}))
<1> DEFINE U == PartsOf(P, s \ {x})
<1>1. PartsOf(P, s) = U \cup P[x]
  BY DEF PartsOf
<1>2. U \cap P[x] = {}
  BY DEF PartsOf, Partition
<1>3. IsFiniteSet(U) /\ Cardinality(U) \in Nat
  BY PartsFinite
<1>4. IsFiniteSet(P[x]) /\ Cardinality(P[x]) \in Nat
  BY FS_CardinalityType DEF Partition
<1>5. Cardinality(U \cap P[x]) = 0
  BY <1>2, FS_EmptySet
<1> HIDE DEF U
<1>6. Cardinality(U \cup P[x]) = Cardinality(U) + Cardinality(P[x]) - Cardinality(U \cap P[x])
  BY <1>3, <1>4, FS_Union
<1>7. Cardinality(U \cup P[x]) = Cardinality(P[x]) + Cardinality(U)
  BY <1>3, <1>4, <1>5, <1>6
<1> QED BY <1>1, <1>7 DEF U

LEMMA NoParts == ASSUME NEW P PROVE Cardinality(PartsOf(P, {})) = 0
<1>1. PartsOf(P, {}) = {}
  BY DEF PartsOf
<1> QED BY <1>1, FS_EmptySet

\* Counting what they stand for satisfies that equation, and nothing else does: the
\* smallest set on which another solution differed would be a counterexample.
LEMMA PartsAreSum ==
  ASSUME NEW X, NEW P, Partition(P, X), NEW f, \A x \in X : f[x] = Cardinality(P[x])
  PROVE  \E it : IsSum(it, f, X)
<1> DEFINE W == [s \in SUBSET X |-> Cardinality(PartsOf(P, s))]
<1>1. ASSUME NEW s \in SUBSET X
      PROVE  W[s] = IF s = {} THEN 0 ELSE f[Pick(s)] + W[s \ {Pick(s)}]
  <2>1. CASE s = {}
    BY <2>1, NoParts
  <2>2. CASE s # {}
    <3>1. Pick(s) \in s
      BY <2>2 DEF Pick
    <3>2. s \ {Pick(s)} \in SUBSET X
      OBVIOUS
    <3>3. Cardinality(PartsOf(P, s))
            = Cardinality(P[Pick(s)]) + Cardinality(PartsOf(P, s \ {Pick(s)}))
      BY <3>1, PartsSplit
    <3>4. f[Pick(s)] = Cardinality(P[Pick(s)])
      BY <3>1
    <3> QED BY <2>2, <3>2, <3>3, <3>4
  <2> QED BY <2>1, <2>2
<1>2. W = [s \in SUBSET X |-> W[s]]
  OBVIOUS
<1> HIDE DEF W
<1>3. W = [s \in SUBSET X |-> IF s = {} THEN 0 ELSE f[Pick(s)] + W[s \ {Pick(s)}]]
  BY <1>1, <1>2
<1> QED BY <1>3 DEF IsSum

LEMMA OnlySum ==
  ASSUME NEW X, NEW P, Partition(P, X), NEW f, \A x \in X : f[x] = Cardinality(P[x]),
         NEW it, IsSum(it, f, X)
  PROVE  it[X] = Cardinality(PartsOf(P, X))
<1> DEFINE Differs == {s \in SUBSET X : it[s] # Cardinality(PartsOf(P, s))}
           Sizes == {Cardinality(s) : s \in Differs}
           R == {p \in Nat \X Nat : p[1] < p[2]}
<1>1. \A s \in SUBSET X : IsFiniteSet(s) /\ Cardinality(s) \in Nat
  BY FS_Subset, FS_CardinalityType DEF Partition
<1>2. Sizes \subseteq Nat
  BY <1>1
<1>3. SUFFICES ASSUME Differs # {} PROVE FALSE
  OBVIOUS
<1>4. IsWellFoundedOn(R, Nat)
  BY NatLessThanWellFounded DEF OpToRel
<1>5. \E n \in Sizes : \A k \in Sizes : ~ (<<k, n>> \in R)
  <2>1. Sizes # {}
    BY <1>3
  <2> HIDE DEF Sizes, R
  <2> QED BY <1>2, <1>4, <2>1, WFMin
<1>6. PICK s \in Differs : \A k \in Sizes : ~ (<<k, Cardinality(s)>> \in R)
  BY <1>5
<1>7. \A t \in SUBSET X : it[t] = IF t = {} THEN 0 ELSE f[Pick(t)] + it[t \ {Pick(t)}]
  BY DEF IsSum
<1>8. s # {}
  BY <1>6, <1>7, NoParts
<1> DEFINE x == Pick(s)
           t == s \ {x}
<1>9. x \in s /\ t \in SUBSET X
  BY <1>8 DEF Pick
<1>10. Cardinality(t) = Cardinality(s) - 1
  BY <1>1, <1>9, FS_RemoveElement
<1>11. t \notin Differs
  <2> SUFFICES ASSUME t \in Differs PROVE FALSE
    OBVIOUS
  <2>1. Cardinality(t) \in Sizes
    OBVIOUS
  <2>2. Cardinality(s) \in Nat /\ Cardinality(t) \in Nat
    BY <1>1, <1>9
  <2>3. <<Cardinality(t), Cardinality(s)>> \in R
    <3> HIDE DEF t
    <3> QED BY <1>10, <2>2
  <2> QED BY <1>6, <2>1, <2>3
<1>12. it[t] = Cardinality(PartsOf(P, t))
  BY <1>9, <1>11
<1>13. it[s] = f[x] + it[t]
  BY <1>7, <1>8
<1>14. Cardinality(PartsOf(P, s)) = Cardinality(P[x]) + Cardinality(PartsOf(P, t))
  BY <1>9, PartsSplit
<1>7a. f[x] = Cardinality(P[x])
  BY <1>9
<1> QED BY <1>6, <1>12, <1>13, <1>14, <1>7a

-----------------------------------------------------------------------------
\* A table without duplicates counts each of its rows once.
LEMMA SumIs ==
  ASSUME NEW f, NEW S
  PROVE  SumFunctionOnSet(f, S) = (CHOOSE it : IsSum(it, f, S))[S]
BY DEF SumFunctionOnSet, FoldFunctionOnSet, MapThenFoldSet, IsSum, Pick

LEMMA SumOfParts ==
  ASSUME NEW X, NEW P, Partition(P, X), NEW f, \A x \in X : f[x] = Cardinality(P[x])
  PROVE  SumFunctionOnSet(f, X) = Cardinality(PartsOf(P, X))
<1> DEFINE it == CHOOSE e : IsSum(e, f, X)
<1>1. IsSum(it, f, X)
  <2>1. \E e : IsSum(e, f, X)
    BY PartsAreSum
  <2> QED BY <2>1
<1>2. SumFunctionOnSet(f, X) = it[X]
  BY SumIs
<1> HIDE DEF it
<1> QED BY <1>1, <1>2, OnlySum

LEMMA TotalCounts ==
  ASSUME NEW S, IsFiniteSet(S), NEW table, NEW due,
         \A r \in S : table[r] = IF r \in due THEN 1 ELSE 0
  PROVE  Total(table, S) = Cardinality(S \cap due)
<1> DEFINE P == [r \in S |-> IF r \in due THEN {r} ELSE {}]
<1>1. Partition(P, S)
  <2>1. \A r \in S : IsFiniteSet(P[r])
    BY FS_Singleton, FS_EmptySet
  <2>2. \A q, r \in S : q # r => P[q] \cap P[r] = {}
    OBVIOUS
  <2> QED BY <2>1, <2>2 DEF Partition
<1>2. \A r \in S : table[r] = Cardinality(P[r])
  BY FS_Singleton, FS_EmptySet
<1>3. PartsOf(P, S) = S \cap due
  BY DEF PartsOf
<1> HIDE DEF P
<1> QED BY <1>1, <1>2, <1>3, SumOfParts DEF Total

-----------------------------------------------------------------------------
\* What a tenant sees from some minute on.
SeenOf(due, tenant, since) == {r \in due : r.tenant = tenant /\ r.minute >= since}

OfKey(S, k) == {r \in S : KeyOf(r) = k}

GroupsOf(S, X) == {r \in S : \E x \in X : x.key = KeyOf(r)}

LEMMA CountedOnce ==
  ASSUME NEW rows, NEW due \in SUBSET rows
  PROVE  Counted(Once(due, rows)) = due
BY DEF Counted, Once

\* A row of the rollup counts the rows of its key.
RowCounts(x, S) ==
  /\ x.calls  = Cardinality(OfKey(S, x.key))
  /\ x.errors = Cardinality({r \in OfKey(S, x.key) : r.error})
  /\ x.helper = Cardinality({r \in OfKey(S, x.key) : r.helper})
  /\ x.last   = x.key.minute

LEMMA RollupRowCounts ==
  ASSUME NEW rows, IsFiniteSet(rows), NEW due \in SUBSET rows, NEW S \in SUBSET due, NEW q \in S,
         q.minute \in Nat
  PROVE  LET x == RollupRow(Once(due, rows), KeyOf(q), OfKey(S, KeyOf(q)))
         IN  x.key = KeyOf(q) /\ RowCounts(x, S)
<1> DEFINE k == KeyOf(q)
           G == OfKey(S, k)
           table == Once(due, rows)
           x == RollupRow(table, k, G)
<1>1. /\ x.key = k /\ x.calls = Total(table, G)
      /\ x.errors = Total(table, {r \in G : r.error})
      /\ x.helper = Total(table, {r \in G : r.helper})
      /\ x.last = Max({r.minute : r \in G})
  BY DEF RollupRow
<1>2. \A T \in SUBSET G : Total(table, T) = Cardinality(T)
  <2> SUFFICES ASSUME NEW T \in SUBSET G PROVE Total(table, T) = Cardinality(T)
    OBVIOUS
  <2>1. T \subseteq due /\ T \subseteq rows
    BY DEF OfKey
  <2>2. IsFiniteSet(T) /\ T \cap due = T
    BY <2>1, FS_Subset
  <2>3. \A r \in T : table[r] = IF r \in due THEN 1 ELSE 0
    BY <2>1 DEF Once
  <2> HIDE DEF table
  <2> QED BY <2>2, <2>3, TotalCounts
<1>3. Max({r.minute : r \in G}) = k.minute
  <2>1. {r.minute : r \in G} = {q.minute} /\ k.minute = q.minute
    BY DEF OfKey, KeyOf
  <2>2. Max({q.minute}) = q.minute
    BY DEF Max
  <2> QED BY <2>1, <2>2
<1>4. /\ Total(table, G) = Cardinality(G)
      /\ Total(table, {r \in G : r.error}) = Cardinality({r \in G : r.error})
      /\ Total(table, {r \in G : r.helper}) = Cardinality({r \in G : r.helper})
  BY <1>2
<1> HIDE DEF k, table, x
<1>5. x.key = k /\ RowCounts(x, S)
  BY <1>1, <1>3, <1>4 DEF RowCounts
<1> QED BY <1>5 DEF k, table, x

\* The rows of the rollup are those of the keys there are, one for each.
RollupIs(R, S) ==
  /\ \A x \in R : RowCounts(x, S) /\ \E r \in S : x.key = KeyOf(r)
  /\ \A r \in S : \E x \in R : x.key = KeyOf(r)
  /\ \A x, y \in R : x.key = y.key => x = y
  /\ IsFiniteSet(R) /\ IsFiniteSet(S)

LEMMA RollupShows ==
  ASSUME NEW rows, IsFiniteSet(rows), NEW due \in SUBSET rows, NEW tenant, NEW since,
         \A r \in due : r.minute \in Nat
  PROVE  RollupIs(Rollup(Once(due, rows), tenant, since), SeenOf(due, tenant, since))
<1> DEFINE table == Once(due, rows)
           S == SeenOf(due, tenant, since)
           row(q) == RollupRow(table, KeyOf(q), OfKey(S, KeyOf(q)))
           R == {row(q) : q \in S}
<1>1. Rollup(table, tenant, since) = R
  <2>1. Counted(table) = due
    BY CountedOnce
  <2> HIDE DEF table
  <2> QED BY <2>1 DEF Rollup, SeenOf, OfKey
<1>2. S \in SUBSET due /\ IsFiniteSet(S)
  <2>1. S \subseteq due /\ S \subseteq rows
    BY DEF SeenOf
  <2> QED BY <2>1, FS_Subset
<1>3. \A q \in S : row(q).key = KeyOf(q) /\ RowCounts(row(q), S)
  BY <1>2, RollupRowCounts
<1>4. IsFiniteSet(R)
  <2>1. [q \in S |-> row(q)] \in Surjection(S, R)
    BY DEF Surjection
  <2> QED BY <1>2, <2>1, FS_Surjection
<1>5. \A p, q \in S : KeyOf(p) = KeyOf(q) => row(p) = row(q)
  OBVIOUS
<1> HIDE DEF S, table, row
<1>6. \A x \in R : \E q \in S : x = row(q)
  OBVIOUS
<1>7. \A q \in S : row(q) \in R
  OBVIOUS
<1> HIDE DEF R
<1>8. RollupIs(R, S)
  <2>1. ASSUME NEW x \in R PROVE RowCounts(x, S) /\ \E r \in S : x.key = KeyOf(r)
    BY <1>3, <1>6
  <2>2. ASSUME NEW r \in S PROVE \E x \in R : x.key = KeyOf(r)
    BY <1>3, <1>7
  <2>3. ASSUME NEW x \in R, NEW y \in R, x.key = y.key PROVE x = y
    BY <1>3, <1>5, <1>6, <2>3
  <2> QED BY <1>2, <1>4, <2>1, <2>2, <2>3 DEF RollupIs
<1> QED BY <1>1, <1>8 DEF S, table

\* A sum over rows of the rollup counts the rows of their keys.
SumsAre(X, G) ==
  /\ CallsIn(X) = Cardinality(G)
  /\ SumFunction([x \in X |-> x.errors]) = Cardinality({r \in G : r.error})
  /\ SumFunction([x \in X |-> x.helper]) = Cardinality({r \in G : r.helper})

LEMMA GroupSums ==
  ASSUME NEW R, NEW S, RollupIs(R, S), NEW X \in SUBSET R
  PROVE  SumsAre(X, GroupsOf(S, X))
<1>1. IsFiniteSet(X) /\ IsFiniteSet(S) /\ \A x \in X : RowCounts(x, S)
  BY FS_Subset DEF RollupIs
<1>2. \A x, y \in X : x # y => x.key # y.key
  BY DEF RollupIs
<1>3. CallsIn(X) = Cardinality(GroupsOf(S, X))
  <2> DEFINE P == [x \in X |-> OfKey(S, x.key)]
             f == [x \in X |-> x.calls]
  <2>1. Partition(P, X)
    <3>1. \A x \in X : IsFiniteSet(P[x])
      BY <1>1, FS_Subset DEF OfKey
    <3>2. \A x, y \in X : x # y => P[x] \cap P[y] = {}
      BY <1>2 DEF OfKey
    <3> QED BY <1>1, <3>1, <3>2 DEF Partition
  <2>2. \A x \in X : f[x] = Cardinality(P[x])
    BY <1>1 DEF RowCounts
  <2>3. PartsOf(P, X) = GroupsOf(S, X)
    BY DEF PartsOf, GroupsOf, OfKey
  <2>4. DOMAIN f = X /\ CallsIn(X) = SumFunction(f)
    BY DEF CallsIn
  <2> HIDE DEF P, f
  <2>5. SumFunction(f) = Cardinality(PartsOf(P, X))
    BY <2>1, <2>2, <2>4, SumOfParts DEF SumFunction
  <2> QED BY <2>3, <2>4, <2>5
<1>4. SumFunction([x \in X |-> x.errors]) = Cardinality({r \in GroupsOf(S, X) : r.error})
  <2> DEFINE P == [x \in X |-> {r \in OfKey(S, x.key) : r.error}]
             f == [x \in X |-> x.errors]
  <2>1. Partition(P, X)
    <3>1. \A x \in X : IsFiniteSet(P[x])
      BY <1>1, FS_Subset DEF OfKey
    <3>2. \A x, y \in X : x # y => P[x] \cap P[y] = {}
      BY <1>2 DEF OfKey
    <3> QED BY <1>1, <3>1, <3>2 DEF Partition
  <2>2. \A x \in X : f[x] = Cardinality(P[x])
    BY <1>1 DEF RowCounts
  <2>3. PartsOf(P, X) = {r \in GroupsOf(S, X) : r.error}
    BY DEF PartsOf, GroupsOf, OfKey
  <2>4. DOMAIN f = X
    OBVIOUS
  <2> HIDE DEF P, f
  <2>5. SumFunction(f) = Cardinality(PartsOf(P, X))
    BY <2>1, <2>2, <2>4, SumOfParts DEF SumFunction
  <2> QED BY <2>3, <2>5 DEF f
<1>5. SumFunction([x \in X |-> x.helper]) = Cardinality({r \in GroupsOf(S, X) : r.helper})
  <2> DEFINE P == [x \in X |-> {r \in OfKey(S, x.key) : r.helper}]
             f == [x \in X |-> x.helper]
  <2>1. Partition(P, X)
    <3>1. \A x \in X : IsFiniteSet(P[x])
      BY <1>1, FS_Subset DEF OfKey
    <3>2. \A x, y \in X : x # y => P[x] \cap P[y] = {}
      BY <1>2 DEF OfKey
    <3> QED BY <1>1, <3>1, <3>2 DEF Partition
  <2>2. \A x \in X : f[x] = Cardinality(P[x])
    BY <1>1 DEF RowCounts
  <2>3. PartsOf(P, X) = {r \in GroupsOf(S, X) : r.helper}
    BY DEF PartsOf, GroupsOf, OfKey
  <2>4. DOMAIN f = X
    OBVIOUS
  <2> HIDE DEF P, f
  <2>5. SumFunction(f) = Cardinality(PartsOf(P, X))
    BY <2>1, <2>2, <2>4, SumOfParts DEF SumFunction
  <2> QED BY <2>3, <2>5 DEF f
<1> QED BY <1>3, <1>4, <1>5 DEF SumsAre
LEMMA KeysAre ==
  ASSUME NEW R, NEW S, RollupIs(R, S)
  PROVE  /\ \A r \in S : \E x \in R : x.key = KeyOf(r)
         /\ \A x \in R : x.last = x.key.minute /\ \E r \in S : x.key = KeyOf(r)
         /\ \A r : /\ KeyOf(r).method = r.method /\ KeyOf(r).category = r.category
                   /\ KeyOf(r).service = r.service /\ KeyOf(r).tool = r.tool
                   /\ KeyOf(r).minute = r.minute
<1>1. \A r \in S : \E x \in R : x.key = KeyOf(r)
  BY DEF RollupIs
<1>2. \A x \in R : x.last = x.key.minute /\ \E r \in S : x.key = KeyOf(r)
  BY DEF RollupIs, RowCounts
<1> QED BY <1>1, <1>2 DEF KeyOf

LEMMA GroupsAre ==
  ASSUME NEW R, NEW S, RollupIs(R, S)
  PROVE  /\ GroupsOf(S, ToolCalls(R)) = {r \in S : r.method = "tools/call"}
         /\ {x.key.service : x \in R} = {r.service : r \in S}
         /\ {x.key.tool : x \in R} = {r.tool : r \in S}
<1>1. GroupsOf(S, ToolCalls(R)) = {r \in S : r.method = "tools/call"}
  BY KeysAre DEF GroupsOf, ToolCalls
<1>2. {x.key.service : x \in R} = {r.service : r \in S}
  BY KeysAre
<1>3. {x.key.tool : x \in R} = {r.tool : r \in S}
  BY KeysAre
<1> QED BY <1>1, <1>2, <1>3

-----------------------------------------------------------------------------
\* Samples that count each of E once say the same, whatever else is in their domain.
LEMMA SameLatency ==
  ASSUME NEW D, IsFiniteSet(D), NEW E \in SUBSET D, NEW f, DOMAIN f = E, \A r \in E : f[r] = 1
  PROVE  Latency(f) = Latency(Once(E, D))
<1> DEFINE g == Once(E, D)
<1>1. DOMAIN g = D /\ \A r \in D : g[r] = IF r \in E THEN 1 ELSE 0
  BY DEF Once
<1> HIDE DEF g
<1>2. Counted(f) = E /\ Counted(g) = E
  BY <1>1 DEF Counted
<1>3. ASSUME NEW T \in SUBSET E PROVE Total(f, T) = Cardinality(T)
  <2>1. IsFiniteSet(T) /\ T \cap E = T /\ \A r \in T : f[r] = IF r \in E THEN 1 ELSE 0
    BY FS_Subset
  <2> QED BY <2>1, TotalCounts
<1>4. ASSUME NEW T \in SUBSET D PROVE Total(g, T) = Cardinality(T \cap E)
  <2>1. IsFiniteSet(T) /\ \A r \in T : g[r] = IF r \in E THEN 1 ELSE 0
    BY <1>1, FS_Subset
  <2> QED BY <2>1, TotalCounts
<1>5. ASSUME NEW T \in SUBSET E PROVE Total(g, T) = Total(f, T)
  <2>1. T \cap E = T /\ T \in SUBSET D
    OBVIOUS
  <2> QED BY <1>3, <1>4, <2>1
<1>6. Median(f) = Median(g)
  <2>1. ASSUME NEW d
        PROVE  Total(f, {r \in E : r.duration <= d}) = Total(g, {r \in D : r.duration <= d})
    <3>1. {r \in D : r.duration <= d} \cap E = {r \in E : r.duration <= d}
      OBVIOUS
    <3> QED BY <1>3, <1>4, <3>1
  <2>2. Total(f, E) = Total(g, D)
    <3>1. D \cap E = E
      OBVIOUS
    <3> QED BY <1>3, <1>4, <3>1
  <2>3. {d \in {r.duration : r \in E} :
            2 * Total(f, {r \in E : r.duration <= d}) >= Total(f, E)}
          = {d \in {r.duration : r \in E} :
                2 * Total(g, {r \in D : r.duration <= d}) >= Total(g, D)}
    BY <2>1, <2>2
  <2> QED BY <1>1, <1>2, <2>3 DEF Median
<1>7. /\ Total(f, E) = Total(g, E)
      /\ Total(f, {r \in E : r.duration = 0}) = Total(g, {r \in E : r.duration = 0})
  BY <1>5
<1>8. Latency(f) = Latency(g)
  BY <1>2, <1>6, <1>7 DEF Latency
<1> QED BY <1>8 DEF g

\* Of a table that counts each latest span once, they do.
LEMMA OverviewCounts ==
  ASSUME NEW rows, IsFiniteSet(rows), NEW due \in SUBSET rows, NEW tenant, NEW since,
         \A r \in due : r.minute \in Nat
  PROVE  Shows(Once(due, rows), due, tenant, since)
<1> DEFINE table == Once(due, rows)
           S     == {r \in due : r.tenant = tenant /\ r.minute >= since}
           R     == Rollup(table, tenant, since)
           seen  == Overview(table, tenant, since)
           calls == {r \in S : r.method = "tools/call"}
<1>1. RollupIs(R, S)
  BY RollupShows DEF SeenOf
<1>2. IsFiniteSet(S) /\ S \subseteq due
  BY <1>1 DEF RollupIs
<1>3. Counted(table) = due /\ \A r \in due : table[r] = 1
  BY CountedOnce DEF Once
<1>4. seen.latency = Latency(Once({r \in calls : r.eligible}, calls))
  <2> DEFINE E == {r \in calls : r.eligible}
             f == Samples(table, calls)
  <2>1. seen.latency = RollupLatency(table, tenant, since, "")
    <3> HIDE DEF table
    <3> QED BY DEF Overview
  <2>2. RollupLatency(table, tenant, since, "") = Latency(f)
    <3>1. {r \in Counted(table) : /\ r.tenant = tenant /\ r.minute >= since
                                  /\ r.method = "tools/call" /\ "" \in {"", r.service}} = calls
      BY <1>3
    <3> HIDE DEF table, calls
    <3> QED BY <3>1 DEF RollupLatency
  <2>3. DOMAIN f = E /\ \A r \in E : f[r] = 1
    BY <1>3 DEF Samples
  <2>4. IsFiniteSet(calls) /\ E \in SUBSET calls
    BY <1>2, FS_Subset
  <2> HIDE DEF E, f, calls
  <2>5. Latency(f) = Latency(Once(E, calls))
    BY <2>3, <2>4, SameLatency
  <2> QED BY <2>1, <2>2, <2>5 DEF E
<1>5. /\ seen.servers = Cardinality({x.key.service : x \in R})
      /\ seen.tools = Cardinality({x.key.tool : x \in R} \ {""})
      /\ seen.calls = CallsIn(ToolCalls(R))
      /\ seen.errors = SumFunction([x \in ToolCalls(R) |-> x.errors])
      /\ seen.helper = SumFunction([x \in Classified(R) |-> x.helper])
      /\ seen.failed = CallsIn(Classified(R))
      /\ seen.breakdown = [c \in FailureCategories |-> CallsIn({x \in R : x.key.category = c})]
  BY DEF Overview, ToolsOf, CallsOf, ErrorsOf, Breakdown
<1>6. ASSUME NEW server \in Servers(table, tenant, since)
      PROVE  /\ server.calls = CallsIn(ToolCalls({x \in R : x.key.service = server.server}))
             /\ server.last = Max({x.last : x \in {y \in R : y.key.service = server.server}})
  <2>1. PICK name : server = Server(table, tenant, since, name)
    BY DEF Servers
  <2>2. server.server = name
    BY <2>1 DEF Server
  <2>3. /\ server.calls = CallsIn(ToolCalls({x \in R : x.key.service = name}))
        /\ server.last = Max({x.last : x \in {y \in R : y.key.service = name}})
    BY <2>1 DEF Server, CallsOf
  <2> QED BY <2>2, <2>3
<1>7. /\ ToolCalls(R) \in SUBSET R /\ Classified(R) \in SUBSET R
      /\ \A c : {x \in R : x.key.category = c} \in SUBSET R
      /\ \A name : ToolCalls({x \in R : x.key.service = name}) \in SUBSET R
  BY DEF ToolCalls, Classified
<1> HIDE DEF seen, R, table, S
<1>7a. \A X \in SUBSET R : SumsAre(X, GroupsOf(S, X))
  BY <1>1, GroupSums
<1>8. /\ seen.calls = Cardinality(calls)
      /\ seen.errors = Cardinality({r \in calls : r.error})
  <2>1. GroupsOf(S, ToolCalls(R)) = calls
    BY <1>1, GroupsAre
  <2> HIDE DEF calls
  <2>2. SumsAre(ToolCalls(R), calls)
    BY <1>7, <1>7a, <2>1
  <2> QED BY <1>5, <2>2 DEF SumsAre
<1>9. seen.servers = Cardinality({r.service : r \in S})
  BY <1>1, <1>5, GroupsAre
<1>10. seen.tools = Cardinality({r.tool : r \in S} \ {""})
  BY <1>1, <1>5, GroupsAre
<1>11. ASSUME NEW c \in FailureCategories
       PROVE  seen.breakdown[c] = Cardinality({r \in S : r.category = c})
  <2>1. seen.breakdown[c] = CallsIn({x \in R : x.key.category = c})
    BY <1>5
  <2>2. CallsIn({x \in R : x.key.category = c})
          = Cardinality(GroupsOf(S, {x \in R : x.key.category = c}))
    BY <1>7, <1>7a DEF SumsAre
  <2>3. GroupsOf(S, {x \in R : x.key.category = c}) = {r \in S : r.category = c}
    BY <1>1, KeysAre DEF GroupsOf
  <2> QED BY <2>1, <2>2, <2>3
<1>12. seen.helper <= seen.failed
  <2> DEFINE G == GroupsOf(S, Classified(R))
  <2>1. IsFiniteSet(G)
    BY <1>2, FS_Subset DEF GroupsOf
  <2>2. Cardinality({r \in G : r.helper}) <= Cardinality(G)
    BY <2>1, FS_Subset
  <2>3. SumsAre(Classified(R), G)
    BY <1>7, <1>7a
  <2> QED BY <1>5, <2>2, <2>3 DEF SumsAre
<1>13. ASSUME NEW server \in Servers(table, tenant, since)
       PROVE  /\ server.calls = Cardinality({r \in calls : r.service = server.server})
              /\ server.last = Max({r.minute : r \in {q \in S : q.service = server.server}})
  <2>1. /\ server.calls = CallsIn(ToolCalls({x \in R : x.key.service = server.server}))
        /\ server.last = Max({x.last : x \in {y \in R : y.key.service = server.server}})
    BY <1>6
  <2>2. {r \in calls : r.service = server.server}
          = {r \in S : r.method = "tools/call" /\ r.service = server.server}
    OBVIOUS
  <2> HIDE DEF calls
  <2>3. CallsIn(ToolCalls({x \in R : x.key.service = server.server}))
          = Cardinality(GroupsOf(S, ToolCalls({x \in R : x.key.service = server.server})))
    BY <1>7, <1>7a DEF SumsAre
  <2>4. GroupsOf(S, ToolCalls({x \in R : x.key.service = server.server}))
          = {r \in S : r.method = "tools/call" /\ r.service = server.server}
    BY <1>1, KeysAre DEF GroupsOf, ToolCalls
  <2>5. {x.last : x \in {y \in R : y.key.service = server.server}}
          = {r.minute : r \in {q \in S : q.service = server.server}}
    <3>1. {x.last : x \in {y \in R : y.key.service = server.server}}
            \subseteq {r.minute : r \in {q \in S : q.service = server.server}}
      BY <1>1, KeysAre
    <3>2. {r.minute : r \in {q \in S : q.service = server.server}}
            \subseteq {x.last : x \in {y \in R : y.key.service = server.server}}
      BY <1>1, KeysAre
    <3> QED BY <3>1, <3>2
  <2> QED BY <2>1, <2>2, <2>3, <2>4, <2>5
<1> HIDE DEF calls
<1>14. /\ seen.calls = Cardinality(calls)
       /\ seen.errors = Cardinality({r \in calls : r.error})
       /\ seen.servers = Cardinality({r.service : r \in S})
       /\ seen.tools = Cardinality({r.tool : r \in S} \ {""})
       /\ \A c \in FailureCategories :
            seen.breakdown[c] = Cardinality({r \in S : r.category = c})
       /\ seen.latency = Latency(Once({r \in calls : r.eligible}, calls))
       /\ seen.helper <= seen.failed
       /\ \A server \in Servers(table, tenant, since) :
            /\ server.calls = Cardinality({r \in calls : r.service = server.server})
            /\ server.last = Max({r.minute : r \in {q \in S : q.service = server.server}})
  BY <1>4, <1>8, <1>9, <1>10, <1>11, <1>12, <1>13
<1> QED BY <1>14 DEF Shows, table, S, seen, calls
LEMMA RecordsFinite == IsFiniteSet(Records(Names))
<1>1. [n \in Names |-> Rows[n]] \in Surjection(Names, Records(Names))
  BY DEF Surjection, Records
<1> QED BY <1>1, RowsAssumption, FS_Surjection

\* While every day of the rollup is exact, it counts each row that should count
\* once, and no other.
LEMMA ExactIsOnce ==
  ASSUME Typed, RollupsExact, \A d \in Days : trust[<<"metrics", d>>] = "exact"
  PROVE  [r \in Records(Names) |-> content["metrics"][CHOOSE n \in Names : Rows[n] = r]]
            = Once(Records(ShouldCount), Records(Names))
<1>1. ASSUME NEW n \in Names
      PROVE  content["metrics"][n] = IF n \in ShouldCount THEN 1 ELSE 0
  <2>1. DayOf(n) \in Days /\ n \in OfDay(Names, DayOf(n))
    BY DayType DEF OfDay
  <2>2. <<"metrics", DayOf(n)>> \in Pairs /\ trust[<<"metrics", DayOf(n)>>] = "exact"
    BY <2>1 DEF Pairs, Tables
  <2> QED BY <2>1, <2>2 DEF RollupsExact
<1>2. ASSUME NEW r \in Records(Names)
      PROVE  content["metrics"][CHOOSE n \in Names : Rows[n] = r]
                = IF r \in Records(ShouldCount) THEN 1 ELSE 0
  <2> DEFINE m == CHOOSE n \in Names : Rows[n] = r
  <2>1. m \in Names /\ Rows[m] = r
    BY DEF Records
  <2> HIDE DEF m
  <2>2. ShouldCount \subseteq Names
    BY DEF ShouldCount, Typed
  <2>3. m \in ShouldCount <=> r \in Records(ShouldCount)
    BY <2>1, <2>2, RowsAssumption DEF Records
  <2>4. content["metrics"][m] = IF r \in Records(ShouldCount) THEN 1 ELSE 0
    BY <1>1, <2>1, <2>3
  <2> QED BY <2>4 DEF m
<1> QED BY <1>2 DEF Once

\* OverviewIsTrue: while the rollup is exact, /overview shows what a count over the
\* latest spans themselves would, and /servers of each server the calls and the last
\* minute, whatever the rows (OverviewMatchesRaw).
THEOREM OverviewIsTrue == Spec => []OverviewMatchesRaw
<1>1. Typed /\ RollupsExact => OverviewMatchesRaw
  <2> SUFFICES ASSUME Typed, RollupsExact, \A d \in Days : trust[<<"metrics", d>>] = "exact"
               PROVE  OverviewMatchesRaw
    BY DEF OverviewMatchesRaw
  <2> DEFINE rows == Records(Names)
             due  == Records(ShouldCount)
  <2>1. IsFiniteSet(rows)
    BY RecordsFinite
  <2>2. due \in SUBSET rows /\ \A r \in due : r.minute \in Nat
    BY WarehouseAssumption DEF Records, ShouldCount, Typed
  <2>3. [r \in rows |-> content["metrics"][CHOOSE n \in Names : Rows[n] = r]] = Once(due, rows)
    BY ExactIsOnce
  <2> HIDE DEF rows, due
  <2>4. \A tenant, since : Shows(Once(due, rows), due, tenant, since)
    BY <2>1, <2>2, OverviewCounts
  <2> QED BY <2>3, <2>4 DEF OverviewMatchesRaw, rows, due
<1> QED BY <1>1, TypeCorrect, RollupsAreExact, PTL
=============================================================================
