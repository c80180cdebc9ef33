----------------------------- MODULE Warehouse ------------------------------
(***************************************************************************)
(* The ClickHouse schema and what keeps its rollups in step with           *)
(* spans_raw: the migrations each service runs when it starts              *)
(* (normalizer/migrations.py, normalizer/schema/), the materialized views  *)
(* that add every inserted row, and the operator's recomputation           *)
(* (scripts/recompute_rollups.py).                                         *)
(*                                                                         *)
(* Every SQL statement is one step.  Between two steps the other runners,  *)
(* the normalizers' inserts and the recomputations go on, and a runner or  *)
(* a recomputation may die.                                                *)
(***************************************************************************)
EXTENDS Rollups, Sequences

CONSTANTS
  Rows,          \* the rows the normalizers may insert, by their names
  DayLength,     \* minutes in a day: toDate() of a minute
  Runners,       \* the services that run the migrations
  BaseFiles,     \* schema/*.sql: [version, checksum, statements]
  OverrideFiles, \* schema-cloud/*.sql
  Installations, \* where a behaviour starts: the [ledger, objects] there are, the
                 \* services that start, and the bounds [copies, crashes, jobs]
  Jobs           \* recomputations: scripts/recompute_rollups.py

Tables == {"summaries", "metrics"}
Names  == DOMAIN Rows
Days   == {Rows[n].minute \div DayLength : n \in Names}
Pairs  == Tables \X Days

\* The target of a materialized view is a table; raw is spans_raw.
ViewOf(t) == [summaries |-> "summaries_mv", metrics |-> "metrics_mv"][t]
Objects   == {"raw"} \cup Tables \cup {ViewOf(t) : t \in Tables}

\* A name stands for a row that differs from the others in some column.
ASSUME RowsAssumption ==
  /\ IsFiniteSet(Names)
  /\ \A m, n \in Names : Rows[m] = Rows[n] => m = n

ASSUME WarehouseAssumption ==
  /\ DayLength \in Nat \ {0}
  /\ \A n \in Names : Rows[n].version \in Nat /\ Rows[n].minute \in Nat
  /\ \A m, n \in Names :   \* a span keeps its time through a replay
       SameSpan(Rows[m], Rows[n]) => Rows[m].minute = Rows[n].minute

\* The schema files: the objects they create, drop and fill.  A CREATE says IF
\* NOT EXISTS and a DROP says IF EXISTS.
RawSql       == << <<"create", "raw">> >>                                    \* 001
AssemblySql  == << <<"create", "summaries">>, <<"create", "summaries_mv">> >>  \* 004
RollupSql    == << <<"create", "metrics">>, <<"create", "metrics_mv">> >>      \* 012
PartitionSql == << <<"drop", "summaries_mv">>, <<"drop", "summaries">>,
                   <<"create", "summaries">>, <<"create", "summaries_mv">>,
                   <<"backfill", "summaries">> >>                            \* 013

Statements == ({"create", "drop"} \X Objects) \cup ({"backfill"} \X Tables)

Versions(files) == {f.version : f \in files}

\* discover: an override in place of its base file.
Discover == {f \in BaseFiles : f.version \notin Versions(OverrideFiles)} \cup OverrideFiles

Touches(f, o) == \E i \in DOMAIN f.statements : f.statements[i] \in {<<"create", o>>, <<"drop", o>>}

\* A version names one file; what a file drops it creates again; and it fills a
\* table that it has just built anew.
ASSUME FilesAssumption ==
  /\ \A f, g \in Discover : f.version = g.version => f = g
  /\ \A f \in Discover : f.version \in Nat /\ f.statements \in Seq(Statements)
  /\ \A f \in Discover : \A i \in DOMAIN f.statements :
       LET op == f.statements[i][1]
           o  == f.statements[i][2]
       IN  /\ op = "drop" => <<"create", o>> \in {f.statements[k] : k \in i .. Len(f.statements)}
           /\ op = "backfill" =>
                /\ i > 4
                /\ f.statements[i - 4] = <<"drop", ViewOf(o)>>
                /\ f.statements[i - 3] = <<"drop", o>>
                /\ f.statements[i - 2] = <<"create", o>>
                /\ f.statements[i - 1] = <<"create", ViewOf(o)>>

\* Each migration is recorded after those that come before it.
InOrder(applied) ==
  \A e \in applied, f \in Discover : f.version < e.version => f.version \in Versions(applied)

\* A database as these files left it: what only recorded files build is there.
ASSUME InstallationsAssumption ==
  \A found \in Installations :
    /\ found.objects \subseteq Objects
    /\ InOrder(found.ledger)
    /\ \A o \in Objects :
         (\A f \in Discover : Touches(f, o) => f.version \in Versions(found.ledger))
           => o \in found.objects

VARIABLES
  raw,        \* spans_raw
  objects,    \* the tables and materialized views there are
  content,    \* what the rollup tables hold
  ledger,     \* schema_migrations
  runners,    \* the state of each runner
  staging,    \* <table>_recompute: whether it is there, and what it holds
  jobs,       \* the state of each recomputation
  left,       \* how many second copies, crashes and recomputations may still be
  trust,      \* history: how far each table can be trusted on each day
  together    \* history: two runners have worked at the same time

schema  == <<objects, ledger, runners, together>>
scratch == <<staging, jobs>>
vars    == <<raw, content, schema, scratch, left, trust>>

DayOf(n)    == Rows[n].minute \div DayLength
OfDay(S, d) == {n \in S : DayOf(n) = d}
Records(S)  == {Rows[n] : n \in S}
Latest(S)   == {n \in S : Rows[n] \in Newest(Records(S))}
Nothing     == [n \in Names |-> 0]
Plus(f, g)  == [n \in Names |-> f[n] + g[n]]
NoStaging   == [there |-> FALSE, holds |-> Nothing]

Init ==
  /\ \E found \in Installations :
       /\ ledger = found.ledger /\ objects = found.objects /\ left = found.left
       /\ runners = [r \in Runners |-> [stage |-> IF r \in found.services THEN "idle" ELSE "ready"]]
  /\ raw = {} /\ content = [t \in Tables |-> Nothing]
  /\ staging = [t \in Tables |-> NoStaging]
  /\ jobs = [j \in Jobs |-> [stage |-> "idle"]]
  /\ trust = [p \in Pairs |-> "exact"]
  /\ together = FALSE

Applying     == {r \in Runners : runners[r].stage = "applying"}
Busy         == {j \in Jobs : jobs[j].stage # "idle"}
BusyOn(t)    == {j \in Busy : jobs[j].table = t}

-----------------------------------------------------------------------------
(***************************************************************************)
(* MigrationRunner.                                                        *)
(***************************************************************************)

DiscoverRefused == ~ Versions(OverrideFiles) \subseteq Versions(BaseFiles)

Pending(applied) == {f \in Discover : f.version \notin Versions(applied)}

\* Some migration was edited after it was applied.
WasEdited(applied) ==
  \E f \in Discover, e \in applied : e.version = f.version /\ e.checksum # f.checksum

\* mutated: the checksums are not compared.
RefusesOverrides(applied) == DiscoverRefused

Refuses(applied) == DiscoverRefused \/ WasEdited(applied)

\* run, up to its first statement: the ledger is read once.
Run(r) ==
  /\ runners[r].stage = "idle"
  /\ LET todo    == Pending(ledger)
         refused == Refuses(ledger)
         alone   == Applying = {} /\ Busy = {}
     IN  IF refused \/ todo = {}
         THEN /\ runners' = [runners EXCEPT ![r] =
                               [stage |-> IF refused THEN "refused" ELSE "ready"]]
              /\ UNCHANGED <<jobs, together>>
         ELSE /\ runners' = [q \in Runners |->
                   IF q = r THEN [stage |-> "applying", todo |-> todo, at |-> 1,
                                  alone |-> alone, pure |-> FALSE]
                   ELSE IF q \in Applying THEN [runners[q] EXCEPT !.alone = FALSE]
                   ELSE runners[q]]
              /\ jobs' = [j \in Jobs |-> IF j \in Busy THEN [jobs[j] EXCEPT !.alone = FALSE]
                                                      ELSE jobs[j]]
              /\ together' = (together \/ Applying # {})
  /\ UNCHANGED <<raw, content, objects, ledger, staging, left, trust>>

\* Pending migrations are applied in the order of their versions.
Current(r)    == CHOOSE f \in runners[r].todo : \A g \in runners[r].todo : f.version <= g.version
HasNext(r)    == runners[r].stage = "applying" /\ runners[r].at <= Len(Current(r).statements)
Statement(r)  == Current(r).statements[runners[r].at]

\* mutated: a CREATE without IF NOT EXISTS.
ErrsIfThere(op, o) ==
  \/ op = "create" /\ (o \in objects \/ \E t \in Tables : o = ViewOf(t) /\ t \notin objects)
  \/ op = "backfill" /\ o \notin objects

\* A view needs the table it writes to, and a backfill the one it fills.  Left out: a
\* replicated table that is created again before its drop has ended is refused
\* (REPLICA_ALREADY_EXISTS), which ends the process too, until the drop has ended.
Errs(op, o) ==
  \/ op = "create" /\ \E t \in Tables : o = ViewOf(t) /\ t \notin objects
  \/ op = "backfill" /\ o \notin objects

Retrust(t, value) == trust' = [p \in Pairs |-> IF p[1] = t THEN value ELSE trust[p]]

Advanced(runner, pure) == [runner EXCEPT !.at = @ + 1, !.pure = pure]

\* The runner's next statement; one that errs ends the process.
Execute(r) ==
  /\ HasNext(r)
  /\ LET op == Statement(r)[1]
         o  == Statement(r)[2]
     IN  \/ /\ Errs(op, o)
            /\ runners' = [runners EXCEPT ![r] = [stage |-> "idle"]]
            /\ UNCHANGED <<objects, content, trust>>
         \/ /\ ~ Errs(op, o)
            /\ runners' = [runners EXCEPT ![r] = Advanced(runners[r], op = "create")]
            /\ \/ /\ op = "create"
                  /\ objects' = objects \cup {o}
                  /\ UNCHANGED <<content, trust>>
               \/ /\ op = "drop"
                  /\ objects' = objects \ {o}
                  /\ IF o \in Tables
                     THEN content' = [content EXCEPT ![o] = Nothing] /\ Retrust(o, "unknown")
                     ELSE UNCHANGED <<content, trust>>
               \/ /\ op = "backfill"
                  /\ content' = [content EXCEPT ![o] = Plus(@, Once(Latest(raw), Names))]
                  /\ Retrust(o, IF ~ runners[r].alone THEN "unknown"
                                ELSE IF runners[r].pure THEN "exact" ELSE "over")
                  /\ UNCHANGED objects
  /\ UNCHANGED <<raw, ledger, staging, jobs, left, together>>

LedgerRow(f) == [version |-> f.version, checksum |-> f.checksum]

\* On to the next migration, or the service goes on with its work.
Proceed(r) ==
  LET rest == runners[r].todo \ {Current(r)}
  IN  runners' = [runners EXCEPT ![r] = IF rest = {} THEN [stage |-> "ready"]
                                        ELSE [@ EXCEPT !.todo = rest, !.at = 1]]

\* mutated: the migration is recorded before its statements.
RecordFirst(r) ==
  /\ runners[r].stage = "applying"
  /\ \/ /\ runners[r].at = 1
        /\ ledger' = ledger \cup {LedgerRow(Current(r))}
        /\ UNCHANGED runners
     \/ /\ ~ HasNext(r)
        /\ Proceed(r)
        /\ UNCHANGED ledger
  /\ UNCHANGED <<raw, content, objects, scratch, left, trust, together>>

\* Its statements done, the migration is recorded.
Record(r) ==
  /\ runners[r].stage = "applying" /\ ~ HasNext(r)
  /\ ledger' = ledger \cup {LedgerRow(Current(r))}
  /\ Proceed(r)
  /\ UNCHANGED <<raw, content, objects, scratch, left, trust, together>>

\* The process dies between two statements, and is started again.
Dies(r) ==
  /\ runners[r].stage = "applying" /\ left.crashes > 0
  /\ left' = [left EXCEPT !.crashes = @ - 1]
  /\ runners' = [runners EXCEPT ![r] = [stage |-> "idle"]]
  /\ UNCHANGED <<raw, content, objects, ledger, scratch, trust, together>>

-----------------------------------------------------------------------------
(***************************************************************************)
(* The normalizers' inserts, and the materialized views.                   *)
(***************************************************************************)

Versioned(row) == {n \in raw : SameSpan(Rows[n], Rows[row])}

\* Table t, or the recomputation of its day d, does not see a row that arrives now.
Misses(t, d) ==
  \/ ViewOf(t) \notin objects
  \/ \E j \in BusyOn(t) : jobs[j].stage = "filled" /\ jobs[j].day = d

\* What is known of table t on day d once the row is inserted.
TrustAfter(t, d, row) ==
  LET known == trust[<<t, d>>]
  IN  IF known = "unknown" \/ DayOf(row) # d THEN known
      ELSE IF Misses(t, d) THEN "unknown"
      ELSE IF Versioned(row) # {} THEN "over" ELSE known

\* A row reaches spans_raw, and each view that is there adds it to its table, as one
\* step (a retried insert is deduplicated in the views too): new, a replay of a span, or
\* the same row in a batch with another token.
Insert(row) ==
  /\ "raw" \in objects
  /\ \A t \in Tables : ViewOf(t) \in objects => t \in objects
  /\ row \in raw => left.copies > 0
  /\ raw' = raw \cup {row}
  /\ left' = [left EXCEPT !.copies = IF row \in raw THEN @ - 1 ELSE @]
  /\ content' = [t \in Tables |-> IF ViewOf(t) \in objects
                                  THEN [content[t] EXCEPT ![row] = @ + 1] ELSE content[t]]
  /\ trust' = [p \in Pairs |-> TrustAfter(p[1], p[2], row)]
  /\ runners' = [r \in Runners |-> IF r \in Applying THEN [runners[r] EXCEPT !.pure = FALSE]
                                   ELSE runners[r]]
  /\ jobs' = [j \in Jobs |-> IF j \in Busy /\ jobs[j].day = DayOf(row)
                             THEN [jobs[j] EXCEPT !.pure = FALSE] ELSE jobs[j]]
  /\ UNCHANGED <<objects, ledger, staging, together>>

-----------------------------------------------------------------------------
(***************************************************************************)
(* RollupRecomputer.recompute_table.                                       *)
(***************************************************************************)

At(j, stage) == jobs[j].stage = stage

\* DROP TABLE IF EXISTS, of the table whose name every recomputation shares.
Start(j, t, d) ==
  /\ At(j, "idle") /\ left.jobs > 0
  /\ left' = [left EXCEPT !.jobs = @ - 1]
  /\ staging' = [staging EXCEPT ![t] = NoStaging]
  /\ LET alone == BusyOn(t) = {} /\ Applying = {}
     IN  /\ jobs' = [i \in Jobs |->
              IF i = j THEN [stage |-> "dropped", table |-> t, day |-> d,
                             alone |-> alone, pure |-> FALSE]
              ELSE IF i \in BusyOn(t) THEN [jobs[i] EXCEPT !.alone = FALSE] ELSE jobs[i]]
         /\ runners' = [r \in Runners |-> IF r \in Applying THEN [runners[r] EXCEPT !.alone = FALSE]
                                          ELSE runners[r]]
  /\ UNCHANGED <<raw, content, objects, ledger, trust, together>>

Move(j, stage) == jobs' = [jobs EXCEPT ![j].stage = stage]
Leave(j)       == jobs' = [jobs EXCEPT ![j] = [stage |-> "idle"]]

\* CREATE TABLE ... AS: an error here is not followed by the DROP of the finally.
Create(j) ==
  /\ At(j, "dropped")
  /\ LET t == jobs[j].table
     IN  IF staging[t].there \/ t \notin objects THEN Leave(j) /\ UNCHANGED staging
         ELSE Move(j, "created") /\ staging' = [staging EXCEPT ![t].there = TRUE]
  /\ UNCHANGED <<raw, content, schema, left, trust>>

\* INSERT ... SELECT of the day's latest spans.
Fill(j) ==
  /\ At(j, "created")
  /\ LET t == jobs[j].table
     IN  IF staging[t].there
         THEN /\ jobs' = [jobs EXCEPT ![j].stage = "filled", ![j].pure = TRUE]
              /\ staging' = [staging EXCEPT ![t].holds =
                              Plus(@, Once(Latest(OfDay(raw, jobs[j].day)), Names))]
         ELSE Move(j, "ending") /\ UNCHANGED staging
  /\ UNCHANGED <<raw, content, schema, left, trust>>

\* mutated: the whole table is replaced, not the partition of the day.
ReplaceTable(j) ==
  /\ At(j, "filled")
  /\ LET t == jobs[j].table
     IN  IF staging[t].there /\ t \in objects
         THEN /\ content' = [content EXCEPT ![t] = staging[t].holds]
              /\ trust' = [trust EXCEPT ![<<t, jobs[j].day>>] =
                            IF jobs[j].alone /\ jobs[j].pure THEN "exact" ELSE "unknown"]
         ELSE UNCHANGED <<content, trust>>
  /\ Move(j, "ending")
  /\ UNCHANGED <<raw, schema, staging, left>>

\* ALTER TABLE ... REPLACE PARTITION, atomic for the readers.
Replace(j) ==
  /\ At(j, "filled")
  /\ LET t == jobs[j].table
     IN  IF staging[t].there /\ t \in objects
         THEN /\ content' = [content EXCEPT ![t] = [n \in Names |->
                              IF DayOf(n) = jobs[j].day THEN staging[t].holds[n] ELSE @[n]]]
              /\ trust' = [trust EXCEPT ![<<t, jobs[j].day>>] =
                            IF jobs[j].alone /\ jobs[j].pure THEN "exact" ELSE "unknown"]
         ELSE UNCHANGED <<content, trust>>
  /\ Move(j, "ending")
  /\ UNCHANGED <<raw, schema, staging, left>>

\* The DROP of the finally.
End(j) ==
  /\ At(j, "ending")
  /\ staging' = [staging EXCEPT ![jobs[j].table] = NoStaging]
  /\ Leave(j)
  /\ UNCHANGED <<raw, content, schema, left, trust>>

\* The script is killed: its staging table stays.
Killed(j) ==
  /\ j \in Busy /\ left.crashes > 0
  /\ left' = [left EXCEPT !.crashes = @ - 1]
  /\ Leave(j)
  /\ UNCHANGED <<raw, content, schema, staging, trust>>

-----------------------------------------------------------------------------
RunnerStep(r) == Run(r) \/ Execute(r) \/ Record(r)
JobStep(j)    == Create(j) \/ Fill(j) \/ Replace(j) \/ End(j)

Next ==
  \/ \E r \in Runners : RunnerStep(r) \/ Dies(r)
  \/ \E row \in Names : Insert(row)
  \/ \E j \in Jobs : JobStep(j) \/ Killed(j) \/ \E t \in Tables, d \in Days : Start(j, t, d)

\* A service that died is started again and runs its migrations to the end.
Fairness == \A r \in Runners : WF_vars(RunnerStep(r))

Spec == Init /\ [][Next]_vars /\ Fairness

-----------------------------------------------------------------------------
(***************************************************************************)
(* Properties.                                                             *)
(***************************************************************************)

\* The types of the variables.
TypeOK ==
  /\ raw \subseteq Names
  /\ objects \subseteq Objects
  /\ \A t \in Tables, n \in Names : content[t][n] \in Nat /\ staging[t].holds[n] \in Nat
  /\ \A r \in Runners : runners[r].stage \in {"idle", "applying", "ready", "refused"}
  /\ \A j \in Jobs : jobs[j].stage \in {"idle", "dropped", "created", "filled", "ending"}
  /\ trust \in [Pairs -> {"exact", "over", "unknown"}]

\* The rows that should count: no later version of their span has been inserted.
ShouldCount == {n \in raw : ~ \E m \in raw : SameSpan(Rows[m], Rows[n])
                                               /\ Rows[m].version > Rows[n].version}

\* A rollup table counts every span of a day exactly once, as its latest version
\* has it, after a recomputation or the backfill of 013 that nothing ran into,
\* and until a replay: whatever was inserted, killed or left behind before
\* (recompute_rollups.py recompute_table, 013_trace_summaries_partitioned.sql).
RollupsExact ==
  LET due == ShouldCount
  IN  \A p \in Pairs : trust[p] = "exact" =>
        \A n \in OfDay(Names, p[2]) : content[p[1]][n] = IF n \in due THEN 1 ELSE 0

\* A replay or a second copy of a row only adds: until a row arrives where no view
\* or a recomputation misses it, no span that is there goes uncounted (012's
\* "a replay ADDS to these counters", verify.py E1a).
DriftIsUpward ==
  \A p \in Pairs : trust[p] = "over" =>
    \A n \in OfDay(ShouldCount, p[2]) : content[p[1]][n] >= 1

\* What /overview and /servers make of a table is what a count over the rows due is.
Shows(table, due, tenant, since) ==
  LET S     == {r \in due : r.tenant = tenant /\ r.minute >= since}
      seen  == Overview(table, tenant, since)
      calls == {r \in S : r.method = "tools/call"}
  IN  /\ seen.calls = Cardinality(calls)
      /\ seen.errors = Cardinality({r \in calls : r.error})
      /\ seen.servers = Cardinality({r.service : r \in S})
      /\ seen.tools = Cardinality({r.tool : r \in S} \ {""})
      /\ \A c \in FailureCategories :
           seen.breakdown[c] = Cardinality({r \in S : r.category = c})
      /\ seen.latency = Latency(Once({r \in calls : r.eligible}, calls))
      /\ seen.helper <= seen.failed
      /\ \A server \in Servers(table, tenant, since) :
           /\ server.calls = Cardinality({r \in calls : r.service = server.server})
           /\ server.last = Max({r.minute : r \in {q \in S : q.service = server.server}})

\* While the rollup is exact, /overview shows what a count over the latest spans
\* themselves would, and /servers of each server the calls and the last minute
\* (repository.py overview and servers, verify.py E2).
OverviewMatchesRaw ==
  (\A d \in Days : trust[<<"metrics", d>>] = "exact") =>
    LET table == [r \in Records(Names) |-> content["metrics"][CHOOSE n \in Names : Rows[n] = r]]
    IN  \A tenant \in {r.tenant : r \in Records(Names)},
           since \in {r.minute : r \in Records(Names)} :
             Shows(table, Records(ShouldCount), tenant, since)

\* When every migration is recorded, everything they build is there, wherever
\* runners died: provided that no two of them worked at the same time
\* (migrations.py run).
SchemaComplete ==
  ~ together /\ Pending(ledger) = {} => objects = Objects

\* A migration is recorded only after all that come before it, even when two
\* runners work at the same time (migrations.py run, discover).
AppliedInOrder == InOrder(ledger)

\* While an applied migration has been edited, no runner changes the schema
\* (migrations.py run).
EditedStopsAll ==
  [][WasEdited(ledger) => UNCHANGED <<objects, ledger>>]_vars

\* A runner ends, with every migration recorded or refusing to go on: one that died
\* in the middle of a file can run it again.  Two at the same time may make each
\* other's statements err for ever (migrations.py run).
Migrated ==
  \A r \in Runners :
    <>(\/ together
       \/ runners[r].stage = "refused"
       \/ runners[r].stage = "ready" /\ Pending(ledger) = {})

\* The ledger never runs ahead of the schema, nor out of order.
SchemaInOrder ==
  /\ TypeOK
  /\ SchemaComplete
  /\ AppliedInOrder
=============================================================================
