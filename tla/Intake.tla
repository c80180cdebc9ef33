------------------------------- MODULE Intake -------------------------------
(***************************************************************************)
(* The ingest gateway: a body of spans is authenticated, counted against   *)
(* its tenant's limits, stamped, and stored in-process (lite mode) or      *)
(* forwarded to the Collector; only then is it answered 200                *)
(* (src/ingest/app.py, src/ingest/direct_intake.py, src/control/quota.py). *)
(*                                                                         *)
(* One tenant, several gateway processes.  A handler blocks its process,   *)
(* so a process handles one request at a time; what two processes do       *)
(* interleaves between any two calls to the counters or the store.  The    *)
(* exporter posts a body again until it is told that it was taken or never *)
(* will be, perhaps while an earlier post of it is still being handled.    *)
(* Redis, ClickHouse, the Collector and the exporter are external.         *)
(***************************************************************************)
EXTENDS Integers, Sequences, FiniteSets, Functions

CONSTANTS
    Gateways,       \* gateway processes
    Shared,         \* the counters in Redis, as opposed to a process's own
    Payloads,       \* what a body may carry: [parses, good, bad]
    LimitMinute,    \* spans per minute, 0 for no limit
    LimitDay,       \* spans per day, 0 for no limit
    Lites,          \* values of MCPOBS_LITE to check
    MaxBodies,      \* bound: bodies
    MaxPosts,       \* bound: posts
    MaxMinute,      \* bound: the last minute, and the last day
    MaxFaults       \* bound: how often something goes wrong

ASSUME GatewaysAssumption == IsFiniteSet(Gateways)
ASSUME SharedAssumption == Shared \notin Gateways
ASSUME PayloadsAssumption == Payloads \subseteq [parses : BOOLEAN, good : Nat, bad : Nat]
ASSUME LimitsAssumption == LimitMinute \in Nat /\ LimitDay \in Nat
ASSUME LitesAssumption == Lites \subseteq BOOLEAN
ASSUME BoundsAssumption ==
    MaxBodies \in Nat /\ MaxPosts \in Nat /\ MaxMinute \in Nat /\ MaxFaults \in Nat

VARIABLES
    lite,           \* LITE_MODE
    now,            \* the clock: the minute [m] and the day [d] it is
    bodies,         \* the bodies the exporter has made so far
    settled,        \* bodies it posts no more
    posts,          \* posts so far, for the bound only
    call,           \* what the handler of each process is doing
    used,           \* the counters
    copies,         \* how often spans_raw holds the rows of a stamped body
    dead,           \* rows of ingest_dead_letter
    forwarded,      \* how often the Collector has taken a body
    acked,          \* bodies answered 200
    checked,        \* spans ruled upon, per window
    allowed,        \* spans let through, per window
    crashes,        \* crashes so far
    faults          \* faults so far, for the bound only

clientVars == <<bodies, settled, posts>>
quotaVars == <<used, checked, allowed>>
storeVars == <<copies, dead, forwarded>>
vars == <<lite, now, clientVars, call, quotaVars, storeVars, acked, crashes, faults>>

Clock == [m : 0 .. MaxMinute, d : 0 .. MaxMinute]
Phase == {"idle", "minute", "day", "store", "collector"}
Counters == Gateways \cup {Shared}
Windows == {"m", "d"} \X (0 .. MaxMinute)
(* The locals of a handler: where it is, the body, the clock as check read *)
(* it, the total incr returned for the minute, verdict.soft_exceeded.      *)
Call == [pc : Phase, body : 0 .. MaxBodies, at : Clock, inMinute : Nat, soft : BOOLEAN]
NoCall == [pc |-> "idle", body |-> 0, at |-> [m |-> 0, d |-> 0], inMinute |-> 0, soft |-> FALSE]
NoCounts == [w \in Windows |-> 0]
(* A stamped body: the body, and whether the soft-quota attribute is on it.*)
Stamped == (1 .. MaxBodies) \X BOOLEAN
-----------------------------------------------------------------------------
Fails == faults < MaxFaults /\ faults' = faults + 1

Payload(g) == bodies[call[g].body]

(* _count_spans *)
SpanCount(m) == m.good + m.bad

(* The keys of the two counters a request is counted in.                   *)
MinuteOf(g) == <<"m", call[g].at.m>>
DayOf(g) == <<"d", call[g].at.d>>

(* An answer reaches the exporter, or it is lost; a final one settles.     *)
Answer(g, final) ==
    /\ call' = [call EXCEPT ![g] = NoCall]
    /\ settled' \in {settled, IF final THEN settled \cup {call[g].body} ELSE settled}
-----------------------------------------------------------------------------
NewBody ==
    /\ Len(bodies) < MaxBodies
    /\ \E m \in Payloads : bodies' = Append(bodies, m)
    /\ UNCHANGED <<lite, now, settled, posts, call, quotaVars, storeVars,
                   acked, crashes, faults>>

(* A new minute, which may be the first of a day.                          *)
MinuteTurns ==
    /\ now.m < MaxMinute
    /\ \E d \in {now.d, now.d + 1} : now' = [m |-> now.m + 1, d |-> d]
    /\ UNCHANGED <<lite, clientVars, call, quotaVars, storeVars, acked, crashes, faults>>

AfterQuota == IF lite THEN "store" ELSE "collector"

FirstPhase(m) ==
    IF SpanCount(m) = 0 \/ (LimitMinute = 0 /\ LimitDay = 0) THEN AfterQuota ELSE "minute"

(* traces, up to the quota check.  A body that does not parse is answered  *)
(* 400; one without spans or limits is allowed without counting.           *)
Post(g) ==
    /\ call[g].pc = "idle"
    /\ posts < MaxPosts /\ posts' = posts + 1
    /\ \E r \in DOMAIN bodies \ settled :
        IF bodies[r].parses
        THEN /\ call' = [call EXCEPT ![g] = [pc |-> FirstPhase(bodies[r]), body |-> r, at |-> now,
                                          inMinute |-> 0, soft |-> FALSE]]
             /\ UNCHANGED settled
        ELSE UNCHANGED call /\ settled' \in {settled, settled \cup {r}}
    /\ UNCHANGED <<lite, now, bodies, quotaVars, storeVars, acked, crashes, faults>>

LimitOf(w) == IF w[1] = "m" THEN LimitMinute ELSE LimitDay

Plus(counters, c, w, n) == [counters EXCEPT ![c][w] = @ + n]

TotalBefore(counter, n) == counter  \* mutated: the count before this request

(* What incr returns of a counter.                                         *)
Total(counter, n) == counter + n

(* incr: in the shared counter, or in the process's own if Redis does not  *)
(* answer; it may have counted all the same.                               *)
CountIn(c, g, w) ==
    LET n == SpanCount(Payload(g))
    IN  IF c = Shared THEN used' = Plus(used, Shared, w, n) /\ UNCHANGED faults
        ELSE /\ Fails
             /\ \E reached \in {used, Plus(used, Shared, w, n)} : used' = Plus(reached, c, w, n)

CountMinute(g) ==
    /\ call[g].pc = "minute"
    /\ \E c \in {Shared, g} :
        /\ CountIn(c, g, MinuteOf(g))
        /\ call' = [call EXCEPT ![g].pc = "day",
                                ![g].inMinute = Total(used[c][MinuteOf(g)], SpanCount(Payload(g)))]
    /\ UNCHANGED <<lite, now, clientVars, checked, allowed, storeVars, acked, crashes>>

(* 0 is no limit.                                                          *)
Over(count, limit) == limit > 0 /\ count > limit

(* Above SOFT_FRACTION of a limit.                                         *)
Soft(count, limit) == limit > 0 /\ 10 * count > 8 * limit

(* What check says when the two counters have said so much.                *)
Rejected(inMinute, inDay) == Over(inMinute, LimitMinute) \/ Over(inDay, LimitDay)

(* The day is counted and the request ruled upon: 429, or it is let through*)
(* and stamped.                                                            *)
CountDay(g) ==
    LET n == SpanCount(Payload(g))
        Charge(counts) == [counts EXCEPT ![MinuteOf(g)] = @ + n, ![DayOf(g)] = @ + n]
        inMinute == call[g].inMinute
    IN  /\ call[g].pc = "day"
        /\ checked' = Charge(checked)
        /\ \E c \in {Shared, g} :
            LET inDay == Total(used[c][DayOf(g)], n)
            IN  /\ CountIn(c, g, DayOf(g))
                /\ \/ Rejected(inMinute, inDay) /\ Answer(g, FALSE) /\ UNCHANGED allowed
                   \/ /\ ~Rejected(inMinute, inDay)
                      /\ allowed' = Charge(allowed)
                      /\ call' = [call EXCEPT ![g].pc = AfterQuota,
                                    ![g].soft = \/ Soft(inMinute, LimitMinute)
                                               \/ Soft(inDay, LimitDay)]
                      /\ UNCHANGED settled
        /\ UNCHANGED <<lite, now, bodies, posts, storeVars, acked, crashes>>

(* _dead_letter, once per span that does not normalise; a refusal is logged.*)
DeadLetter(g) ==
    \/ dead' = dead + Payload(g).bad /\ UNCHANGED faults
    \/ Payload(g).bad > 0 /\ Fails /\ \E n \in 0 .. Payload(g).bad - 1 : dead' = dead + n

InsertedAnew(s) ==      \* mutated: no deduplication token
    [copies EXCEPT ![s] = @ + 1]

(* insert_spans: ClickHouse drops a block whose token it has seen.  The    *)
(* token is a hash of the stamped bytes.                                   *)
Inserted(s) == IF copies[s] > 0 THEN copies ELSE [copies EXCEPT ![s] = @ + 1]

(* DirectIntake.ingest; without rows nothing is inserted.                  *)
Store(g) ==
    /\ call[g].pc = "store"
    /\ DeadLetter(g)
    /\ copies' = IF Payload(g).good = 0 THEN copies ELSE Inserted(<<call[g].body, call[g].soft>>)
    /\ acked' = acked \cup {call[g].body}
    /\ Answer(g, TRUE)
    /\ UNCHANGED <<lite, now, bodies, posts, quotaVars, forwarded, crashes>>

AckedAnyway(g) == acked \cup {call[g].body}      \* mutated: a failed insert is answered 200

AckedAfterError(g) == acked

(* insert_spans raises, perhaps after it took effect: 503.                 *)
StoreError(g) ==
    /\ call[g].pc = "store" /\ Payload(g).good > 0
    /\ Fails
    /\ dead' = dead + Payload(g).bad
    /\ copies' \in {copies, Inserted(<<call[g].body, call[g].soft>>)}
    /\ acked' = AckedAfterError(g)
    /\ Answer(g, FALSE)
    /\ UNCHANGED <<lite, now, bodies, posts, quotaVars, forwarded, crashes>>

Forwarded(g) == [forwarded EXCEPT ![call[g].body] = @ + 1]

(* The Collector's status is passed on: it took the body.                  *)
Forward(g) ==
    /\ call[g].pc = "collector"
    /\ forwarded' = Forwarded(g)
    /\ acked' = acked \cup {call[g].body}
    /\ Answer(g, TRUE)
    /\ UNCHANGED <<lite, now, bodies, posts, quotaVars, copies, dead, crashes, faults>>

(* It refuses, or the request to it fails, perhaps after it was taken: 503.*)
ForwardError(g) ==
    /\ call[g].pc = "collector"
    /\ Fails
    /\ forwarded' \in {forwarded, Forwarded(g)}
    /\ acked' = AckedAfterError(g)
    /\ Answer(g, FALSE)
    /\ UNCHANGED <<lite, now, bodies, posts, quotaVars, copies, dead, crashes>>

(* A process dies and is started again; its own counters are gone.         *)
Crash(g) ==
    /\ Fails
    /\ crashes' = crashes + 1
    /\ used' = [used EXCEPT ![g] = NoCounts]
    /\ call' = [call EXCEPT ![g] = NoCall]
    /\ UNCHANGED <<lite, now, clientVars, checked, allowed, storeVars,
                   acked>>
-----------------------------------------------------------------------------
Init ==
    /\ lite \in Lites
    /\ now = [m |-> 0, d |-> 0]
    /\ bodies = <<>> /\ settled = {} /\ posts = 0
    /\ call = [g \in Gateways |-> NoCall]
    /\ used = [c \in Counters |-> NoCounts]
    /\ copies = [s \in Stamped |-> 0]
    /\ dead = 0
    /\ forwarded = [r \in 1 .. MaxBodies |-> 0]
    /\ acked = {}
    /\ checked = NoCounts /\ allowed = NoCounts
    /\ crashes = 0 /\ faults = 0

Next ==
    \/ NewBody \/ MinuteTurns
    \/ \E g \in Gateways :
        \/ Post(g) \/ CountMinute(g) \/ CountDay(g)
        \/ Store(g) \/ StoreError(g) \/ Forward(g) \/ ForwardError(g)
        \/ Crash(g)

Spec == Init /\ [][Next]_vars
-----------------------------------------------------------------------------
(* What must hold *)

(* TypeOK: every variable has its type (QuotaStore, Verdict, the handler). *)
TypeOK ==
    /\ lite \in Lites
    /\ now \in Clock /\ now.d <= now.m
    /\ bodies \in Seq(Payloads) /\ Len(bodies) <= MaxBodies
    /\ settled \in SUBSET (1 .. MaxBodies)
    /\ posts \in Nat
    /\ call \in [Gateways -> Call]
    /\ \A g \in Gateways :
        /\ call[g].pc # "idle" => call[g].body \in 1 .. Len(bodies)
        /\ call[g].pc = "store" => lite
        /\ call[g].pc = "collector" => ~lite
    /\ used \in [Counters -> [Windows -> Nat]]
    /\ copies \in [Stamped -> Nat]
    /\ dead \in Nat
    /\ forwarded \in [1 .. MaxBodies -> Nat]
    /\ acked \in SUBSET (1 .. Len(bodies))
    /\ checked \in [Windows -> Nat] /\ allowed \in [Windows -> Nat]
    /\ crashes \in Nat /\ faults \in Nat

(* AckedStored: a body that was answered 200 has its rows in spans_raw, or *)
(* was taken by the Collector, whatever failed, was repeated or crashed    *)
(* ("never ack data we might drop").                                       *)
AckedStored ==
    \A r \in acked :
        IF lite THEN bodies[r].good > 0 => \E b \in BOOLEAN : copies[<<r, b>>] > 0
        ELSE forwarded[r] > 0

(* FleetLimit: what is let through in a window is within the limit for     *)
(* every counter that had a part in it: the shared one alone while Redis   *)
(* answers, one more for each process (and each restart) counting alone.   *)
FleetLimit ==
    \A w \in Windows :
        LimitOf(w) > 0 =>
            allowed[w] <= LimitOf(w) * (Cardinality({c \in Counters : used[c][w] > 0}) + crashes)

(* CountersSeeAll: whatever was ruled upon is in some counter, rejected or *)
(* not ("Counts BEFORE deciding": a rejected burst is visible).            *)
CountersSeeAll ==
    crashes = 0 =>
        \A w \in Windows : checked[w] <= SumFunction([c \in Counters |-> used[c][w]])

SoftSomewhere == \E c \in Counters, w \in Windows : Soft(used[c][w], LimitOf(w))

(* TwiceOnlyAcrossSoft: however often a body is posted, and by how many    *)
(* processes it is handled at a time, its rows are stored once for each    *)
(* form in which it was stamped, and in both forms only if some counter    *)
(* passed the soft fraction of a limit: the retry alone stores nothing.    *)
TwiceOnlyAcrossSoft ==
    \A r \in 1 .. MaxBodies :
        /\ \A b \in BOOLEAN : copies[<<r, b>>] <= 1
        /\ (crashes = 0 /\ copies[<<r, TRUE>>] > 0) => SoftSomewhere

(* CountersHold: the counters let through no more than their limits, and   *)
(* miss nothing that was ruled upon.                                       *)
CountersHold ==
    /\ TypeOK
    /\ FleetLimit
    /\ CountersSeeAll
=============================================================================
