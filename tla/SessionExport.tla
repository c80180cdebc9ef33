---------------------------- MODULE SessionExport ----------------------------
(***************************************************************************)
(* The Python SDK's exporter and the session it exports with: a token is   *)
(* fetched and refreshed under a lock, spans are held while there is none, *)
(* a failed export drops the token (src/mcpobs/session.py,                 *)
(* src/mcpobs/exporter.py).                                                *)
(*                                                                         *)
(* Two threads: OpenTelemetry's background thread calls export, one batch  *)
(* at a time; another may call force_flush at any moment.  They share the  *)
(* session, the held spans and the request headers.  Spans are numbered in *)
(* the order in which they are handed over.  The monotonic clock is a      *)
(* small counter that may advance between any two steps.  The session      *)
(* endpoint and the gateway are external.                                  *)
(***************************************************************************)
EXTENDS Integers, Sequences, FiniteSets, Functions, FiniteSetsExt

CONSTANTS
    Flushes,        \* whether anyone calls force_flush: the cases to consider
    MaxPending,     \* MAX_PENDING_SPANS
    Ttl,            \* expires_in of every token
    RefreshAfter,   \* ages at which a token may be due for refresh (jitter)
    MinRetry,       \* MIN_RETRY_SECONDS
    MaxRetry,       \* MAX_RETRY_SECONDS
    BatchSizes,     \* how many spans export may be handed at once
    MaxSpans,       \* bound: spans handed over
    MaxTime,        \* bound: readings of the clock
    MaxTokens,      \* bound: tokens fetched
    MaxFaults       \* bound: failed fetches, failed requests, revocations

ASSUME FlushesAssumption == Flushes \subseteq BOOLEAN
ASSUME PendingAssumption == MaxPending \in Nat
ASSUME TtlAssumption == Ttl \in Nat \ {0} /\ RefreshAfter \subseteq 0 .. Ttl - 1
ASSUME RetryAssumption == MinRetry \in Nat /\ MaxRetry \in Nat
ASSUME BatchAssumption == BatchSizes \subseteq Nat \ {0}
ASSUME BoundsAssumption ==
    MaxSpans \in Nat /\ MaxTime \in Nat /\ MaxTokens \in Nat /\ MaxFaults \in Nat

VARIABLES
    now,            \* time.monotonic()
    (* SessionProvider *)
    session,        \* self._session, or NoSession
    failures,       \* self._failures
    nextAttempt,    \* self._next_attempt
    (* SessionSpanExporter *)
    pending,        \* self._pending
    dropped,        \* self._dropped
    header,         \* the x-api-key of the shared requests session
    (* the two threads *)
    flushes,        \* whether anyone calls force_flush in this behaviour
    pc,             \* where each thread is
    batch,          \* the spans it has in hand
    started,        \* the clock as its call of current() read it
    got,            \* what its call of current() returned
    carried,        \* the token its last request carried
    (* outside *)
    handed,         \* spans handed to export so far
    delivered,      \* spans the gateway has taken
    failed,         \* spans whose export returned FAILURE
    said,           \* spans whose loss was reported on stderr
    minted,         \* when each token issued by the session endpoint expires
    revoked,        \* tokens the gateway no longer takes
    refused,        \* tokens refused to export, in the order of the refusals
    faults          \* faults so far, for the bound only

providerVars == <<session, failures, nextAttempt>>
bufferVars == <<pending, dropped, said>>
callVars == <<started, got>>
gatewayVars == <<delivered, failed, carried, refused>>
vars == <<now, providerVars, bufferVars, header, pc, batch, callVars,
          gatewayVars, handed, minted, revoked, faults, flushes>>

Threads == {"exporter", "flusher"}
Phase == {"idle", "current", "fetching", "got", "sending", "invalidate"}
Token == Nat    \* 0: no token yet
Session == [token : Token, refreshAt : Nat, expiresAt : Nat]
NoSession == [token |-> 0, refreshAt |-> 0, expiresAt |-> 0]
-----------------------------------------------------------------------------
Lesser(a, b) == IF a <= b THEN a ELSE b

Goto(t, phase) == pc' = [pc EXCEPT ![t] = phase]

Fails == faults < MaxFaults /\ faults' = faults + 1

Tick ==
    /\ now < MaxTime
    /\ now' = now + 1
    /\ UNCHANGED <<providerVars, bufferVars, header, pc, batch, callVars,
                   gatewayVars, handed, minted, revoked, faults>>

(* The signing key is rotated or the customer ends the session.            *)
Revoke ==
    /\ Fails
    /\ \E tok \in DOMAIN minted \ revoked : revoked' = revoked \cup {tok}
    /\ UNCHANGED <<now, providerVars, bufferVars, header, pc, batch, callVars,
                   gatewayVars, handed, minted>>
-----------------------------------------------------------------------------
(* SessionProvider.  Its lock is held by a thread that fetches.            *)

Unlocked == \A t \in Threads : pc[t] # "fetching"

ServableYoung(at) ==    \* mutated: a failed refresh discards the token
    IF at < session.refreshAt THEN session ELSE NoSession

(* The session, unless it had expired at the given time.                   *)
Servable(at) == IF at < session.expiresAt THEN session ELSE NoSession

NeedsFetch == now >= session.refreshAt /\ now >= nextAttempt

(* current(), when the token is young or a failed fetch is backed off.     *)
CurrentServes(t) ==
    /\ pc[t] = "current" /\ Unlocked
    /\ ~NeedsFetch
    /\ got' = [got EXCEPT ![t] = Servable(now)]
    /\ Goto(t, "got")
    /\ UNCHANGED <<now, providerVars, bufferVars, header, batch, started,
                   gatewayVars, handed, minted, revoked, faults>>

CurrentDropsFirst(t) == \* mutated: the old token is dropped when its refresh starts
    /\ pc[t] = "current" /\ Unlocked
    /\ NeedsFetch
    /\ session' = NoSession
    /\ started' = [started EXCEPT ![t] = now]
    /\ Goto(t, "fetching")
    /\ UNCHANGED <<now, failures, nextAttempt, bufferVars, header, batch, got,
                   gatewayVars, handed, minted, revoked, faults>>

(* current(), when it has to fetch: the lock is kept meanwhile.            *)
CurrentFetches(t) ==
    /\ pc[t] = "current" /\ Unlocked
    /\ NeedsFetch
    /\ started' = [started EXCEPT ![t] = now]
    /\ Goto(t, "fetching")
    /\ UNCHANGED <<now, providerVars, bufferVars, header, batch, got,
                   gatewayVars, handed, minted, revoked, faults>>

(* _build: the deadlines count from the arrival of the response.           *)
Build(tok, age) == [token |-> tok, refreshAt |-> now + age, expiresAt |-> now + Ttl]

FetchSucceeds(t) ==
    /\ pc[t] = "fetching"
    /\ Len(minted) < MaxTokens
    /\ minted' = Append(minted, now + Ttl)
    /\ \E age \in RefreshAfter : session' = Build(Len(minted'), age)
    /\ failures' = 0 /\ nextAttempt' = 0
    /\ got' = [got EXCEPT ![t] = session']
    /\ Goto(t, "got")
    /\ UNCHANGED <<now, bufferVars, header, batch, started, gatewayVars,
                   handed, revoked, faults>>

PowersOfTwo == <<2, 4, 8, 16, 32, 64>>

Backoff(n) == Lesser(MaxRetry, MinRetry * PowersOfTwo[Lesser(n, 6)])

(* The old session is served on, judged by the clock read before the fetch.*)
FetchFails(t) ==
    /\ pc[t] = "fetching"
    /\ Fails
    /\ failures' = failures + 1
    /\ nextAttempt' = now + Backoff(failures')
    /\ got' = [got EXCEPT ![t] = Servable(started[t])]
    /\ Goto(t, "got")
    /\ UNCHANGED <<now, session, bufferVars, header, batch, started,
                   gatewayVars, handed, minted, revoked>>
-----------------------------------------------------------------------------
(* SessionSpanExporter *)

(* OpenTelemetry's thread has collected a batch and calls export.          *)
ExportCalled ==
    /\ pc["exporter"] = "idle"
    /\ \E n \in BatchSizes :
        /\ handed + n <= MaxSpans
        /\ handed' = handed + n
        /\ batch' = [batch EXCEPT !["exporter"] = handed + 1 .. handed + n]
    /\ Goto("exporter", "current")
    /\ UNCHANGED <<now, providerVars, bufferVars, header, callVars, gatewayVars,
                   minted, revoked, faults>>

(* What stays of the held spans once the oldest over the limit are deleted.*)
Newest(spans) ==
    {s \in spans : Cardinality({r \in spans : r > s}) < MaxPending}

OverflowForgotten(held) == 0    \* mutated: deleted and not counted

Overflow(held) == Cardinality(held \ Newest(held))

(* _hold: no token, the batch is kept for later.                           *)
Hold ==
    LET held == pending \cup batch["exporter"]
    IN  /\ pc["exporter"] = "got" /\ got["exporter"] = NoSession
        /\ pending' = Newest(held)
        /\ dropped' = dropped + Overflow(held)
        /\ batch' = [batch EXCEPT !["exporter"] = {}]
        /\ Goto("exporter", "idle")
        /\ UNCHANGED <<now, providerVars, said, header, callVars, gatewayVars,
                       handed, minted, revoked, faults>>

(* The header is set and _drain joins the held spans to the batch.  The    *)
(* count of dropped ones is reported only if there is something to drain.  *)
Drain ==
    /\ pc["exporter"] = "got" /\ got["exporter"] # NoSession
    /\ header' = got["exporter"].token
    /\ batch' = [batch EXCEPT !["exporter"] = pending \cup @]
    /\ pending' = {}
    /\ IF pending = {} THEN UNCHANGED <<dropped, said>>
       ELSE dropped' = 0 /\ said' = said + dropped
    /\ Goto("exporter", "sending")
    /\ UNCHANGED <<now, providerVars, callVars, gatewayVars, handed, minted,
                   revoked, faults>>

(* force_flush takes the held spans out before it asks for a token.        *)
FlushCalled ==
    /\ flushes
    /\ pc["flusher"] = "idle"
    /\ pending # {}
    /\ batch' = [batch EXCEPT !["flusher"] = pending]
    /\ pending' = {}
    /\ Goto("flusher", "current")
    /\ UNCHANGED <<now, providerVars, dropped, said, header, callVars,
                   gatewayVars, handed, minted, revoked, faults>>

FlushSets ==
    /\ pc["flusher"] = "got" /\ got["flusher"] # NoSession
    /\ header' = got["flusher"].token
    /\ Goto("flusher", "sending")
    /\ UNCHANGED <<now, providerVars, bufferVars, batch, callVars, gatewayVars,
                   handed, minted, revoked, faults>>

(* Without a token force_flush returns; the spans it took are gone.        *)
FlushGivesUp ==
    /\ pc["flusher"] = "got" /\ got["flusher"] = NoSession
    /\ batch' = [batch EXCEPT !["flusher"] = {}]
    /\ Goto("flusher", "idle")
    /\ UNCHANGED <<now, providerVars, bufferVars, header, callVars, gatewayVars,
                   handed, minted, revoked, faults>>
-----------------------------------------------------------------------------
(* super().export: the request carries whatever the header says by now.    *)

(* What the gateway takes: a token that was not revoked and is still alive.*)
Takes(tok) == tok \notin revoked /\ now < minted[tok]

Sends(t) ==
    /\ pc[t] = "sending"
    /\ carried' = [carried EXCEPT ![t] = header]
    /\ batch' = [batch EXCEPT ![t] = {}]
    /\ UNCHANGED <<now, providerVars, bufferVars, header, callVars, handed,
                   minted, revoked>>

Accepted(t) ==
    /\ Sends(t)
    /\ Takes(header)
    /\ delivered' = delivered \cup batch[t]
    /\ Goto(t, "idle")
    /\ UNCHANGED <<failed, refused, faults>>

NeverInvalidates(t) == "idle"   \* mutated: the refused token is kept

(* A failed export goes on to invalidate; force_flush ignores the result.  *)
AfterFailure(t) == IF t = "exporter" THEN "invalidate" ELSE "idle"

Reported(t) == IF t = "exporter" THEN failed \cup batch[t] ELSE failed

Refused(t) ==
    /\ Sends(t)
    /\ ~Takes(header)
    /\ failed' = Reported(t)
    /\ refused' = IF t = "exporter" THEN Append(refused, header) ELSE refused
    /\ Goto(t, AfterFailure(t))
    /\ UNCHANGED <<delivered, faults>>

(* A timeout or a 5xx: the gateway may have taken the spans all the same.  *)
RequestFails(t) ==
    /\ Sends(t)
    /\ Fails
    /\ delivered' \in {delivered, delivered \cup batch[t]}
    /\ failed' = Reported(t)
    /\ Goto(t, AfterFailure(t))
    /\ UNCHANGED refused

(* invalidate: whatever session is current by now.                         *)
Invalidate ==
    /\ pc["exporter"] = "invalidate" /\ Unlocked
    /\ session' = NoSession
    /\ Goto("exporter", "idle")
    /\ UNCHANGED <<now, failures, nextAttempt, bufferVars, header, batch,
                   callVars, gatewayVars, handed, minted, revoked, faults>>
-----------------------------------------------------------------------------
Init ==
    /\ now = 0
    /\ session = NoSession /\ failures = 0 /\ nextAttempt = 0
    /\ pending = {} /\ dropped = 0 /\ said = 0
    /\ header = 0
    /\ pc = [t \in Threads |-> "idle"]
    /\ batch = [t \in Threads |-> {}]
    /\ started = [t \in Threads |-> 0]
    /\ got = [t \in Threads |-> NoSession]
    /\ carried = [t \in Threads |-> 0]
    /\ handed = 0 /\ delivered = {} /\ failed = {}
    /\ minted = <<>> /\ revoked = {} /\ refused = <<>>
    /\ faults = 0
    /\ flushes \in Flushes

Step ==
    \/ Tick \/ Revoke
    \/ ExportCalled \/ Hold \/ Drain \/ Invalidate
    \/ FlushCalled \/ FlushSets \/ FlushGivesUp
    \/ \E t \in Threads :
        \/ CurrentServes(t) \/ CurrentFetches(t) \/ FetchSucceeds(t) \/ FetchFails(t)
        \/ Accepted(t) \/ Refused(t) \/ RequestFails(t)

Next == Step /\ UNCHANGED flushes

Spec == Init /\ [][Next]_vars
-----------------------------------------------------------------------------
(* What must hold *)

(* TypeOK: every variable has its type (SessionProvider, the exporter).    *)
TypeOK ==
    /\ now \in Nat /\ failures \in Nat /\ nextAttempt \in Nat
    /\ session \in Session
    /\ pending \in SUBSET (1 .. handed)
    /\ dropped \in Nat /\ said \in Nat
    /\ header \in Token
    /\ pc \in [Threads -> Phase]
    /\ batch \in [Threads -> SUBSET (1 .. handed)]
    /\ started \in [Threads -> Nat]
    /\ got \in [Threads -> Session]
    /\ carried \in [Threads -> Token]
    /\ handed \in Nat
    /\ delivered \in SUBSET (1 .. handed) /\ failed \in SUBSET (1 .. handed)
    /\ minted \in Seq(Nat) /\ revoked \in SUBSET DOMAIN minted
    /\ refused \in Seq(Token)
    /\ faults \in Nat
    /\ flushes \in BOOLEAN

(* NeverSentTwice: a span that is held, or in the hands of a thread, is in *)
(* one place only and was neither delivered nor given up before, however   *)
(* export and force_flush interleave around the shared buffer.             *)
NeverSentTwice ==
    /\ pending \cap (delivered \cup failed) = {}
    /\ \A t \in Threads : batch[t] \cap (pending \cup delivered \cup failed) = {}
    /\ batch["exporter"] \cap batch["flusher"] = {}

(* Spans that were handed over and are in no place any more.               *)
Vanished ==
    (1 .. handed) \ (pending \cup batch["exporter"] \cup batch["flusher"]
                        \cup delivered \cup failed)

(* EveryLossCounted: spans vanish only when they are counted: in _dropped  *)
(* until a drain, reported afterwards ("Silent telemetry loss is the       *)
(* failure this whole product exists to make visible").                    *)
EveryLossCounted == Cardinality(Vanished) = dropped + said

(* LossIsCounted: so it is while nobody calls force_flush.                 *)
LossIsCounted == ~flushes => EveryLossCounted

(* OldestDropped: the buffer stays within its limit, and what it gave up   *)
(* is older than all it still holds; also when a flush loses what it held. *)
OldestDropped ==
    /\ Cardinality(pending) <= MaxPending
    /\ \A s \in Vanished, r \in pending : s < r

(* RefusedNotRetried: no token is refused to export twice: a refusal drops *)
(* it, "rather than retrying with a credential the server has already      *)
(* refused".  A flush may put an older token back into the header.         *)
RefusedNotRetried ==
    ~flushes => \A i, j \in DOMAIN refused : refused[i] = refused[j] => i = j

(* DropsWhatFailed: invalidate drops the token the failed request carried, *)
(* and no other ("Drop the current token, e.g. after the server rejected   *)
(* it"), while no flush refreshes it meanwhile.                            *)
DropsWhatFailed ==
    [][~flushes /\ session # NoSession /\ session' = NoSession =>
            pc["exporter"] = "invalidate" /\ carried["exporter"] = session.token]_vars

(* HoldsOnlyWithoutToken: spans are held only while there is no token that *)
(* is still alive, but for one a flush has just fetched; a failed refresh  *)
(* is not a reason to stop exporting.                                      *)
HoldsOnlyWithoutToken ==
    [][~flushes /\ ~(pending' \subseteq pending) => now >= session.expiresAt]_vars

(* SpansAccounted: a span that was handed over is in one place, or it was  *)
(* among the oldest when the buffer overflowed, and its loss is counted.   *)
SpansAccounted ==
    /\ TypeOK
    /\ NeverSentTwice
    /\ LossIsCounted
    /\ OldestDropped
=============================================================================
