----------------------------- MODULE JsSession ------------------------------
(***************************************************************************)
(* Session-aware export in the JavaScript SDK (mcpobs-js/src/session.ts,   *)
(* exporter.ts), from the customer's backend that mints tokens to the      *)
(* gateway that verifies them (SessionTokens).                             *)
(*                                                                         *)
(* A job is one asynchronous call: the export of a batch of one span, or a *)
(* forceFlush.  Node interleaves jobs at every await: the provider answers *)
(* a job's lookup at once or starts a fetch, and what the job does when it *)
(* resumes it does on the state it finds then.  The stages of a job:       *)
(*   "new"  ->  "fetching" | "resumed"   current() of doExport             *)
(*          ->  "done" (held)  |  "fetching" | "resumed"   the delegate's  *)
(*              header factory calls current() again                       *)
(*          ->  "sent"  ->  "done".                                        *)
(* The event loop runs the continuation of one event before it takes the   *)
(* next one: nothing else happens while a job is "resumed".                *)
(***************************************************************************)
EXTENDS SessionTokens

CONSTANTS Batches,       \* the batches the processor exports: a span each
          Flush,         \* the job that is a forceFlush
          InFlight,      \* how many jobs the batch processor runs at once
          MaxPending,    \* MAX_PENDING_SPANS
          MinRetry, MaxRetry,
          FetchTime,     \* FETCH_TIMEOUT_MS: a fetch without headers is aborted
          SendTime,      \* no request to the gateway takes longer
          SessionRequests,  \* what the customer's backend asks the gateway for
          SigningKeys,   \* the gateway's signing keys, one at a time
          MaxNow         \* bound: the time modelled

ASSUME JsAssumption ==
  /\ Flush \notin Batches
  /\ MaxPending \in Nat
  /\ MinRetry \in Nat /\ MaxRetry \in Nat
  /\ FetchTime \in Nat /\ SendTime \in Nat
  /\ MaxNow \in Nat
  /\ \A key \in SigningKeys : key.id \in Nat
  /\ \A request \in SessionRequests : request.ttl \in Int

Jobs      == Batches \cup {Flush}
NoKey     == [shape |-> "none"]
NotMinted == [token |-> NoKey, expiresIn |-> 0]
NoSession == [token |-> NoKey, refreshAt |-> 0, expiresAt |-> 0]

VARIABLES now,
          signing,       \* the gateway's signing key
          session, failures, nextAttempt,   \* SessionProvider
          pending, droppedWhileHeld,        \* SessionSpanExporter
          jobs,          \* the state of each job
          answers,       \* the result each batch's callback was called with
          stored, lost, dropped,            \* where spans ended
          rejected       \* the tokens the gateway has rejected an export for

provider == <<session, failures, nextAttempt>>
exporter == <<pending, droppedWhileHeld>>
fates    == <<answers, stored, lost, dropped, rejected>>
vars     == <<now, signing, provider, exporter, jobs, fates>>

Init ==
  /\ now = 0
  /\ signing \in SigningKeys
  /\ session = NoSession /\ failures = 0 /\ nextAttempt = 0
  /\ pending = <<>> /\ droppedWhileHeld = 0
  /\ jobs = [j \in Jobs |-> [stage |-> "new"]]
  /\ answers = [b \in Batches |-> "none"]
  /\ stored = {} /\ lost = {} /\ dropped = {}
  /\ rejected = {}

Active  == {j \in Jobs : jobs[j].stage \notin {"new", "done"}}
Settled == \A j \in Active : jobs[j].stage # "resumed"
Room    == Settled /\ Cardinality(Active) < InFlight

-----------------------------------------------------------------------------
(***************************************************************************)
(* SessionProvider.current(), up to its await.                             *)
(***************************************************************************)

Alive(s) == s # NoSession /\ now < s.expiresAt

\* mutated: while it backs off, a lookup gets no session.
CachedWhileFresh == IF session # NoSession /\ now < session.refreshAt THEN session ELSE NoSession

\* The session a lookup gets without a fetch.
Cached ==
  IF session # NoSession /\ now < session.refreshAt THEN session
  ELSE IF Alive(session) THEN session ELSE NoSession

Fetches == ~ (session # NoSession /\ now < session.refreshAt) /\ now >= nextAttempt

\* Job j, carrying spans to the given step, calls current(): it resumes with
\* the cached session, or waits for a fetch with the session it saw.
Lookup(j, step, spans, given) ==
  jobs' = [jobs EXCEPT ![j] =
    [stage  |-> IF Fetches THEN "fetching" ELSE "resumed",
     step   |-> step,
     spans  |-> spans,
     given  |-> given,                                  \* the session doExport got
     old    |-> session,
     found  |-> IF Fetches THEN NoSession ELSE Cached,
     minted |-> NotMinted,
     headers |-> FALSE,                                 \* the response has begun
     asked  |-> now,                                    \* when the lookup began
     since  |-> now,                                    \* when its last request did
     knows  |-> rejected]]

\* MIN_RETRY_MS doubled with each failure, six times at most.
Backoff(n) ==
  LET delay == MinRetry * <<1, 2, 4, 8, 16, 32, 64>>[IF n < 6 THEN n + 1 ELSE 7]
  IN  IF delay < MaxRetry THEN delay ELSE MaxRetry

\* The customer's backend has a token minted for the fetch of job j.
Minted(j) ==
  /\ Settled /\ jobs[j].stage = "fetching" /\ jobs[j].minted.token = NoKey
  /\ \E request \in SessionRequests :
       /\ SessionStatus(request, signing) = 200
       /\ jobs' = [jobs EXCEPT ![j].minted = 
              SessionAnswer(request, signing, now, <<j, jobs[j].step>>)]
  /\ UNCHANGED <<now, signing, provider, exporter, fates>>

\* The headers of the response arrive: tryFetch clears its timer and reads the
\* body without one.
Responds(j) ==
  /\ Settled /\ jobs[j].stage = "fetching"
  /\ jobs' = [jobs EXCEPT ![j].headers = TRUE]
  /\ UNCHANGED <<now, signing, provider, exporter, fates>>

\* REFRESH_AT of the lifetime, 3/4, less at most JITTER, a tenth of it.
RefreshAfter(ttl) == (27 * ttl) \div 40 .. (3 * ttl) \div 4

\* The body is a token: every later lookup sees it.
Fetched(j) ==
  /\ Settled /\ jobs[j].stage = "fetching" /\ jobs[j].headers /\ jobs[j].minted.token # NoKey
  /\ \E after \in RefreshAfter(jobs[j].minted.expiresIn) :
       session' = [token     |-> jobs[j].minted.token,
                   refreshAt |-> now + after,
                   expiresAt |-> now + jobs[j].minted.expiresIn]
  /\ failures' = 0
  /\ nextAttempt' = 0
  /\ jobs' = [jobs EXCEPT ![j].stage = "resumed", ![j].found = session', ![j].minted = NotMinted]
  /\ UNCHANGED <<now, signing, exporter, fates>>

\* mutated: the provider itself falls back on the session the lookup saw.
FailedFetchRestores(j) ==
  /\ Settled /\ jobs[j].stage = "fetching"
  /\ failures' = failures + 1
  /\ nextAttempt' = now + Backoff(failures')
  /\ session' = IF jobs[j].old # NoSession /\ jobs[j].since < jobs[j].old.expiresAt
                THEN jobs[j].old ELSE NoSession
  /\ jobs' = [jobs EXCEPT ![j].stage = "resumed", ![j].minted = NotMinted, ![j].found = session']
  /\ UNCHANGED <<now, signing, exporter, fates>>

\* The fetch fails: unreachable, refused by the gateway, aborted for want of headers,
\* or broken off in its body.  The lookup falls back on the session it saw, as alive
\* as it was then.
FetchFails(j) ==
  /\ Settled /\ jobs[j].stage = "fetching"
  /\ failures' = failures + 1
  /\ nextAttempt' = now + Backoff(failures')
  /\ jobs' = [jobs EXCEPT ![j].stage = "resumed", ![j].minted = NotMinted,
                ![j].found = IF jobs[j].old # NoSession /\ jobs[j].since < jobs[j].old.expiresAt
                             THEN jobs[j].old ELSE NoSession]
  /\ UNCHANGED <<now, signing, session, exporter, fates>>

-----------------------------------------------------------------------------
(***************************************************************************)
(* SessionSpanExporter.                                                    *)
(***************************************************************************)

Export(b) ==
  /\ jobs[b].stage = "new" /\ Room
  /\ Lookup(b, "export", <<b>>, NoSession)
  /\ UNCHANGED <<now, signing, provider, exporter, fates>>

\* forceFlush looks at the buffer before it asks for a session.
ForceFlush ==
  /\ jobs[Flush].stage = "new" /\ Room
  /\ IF pending # <<>> THEN Lookup(Flush, "export", <<>>, NoSession)
     ELSE jobs' = [jobs EXCEPT ![Flush] = [stage |-> "done"]]
  /\ UNCHANGED <<now, signing, provider, exporter, fates>>

Finish(j) == jobs' = [jobs EXCEPT ![j] = [stage |-> "done"]]

Reply(j, result) ==
  answers' = IF j \in Batches THEN [answers EXCEPT ![j] = result] ELSE answers

\* mutated: the processor does not hear that the spans are held.
HoldSilently(j) ==
  /\ jobs[j].stage = "resumed" /\ jobs[j].step = "export" /\ jobs[j].found = NoSession
  /\ pending' = IF Len(pending) < MaxPending THEN pending \o jobs[j].spans
                ELSE Tail(pending) \o jobs[j].spans
  /\ dropped' = IF Len(pending) < MaxPending THEN dropped ELSE dropped \cup {Head(pending)}
  /\ Finish(j)
  /\ UNCHANGED <<now, signing, provider, droppedWhileHeld, answers, stored, lost, rejected>>

\* No session: hold keeps the newest spans, and the processor hears success.
Hold(j) ==
  /\ jobs[j].stage = "resumed" /\ jobs[j].step = "export" /\ jobs[j].found = NoSession
  /\ LET held     == pending \o jobs[j].spans
         overflow == IF Len(held) > MaxPending THEN Len(held) - MaxPending ELSE 0
     IN  /\ pending' = SubSeq(held, overflow + 1, Len(held))
         /\ droppedWhileHeld' = droppedWhileHeld + overflow
         /\ dropped' = dropped \cup {held[i] : i \in 1 .. overflow}
  /\ Reply(j, "success")
  /\ Finish(j)
  /\ UNCHANGED <<now, signing, provider, stored, lost, rejected>>

\* mutated: the buffer keeps what is sent.
DrainKeeps(j) ==
  /\ jobs[j].stage = "resumed" /\ jobs[j].step = "export" /\ jobs[j].found # NoSession
  /\ Lookup(j, "headers", pending \o jobs[j].spans, jobs[j].found)
  /\ UNCHANGED <<now, signing, provider, exporter, fates>>

\* A session: drain the buffer in front of the batch and hand both to the
\* delegate, which asks the provider for the headers.
Drain(j) ==
  /\ jobs[j].stage = "resumed" /\ jobs[j].step = "export" /\ jobs[j].found # NoSession
  /\ pending' = <<>>
  /\ droppedWhileHeld' = 0
  /\ Lookup(j, "headers", pending \o jobs[j].spans, jobs[j].found)
  /\ UNCHANGED <<now, signing, provider, fates>>

\* The delegate sends: with the token of the session it found, or with none.
Send(j) ==
  /\ jobs[j].stage = "resumed" /\ jobs[j].step = "headers"
  /\ jobs' = [jobs EXCEPT ![j].stage = "sent", ![j].since = now]
  /\ UNCHANGED <<now, signing, provider, exporter, fates>>

Presented(j) == jobs[j].found.token

Accepts(j) == PrincipalFrom(Presented(j), signing, now) # NoPrincipal

SpansOf(j) == {jobs[j].spans[i] : i \in DOMAIN jobs[j].spans}

Stored(j) ==
  /\ Settled /\ jobs[j].stage = "sent" /\ Accepts(j)
  /\ stored' = stored \cup SpansOf(j)
  /\ Reply(j, "success")
  /\ Finish(j)
  /\ UNCHANGED <<now, signing, provider, exporter, lost, dropped, rejected>>

\* Rejected, or failed on the way: an export drops the session, whichever the
\* provider holds by now; forceFlush ignores the result.
Fails(j) ==
  /\ Settled /\ jobs[j].stage = "sent"
  /\ lost' = lost \cup SpansOf(j)
  /\ rejected' = IF Accepts(j) \/ j = Flush THEN rejected ELSE rejected \cup {Presented(j)}
  /\ session' = IF j = Flush THEN session ELSE NoSession
  /\ Reply(j, "failed")
  /\ Finish(j)
  /\ UNCHANGED <<now, signing, failures, nextAttempt, exporter, stored, dropped>>

-----------------------------------------------------------------------------
\* Time passes only while nothing is at its timeout.  A response that has begun has
\* no timeout of the SDK's.
Tick ==
  /\ now < MaxNow /\ Settled
  /\ \A j \in Active :
       /\ jobs[j].stage = "fetching" /\ ~ jobs[j].headers => now < jobs[j].since + FetchTime
       /\ jobs[j].stage = "sent" => now < jobs[j].since + SendTime
  /\ now' = now + 1
  /\ UNCHANGED <<signing, provider, exporter, jobs, fates>>

\* The operator replaces the signing key: outstanding tokens die.
RotateKey ==
  /\ Settled /\ signing' \in {key \in SigningKeys : key.id > signing.id}
  /\ UNCHANGED <<now, provider, exporter, jobs, fates>>

JobStep(j) ==
  \/ Minted(j) \/ Responds(j) \/ Fetched(j) \/ FetchFails(j)
  \/ Hold(j) \/ Drain(j) \/ Send(j) \/ Stored(j) \/ Fails(j)

Next ==
  \/ Tick \/ RotateKey \/ ForceFlush
  \/ \E b \in Batches : Export(b)
  \/ \E j \in Jobs : JobStep(j)

\* The event loop runs every job that can run; every request ends, at the SDK's timeout,
\* or once a response has begun at those of the runtime's fetch.
Fairness == \A j \in Jobs : WF_vars(JobStep(j))

Spec == Init /\ [][Next]_vars /\ Fairness

-----------------------------------------------------------------------------
(***************************************************************************)
(* Properties.                                                             *)
(***************************************************************************)

\* The types of the variables: the buffer never exceeds MAX_PENDING_SPANS.
TypeOK ==
  /\ now \in 0 .. MaxNow /\ signing \in SigningKeys
  /\ failures \in Nat /\ nextAttempt \in Nat /\ droppedWhileHeld \in Nat
  /\ pending \in Seq(Batches) /\ Len(pending) <= MaxPending
  /\ \A j \in Jobs : jobs[j].stage \in {"new", "fetching", "resumed", "sent", "done"}
  /\ answers \in [Batches -> {"none", "success", "failed"}]
  /\ stored \subseteq Batches /\ lost \subseteq Batches /\ dropped \subseteq Batches

Places(b) ==
  Cardinality({i \in DOMAIN pending : pending[i] = b})
    + Cardinality({j \in Active : b \in SpansOf(j)})
    + Cardinality({place \in {<<"stored", stored>>, <<"lost", lost>>, <<"dropped", dropped>>} :
                     b \in place[2]})

\* Whatever the exports, the flush and their fetches interleave to, an exported
\* span is in exactly one place: the buffer, one job on its way, the gateway,
\* a failed export, or the spans dropped for room (exporter.ts hold and drain).
NothingVanishes ==
  \A b \in Batches : Places(b) = IF jobs[b].stage = "new" THEN 0 ELSE 1

\* How long after it was minted the token of a session arrived at the SDK.
Lag(s) == s.expiresAt - s.token.claims.exp

\* A token signed with the gateway's key is refused as expired only for what the
\* gateway's leeway is there for: the time the token took to arrive, and the time from
\* the lookup that chose it (a fetch that failed may lie between) to the gateway, are
\* longer than the leeway together.  A lookup that chose a session no longer alive, at
\* once or on the way back from its await, would break this
\* (session.ts current and tryFetch, control/session.py CLOCK_LEEWAY_SECONDS).
NeverLateToken ==
  \A j \in Jobs :
    /\ jobs[j].stage = "sent" /\ Presented(j) # NoKey /\ Presented(j).signed = signing.id
    /\ Lag(jobs[j].found) + (now - jobs[j].asked) <= Leeway
    => Accepts(j)

\* A token the gateway rejected an export for is never presented by a lookup that begins
\* after the rejection: invalidate() is not undone by a fetch that was already
\* running (session.ts current, invalidate).
NotPresentedAgain ==
  \A j \in Jobs :
    jobs[j].stage = "sent" /\ Presented(j) # NoKey => Presented(j) \notin jobs[j].knows

\* A request without a key leaves the SDK only if the session its export was
\* given has expired or was dropped meanwhile: working credentials are used
\* while the endpoint is down (session.ts current, exporter.ts exporterFor).
KeylessOnlyIfLost ==
  \A j \in Jobs :
    jobs[j].stage = "sent" /\ Presented(j) = NoKey
      => session # jobs[j].given \/ now >= jobs[j].given.expiresAt

\* The processor hears of every batch it exports: its callback is called
\* whether the spans were held, sent or refused (exporter.ts doExport).
ExportsAnswered ==
  \A b \in Batches : jobs[b].stage # "new" ~> answers[b] # "none"
=============================================================================
