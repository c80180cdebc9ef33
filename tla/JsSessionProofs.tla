-------------------------- MODULE JsSessionProofs ---------------------------
(***************************************************************************)
(* Theorems about the JavaScript SDK's provider and exporter: for any      *)
(* batches, lifetimes, timeouts and replacements of the gateway's key.     *)
(***************************************************************************)
EXTENDS JsSession, FiniteSetTheorems, TLAPS

Steps      == {"export", "headers"}
Tenants    == {Authenticate(request.credential).tenant : request \in SessionRequests}
Attributes == {CleanAttributes(request.attributes) : request \in SessionRequests}
Tokens     ==
  [shape  : {"jwt"},
   signed : Nat,
   claims : [jti : Jobs \X Steps, iat : Nat, exp : Nat, tenant : Tenants, attributes : Attributes]]
Sessions   == [token : Tokens \cup {NoKey}, refreshAt : Nat, expiresAt : Nat]
Answers    == [token : Tokens \cup {NoKey}, expiresIn : Nat]
Idle       == [stage : {"new", "done"}]
Busy       ==
  [stage : {"fetching", "resumed", "sent"}, step : Steps, spans : Seq(Batches),
   given : Sessions, old : Sessions, found : Sessions, minted : Answers,
   headers : BOOLEAN, asked : Nat, since : Nat, knows : SUBSET (Tokens \cup {NoKey})]

\* The types of everything, jobs on their way included.
Typed ==
  /\ now \in 0 .. MaxNow /\ signing \in SigningKeys
  /\ session \in Sessions
  /\ failures \in Nat /\ nextAttempt \in Nat /\ droppedWhileHeld \in Nat
  /\ pending \in Seq(Batches) /\ Len(pending) <= MaxPending
  /\ jobs \in [Jobs -> Idle \cup Busy]
  /\ answers \in [Batches -> {"none", "success", "failed"}]
  /\ stored \subseteq Batches /\ lost \subseteq Batches /\ dropped \subseteq Batches
  /\ rejected \subseteq Tokens \cup {NoKey}

\* Stages are told apart by the fields a job has.
LEMMA BusyOrIdle ==
  ASSUME NEW j \in Jobs, jobs \in [Jobs -> Idle \cup Busy]
  PROVE  /\ jobs[j].stage \in {"fetching", "resumed", "sent"} => jobs[j] \in Busy
         /\ jobs[j] \in Busy => j \in Active
         /\ j \in Active => jobs[j] \in Busy
         /\ jobs[j].stage \in {"new", "done"} => jobs[j] \in Idle
<1>1. jobs[j] \in Idle \cup Busy
  OBVIOUS
<1> QED BY <1>1 DEF Idle, Busy, Active

LEMMA ConstantsTyped ==
  /\ NoSession \in Sessions
  /\ NotMinted \in Answers
  /\ NoKey \notin Tokens
BY DEF NoSession, Sessions, NotMinted, Answers, NoKey, Tokens

\* A lookup leaves the job fetching or resumed, with what the provider had.
LEMMA LookupTyped ==
  ASSUME Typed, NEW j \in Jobs, NEW step \in Steps, NEW spans \in Seq(Batches),
         NEW given \in Sessions, Lookup(j, step, spans, given)
  PROVE  /\ jobs' \in [Jobs -> Idle \cup Busy]
         /\ jobs'[j] \in Busy
         /\ \A k \in Jobs \ {j} : jobs'[k] = jobs[k]
<1>1. Cached \in Sessions
  BY ConstantsTyped DEF Cached, Typed
<1> DEFINE r == [stage  |-> IF Fetches THEN "fetching" ELSE "resumed",
                 step   |-> step,
                 spans  |-> spans,
                 given  |-> given,
                 old    |-> session,
                 found  |-> IF Fetches THEN NoSession ELSE Cached,
                 minted |-> NotMinted,
                 headers |-> FALSE,
                 asked  |-> now,
                 since  |-> now,
                 knows  |-> rejected]
<1>2. r \in Busy
  <2>1. now \in Nat
    BY DEF Typed
  <2>2. (IF Fetches THEN "fetching" ELSE "resumed") \in {"fetching", "resumed", "sent"}
    OBVIOUS
  <2>3. (IF Fetches THEN NoSession ELSE Cached) \in Sessions
    BY <1>1, ConstantsTyped
  <2> QED BY <2>1, <2>2, <2>3, ConstantsTyped DEF Busy, Typed
<1>3. jobs' = [jobs EXCEPT ![j] = r]
  BY DEF Lookup
<1> HIDE DEF r
<1>4. jobs \in [Jobs -> Idle \cup Busy]
  BY DEF Typed
<1> QED BY <1>2, <1>3, <1>4

\* A step of a job finds it on its way, leaves every other job alone, and takes no time.
LEMMA StepsAlone ==
  ASSUME Typed, NEW j \in Jobs, JobStep(j)
  PROVE  /\ jobs[j] \in Busy /\ j \in Active
         /\ \A k \in Jobs \ {j} : jobs'[k] = jobs[k]
         /\ now' = now
<1>1. jobs[j].stage \in {"fetching", "resumed", "sent"}
  BY DEF JobStep, Minted, Responds, Fetched, FetchFails, Hold, Drain, Send, Stored, Fails
<1>2. jobs[j] \in Busy /\ j \in Active
  BY <1>1, BusyOrIdle DEF Typed
<1>3. CASE Minted(j)
  BY <1>2, <1>3 DEF Typed, Minted
<1>4. CASE Fetched(j)
  BY <1>2, <1>4 DEF Typed, Fetched
<1>5. CASE FetchFails(j)
  BY <1>2, <1>5 DEF Typed, FetchFails
<1>6. CASE Hold(j)
  BY <1>2, <1>6 DEF Typed, Hold, Finish
<1>7. CASE Drain(j)
  BY <1>2, <1>7 DEF Typed, Drain, Lookup
<1>8. CASE Send(j)
  BY <1>2, <1>8 DEF Typed, Send
<1>9. CASE Stored(j)
  BY <1>2, <1>9 DEF Typed, Stored, Finish
<1>10. CASE Fails(j)
  BY <1>2, <1>10 DEF Typed, Fails, Finish
<1>11. CASE Responds(j)
  BY <1>2, <1>11 DEF Typed, Responds
<1> QED BY <1>3, <1>4, <1>5, <1>6, <1>7, <1>8, <1>9, <1>10, <1>11 DEF JobStep

\* A token that is minted changes nothing else about the job that waits for it.
LEMMA MintedKeeps ==
  ASSUME Typed, NEW j \in Jobs, Minted(j)
  PROVE  /\ jobs'[j].stage = "fetching"
         /\ jobs'[j].step = jobs[j].step /\ jobs'[j].spans = jobs[j].spans
<1>1. jobs[j].stage = "fetching"
  BY DEF Minted
<1>2. jobs[j] \in Busy
  BY <1>1, BusyOrIdle DEF Typed
<1>3. PICK answer : jobs' = [jobs EXCEPT ![j].minted = answer]
  BY DEF Minted
<1>4. jobs'[j] = [jobs[j] EXCEPT !.minted = answer]
  BY <1>3 DEF Typed
<1> QED BY <1>1, <1>2, <1>4 DEF Busy

\* The headers of a response change nothing else about the job, and nothing of the others.
LEMMA RespondsKeeps ==
  ASSUME Typed, NEW j \in Jobs, Responds(j)
  PROVE  /\ jobs[j].stage = "fetching" /\ jobs'[j] \in Busy
         /\ jobs'[j].stage = jobs[j].stage /\ jobs'[j].step = jobs[j].step
         /\ jobs'[j].spans = jobs[j].spans /\ jobs'[j].given = jobs[j].given
         /\ jobs'[j].old = jobs[j].old /\ jobs'[j].found = jobs[j].found
         /\ jobs'[j].minted = jobs[j].minted /\ jobs'[j].knows = jobs[j].knows
         /\ jobs'[j].asked = jobs[j].asked /\ jobs'[j].since = jobs[j].since
         /\ UNCHANGED <<now, signing, session, failures, nextAttempt, pending, droppedWhileHeld,
                        answers, stored, lost, dropped, rejected>>
         /\ jobs' \in [Jobs -> Idle \cup Busy]
<1>1. jobs[j].stage = "fetching" /\ jobs[j] \in Busy
  BY BusyOrIdle DEF Typed, Responds
<1>2. jobs' = [jobs EXCEPT ![j].headers = TRUE] /\ jobs'[j] = [jobs[j] EXCEPT !.headers = TRUE]
  BY DEF Typed, Responds
<1>3. [jobs[j] EXCEPT !.headers = TRUE] \in Busy
  BY <1>1 DEF Busy
<1>4. jobs' \in [Jobs -> Idle \cup Busy]
  BY <1>2, <1>3 DEF Typed
<1>5. UNCHANGED <<now, signing, session, failures, nextAttempt, pending, droppedWhileHeld,
                  answers, stored, lost, dropped, rejected>>
  BY DEF Responds, provider, exporter, fates
<1> QED BY <1>1, <1>2, <1>3, <1>4, <1>5 DEF Busy

\* What the gateway answers a valid request: a token signed with its present key,
\* from now on for as long as it says.
LEMMA MintedTyped ==
  ASSUME Typed, NEW request \in SessionRequests, SessionStatus(request, signing) = 200,
         NEW jti \in Jobs \X Steps
  PROVE  LET answer == SessionAnswer(request, signing, now, jti)
         IN  /\ answer \in Answers
             /\ answer.token \in Tokens
             /\ answer.token.claims.jti = jti
             /\ answer.token.signed = signing.id
             /\ answer.token.claims.iat = now
             /\ answer.token.claims.exp = now + answer.expiresIn
             /\ answer.expiresIn > 0
             /\ ~ KeyRefused(signing)
<1>1. request.ttl \in Int /\ now \in Nat /\ signing.id \in Nat
  BY JsAssumption DEF Typed
<1>2. ~ MintRefused(request, signing)
  BY DEF SessionStatus
<1>3. ~ KeyRefused(signing) /\ (request.ttl = Unset \/ request.ttl > 0)
  BY <1>1, <1>2 DEF MintRefused
<1>4. Ttl(request.ttl) \in Nat \ {0}
  BY <1>1, <1>3, TokenAssumption DEF Ttl, Unset
<1>5. Authenticate(request.credential).tenant \in Tenants
  BY DEF Tenants
<1>6. CleanAttributes(request.attributes) \in Attributes
  BY DEF Attributes
<1> DEFINE token == Mint(Authenticate(request.credential), request, signing, now, jti)
<1>7. token \in Tokens
  BY <1>1, <1>4, <1>5, <1>6 DEF Mint, Tokens
<1>8. token.claims.jti = jti /\ token.signed = signing.id /\ token.claims.iat = now
      /\ token.claims.exp = now + Ttl(request.ttl)
  BY DEF Mint
<1> HIDE DEF token
<1>9. SessionAnswer(request, signing, now, jti) = [token |-> token, expiresIn |-> Ttl(request.ttl)]
  BY DEF SessionAnswer, token
<1> QED BY <1>3, <1>4, <1>7, <1>8, <1>9 DEF Answers

LEMMA RefreshInTime ==
  ASSUME NEW ttl \in Nat, NEW after \in RefreshAfter(ttl)
  PROVE  after \in Nat /\ after <= ttl
BY DEF RefreshAfter

LEMMA BackoffTyped ==
  ASSUME NEW n \in Nat
  PROVE  Backoff(n) \in Nat
<1> DEFINE times == <<1, 2, 4, 8, 16, 32, 64>>
           i     == IF n < 6 THEN n + 1 ELSE 7
<1>1. i \in 1 .. 7
  OBVIOUS
<1>2. \A k \in 1 .. 7 : times[k] \in Nat
  OBVIOUS
<1>3. times[i] \in Nat
  BY <1>1, <1>2
<1> HIDE DEF times, i
<1>4. MinRetry * times[i] \in Nat
  BY <1>3, JsAssumption
<1>5. Backoff(n) = IF MinRetry * times[i] < MaxRetry THEN MinRetry * times[i] ELSE MaxRetry
  BY DEF Backoff, times, i
<1> QED BY <1>4, <1>5, JsAssumption

\* What a job resumes with, holds, sends and leaves, keeps its type.
LEMMA FlightTyped ==
  ASSUME Typed, NEW j \in Jobs
  PROVE  /\ Minted(j) \/ Fetched(j) \/ FetchFails(j) => Typed'
         /\ Hold(j) \/ Drain(j) => Typed'
         /\ Send(j) \/ Stored(j) \/ Fails(j) => Typed'
<1>1. ASSUME Minted(j) PROVE Typed'
  <2>1. jobs[j] \in Busy
    BY <1>1, BusyOrIdle DEF Minted, Typed
  <2>2. PICK request \in SessionRequests :
          /\ SessionStatus(request, signing) = 200
          /\ jobs' = [jobs EXCEPT ![j].minted =
                SessionAnswer(request, signing, now, <<j, jobs[j].step>>)]
    BY <1>1 DEF Minted
  <2>3. <<j, jobs[j].step>> \in Jobs \X Steps
    BY <2>1 DEF Busy
  <2>4. SessionAnswer(request, signing, now, <<j, jobs[j].step>>) \in Answers
    BY <2>2, <2>3, MintedTyped
  <2>5. [jobs[j] EXCEPT !.minted = SessionAnswer(request, signing, now, <<j, jobs[j].step>>)] \in Busy
    BY <2>1, <2>4 DEF Busy
  <2>6. jobs' \in [Jobs -> Idle \cup Busy]
    BY <2>2, <2>5 DEF Typed
  <2> QED BY <1>1, <2>6 DEF Minted, Typed, provider, exporter, fates
<1>2. ASSUME Fetched(j) PROVE Typed'
  <2>1. jobs[j] \in Busy
    BY <1>2, BusyOrIdle DEF Fetched, Typed
  <2>2. jobs[j].minted \in Answers /\ jobs[j].minted.expiresIn \in Nat /\ now \in Nat
    BY <2>1 DEF Busy, Answers, Typed
  <2>3. PICK after \in RefreshAfter(jobs[j].minted.expiresIn) :
          session' = [token     |-> jobs[j].minted.token,
                      refreshAt |-> now + after,
                      expiresAt |-> now + jobs[j].minted.expiresIn]
    BY <1>2 DEF Fetched
  <2>4. after \in Nat
    BY <2>2, RefreshInTime
  <2>5. session' \in Sessions
    BY <2>2, <2>3, <2>4 DEF Sessions, Answers
  <2>6. [jobs[j] EXCEPT !.stage = "resumed", !.found = session', !.minted = NotMinted] \in Busy
    BY <2>1, <2>5, ConstantsTyped DEF Busy
  <2>7. jobs' \in [Jobs -> Idle \cup Busy]
    BY <1>2, <2>6 DEF Fetched, Typed
  <2> QED BY <1>2, <2>5, <2>7 DEF Fetched, Typed, exporter, fates
<1>3. ASSUME FetchFails(j) PROVE Typed'
  <2>1. jobs[j] \in Busy
    BY <1>3, BusyOrIdle DEF FetchFails, Typed
  <2> DEFINE back == IF jobs[j].old # NoSession /\ jobs[j].since < jobs[j].old.expiresAt
                     THEN jobs[j].old ELSE NoSession
  <2>2. back \in Sessions
    BY <2>1, ConstantsTyped DEF Busy
  <2>3. jobs' = [jobs EXCEPT ![j].stage = "resumed", ![j].minted = NotMinted, ![j].found = back]
    BY <1>3 DEF FetchFails
  <2> HIDE DEF back
  <2>4. [jobs[j] EXCEPT !.stage = "resumed", !.minted = NotMinted, !.found = back] \in Busy
    BY <2>1, <2>2, ConstantsTyped DEF Busy
  <2>5. jobs' \in [Jobs -> Idle \cup Busy]
    BY <2>3, <2>4 DEF Typed
  <2>6. failures' \in Nat
    BY <1>3 DEF FetchFails, Typed
  <2>7. nextAttempt' \in Nat
    BY <1>3, <2>6, BackoffTyped DEF FetchFails, Typed
  <2> QED BY <1>3, <2>5, <2>6, <2>7 DEF FetchFails, Typed, exporter, fates
<1> DEFINE Ended == [jobs EXCEPT ![j] = [stage |-> "done"]]
<1>4. Ended \in [Jobs -> Idle \cup Busy]
  BY DEF Idle, Typed
<1>5. ASSUME NEW result \in {"success", "failed"}, Reply(j, result)
      PROVE  answers' \in [Batches -> {"none", "success", "failed"}]
  BY <1>5 DEF Reply, Typed
<1>6. ASSUME Hold(j) PROVE Typed'
  <2>1. jobs[j] \in Busy
    BY <1>6, BusyOrIdle DEF Hold, Typed
  <2> DEFINE held     == pending \o jobs[j].spans
             overflow == IF Len(held) > MaxPending THEN Len(held) - MaxPending ELSE 0
  <2>2. held \in Seq(Batches)
    BY <2>1 DEF Busy, Typed
  <2>3. Len(held) \in Nat /\ \A i \in 1 .. Len(held) : held[i] \in Batches
    BY <2>2
  <2>4. /\ pending' = SubSeq(held, overflow + 1, Len(held))
        /\ droppedWhileHeld' = droppedWhileHeld + overflow
        /\ dropped' = dropped \cup {held[i] : i \in 1 .. overflow}
    BY <1>6 DEF Hold
  <2> HIDE DEF held
  <2>5. overflow \in Nat /\ overflow <= Len(held) /\ Len(held) - overflow <= MaxPending
    BY <2>3, JsAssumption
  <2>6. pending' \in Seq(Batches)
    BY <2>2, <2>4, <2>5
  <2>7. Len(pending') = Len(held) - overflow
    BY <2>2, <2>3, <2>4, <2>5
  <2>8. dropped' \subseteq Batches
    BY <2>3, <2>4, <2>5 DEF Typed
  <2>9. jobs' = Ended /\ answers' \in [Batches -> {"none", "success", "failed"}]
    BY <1>5, <1>6 DEF Hold, Finish
  <2>10. droppedWhileHeld' \in Nat
    BY <2>4, <2>5 DEF Typed
  <2> QED BY <1>4, <1>6, <2>5, <2>6, <2>7, <2>8, <2>9, <2>10 DEF Hold, Typed, provider
<1>7. ASSUME Drain(j) PROVE Typed'
  <2>1. jobs[j] \in Busy
    BY <1>7, BusyOrIdle DEF Drain, Typed
  <2>2. pending \o jobs[j].spans \in Seq(Batches)
    BY <2>1 DEF Busy, Typed
  <2>3. jobs[j].found \in Sessions
    BY <2>1 DEF Busy
  <2>4. Lookup(j, "headers", pending \o jobs[j].spans, jobs[j].found) /\ pending' = <<>>
    BY <1>7 DEF Drain
  <2>5. jobs' \in [Jobs -> Idle \cup Busy]
    BY <2>2, <2>3, <2>4, LookupTyped DEF Steps
  <2>6. pending' \in Seq(Batches) /\ Len(pending') <= MaxPending
    BY <2>4, JsAssumption
  <2> QED BY <1>7, <2>5, <2>6 DEF Drain, Typed, provider, fates
<1>8. ASSUME Send(j) PROVE Typed'
  <2>1. jobs[j] \in Busy /\ now \in Nat
    BY <1>8, BusyOrIdle DEF Send, Typed
  <2>2. [jobs[j] EXCEPT !.stage = "sent", !.since = now] \in Busy
    BY <2>1 DEF Busy
  <2>3. jobs' \in [Jobs -> Idle \cup Busy]
    BY <1>8, <2>2 DEF Send, Typed
  <2> QED BY <1>8, <2>3 DEF Send, Typed, provider, exporter, fates
<1>9. ASSUME jobs[j] \in Busy PROVE SpansOf(j) \subseteq Batches /\ Presented(j) \in Tokens \cup {NoKey}
  <2>1. jobs[j].spans \in Seq(Batches) /\ jobs[j].found \in Sessions
    BY <1>9 DEF Busy
  <2>2. \A i \in DOMAIN jobs[j].spans : jobs[j].spans[i] \in Batches
    BY <2>1
  <2> QED BY <2>1, <2>2 DEF SpansOf, Presented, Sessions
<1>10. ASSUME Stored(j) PROVE Typed'
  <2>1. SpansOf(j) \subseteq Batches
    BY <1>9, <1>10, BusyOrIdle DEF Stored, Typed
  <2>2. jobs' = Ended /\ answers' \in [Batches -> {"none", "success", "failed"}]
    BY <1>5, <1>10 DEF Stored, Finish
  <2> QED BY <1>4, <1>10, <2>1, <2>2 DEF Stored, Typed, provider, exporter
<1>11. ASSUME Fails(j) PROVE Typed'
  <2>1. SpansOf(j) \subseteq Batches /\ Presented(j) \in Tokens \cup {NoKey}
    BY <1>9, <1>11, BusyOrIdle DEF Fails, Typed
  <2>2. jobs' = Ended /\ answers' \in [Batches -> {"none", "success", "failed"}]
    BY <1>5, <1>11 DEF Fails, Finish
  <2>3. session' \in Sessions
    BY <1>11, ConstantsTyped DEF Fails, Typed
  <2>4. rejected' \subseteq Tokens \cup {NoKey}
    BY <1>11, <2>1 DEF Fails, Typed
  <2>5. lost' \subseteq Batches
    BY <1>11, <2>1 DEF Fails, Typed
  <2> QED BY <1>4, <1>11, <2>2, <2>3, <2>4, <2>5 DEF Fails, Typed, exporter
<1> QED BY <1>1, <1>2, <1>3, <1>6, <1>7, <1>8, <1>10, <1>11

\* What begins a job, and what happens outside of jobs, keeps the types.
LEMMA OutsideTyped ==
  ASSUME Typed
  PROVE  /\ \A b \in Batches : Export(b) => Typed'
         /\ ForceFlush => Typed'
         /\ Tick \/ RotateKey => Typed'
         /\ UNCHANGED vars => Typed'
<1>1. ASSUME NEW b \in Batches, Export(b) PROVE Typed'
  <2>1. b \in Jobs /\ <<b>> \in Seq(Batches)
    BY DEF Jobs
  <2>2. Lookup(b, "export", <<b>>, NoSession)
    BY <1>1 DEF Export
  <2>3. jobs' \in [Jobs -> Idle \cup Busy]
    BY <2>1, <2>2, LookupTyped, ConstantsTyped DEF Steps
  <2> QED BY <1>1, <2>3 DEF Export, Typed, provider, exporter, fates
<1>2. ASSUME ForceFlush PROVE Typed'
  <2>1. jobs' \in [Jobs -> Idle \cup Busy]
    <3>1. Flush \in Jobs /\ <<>> \in Seq(Batches)
      BY DEF Jobs
    <3>2. CASE Lookup(Flush, "export", <<>>, NoSession)
      BY <3>1, <3>2, LookupTyped, ConstantsTyped DEF Steps
    <3>3. CASE jobs' = [jobs EXCEPT ![Flush] = [stage |-> "done"]]
      BY <3>1, <3>3 DEF Idle, Typed
    <3> QED BY <1>2, <3>2, <3>3 DEF ForceFlush
  <2> QED BY <1>2, <2>1 DEF ForceFlush, Typed, provider, exporter, fates
<1>3. ASSUME Tick PROVE Typed'
  BY <1>3, JsAssumption DEF Tick, Typed, provider, exporter, fates
<1>4. ASSUME RotateKey PROVE Typed'
  BY <1>4 DEF RotateKey, Typed, provider, exporter, fates
<1>5. ASSUME UNCHANGED vars PROVE Typed'
  BY <1>5 DEF vars, Typed, provider, exporter, fates
<1> QED BY <1>1, <1>2, <1>3, <1>4, <1>5

LEMMA TypedAlways == Spec => []Typed
<1>1. Init => Typed
  <2> SUFFICES ASSUME Init PROVE Typed
    OBVIOUS
  <2>1. jobs \in [Jobs -> Idle \cup Busy]
    BY DEF Init, Idle
  <2>2. now \in 0 .. MaxNow
    BY JsAssumption DEF Init
  <2>3. pending \in Seq(Batches) /\ Len(pending) <= MaxPending
    BY JsAssumption DEF Init
  <2> QED BY <2>1, <2>2, <2>3, ConstantsTyped DEF Init, Typed
<1>2. Typed /\ [Next]_vars => Typed'
  <2> SUFFICES ASSUME Typed, [Next]_vars PROVE Typed'
    OBVIOUS
  <2>1. ASSUME NEW j \in Jobs, JobStep(j) PROVE Typed'
    <3>1. ASSUME Responds(j) PROVE Typed'
      BY <3>1, RespondsKeeps DEF Typed
    <3> QED BY <2>1, <3>1, FlightTyped DEF JobStep
  <2> QED BY <2>1, OutsideTyped DEF Next
<1> QED BY <1>1, <1>2, PTL DEF Spec

\* TypeCorrect: the variables have their types; the buffer of held spans never
\* exceeds MAX_PENDING_SPANS.
THEOREM TypeCorrect == Spec => []TypeOK
<1>1. Typed => TypeOK
  BY BusyOrIdle DEF Typed, TypeOK, Idle, Busy
<1> QED BY <1>1, TypedAlways, PTL

-----------------------------------------------------------------------------
(***************************************************************************)
(* No token arrives too late.  Its life is counted from its arrival at the *)
(* SDK, and a lookup chooses a session that is alive when the lookup       *)
(* begins: at once, or on its way back from a fetch that failed.           *)
(***************************************************************************)

\* The gateway whose key is key knows the key a token was signed with, or has
\* replaced it since.
Signed(token, key) ==
  /\ token.signed <= key.id
  /\ token.signed = key.id => ~ KeyRefused(key)

Good(s, at, key) ==
  s # NoSession =>
    /\ s.token \in Tokens
    /\ Signed(s.token, key)
    /\ s.token.claims.iat <= at
    /\ s.refreshAt <= s.expiresAt

GoodAnswer(answer, asked, at, key) ==
  answer.token # NoKey =>
    /\ answer.token \in Tokens
    /\ Signed(answer.token, key)
    /\ asked <= answer.token.claims.iat
    /\ answer.token.claims.iat <= at
    /\ answer.token.claims.exp = answer.token.claims.iat + answer.expiresIn
    /\ answer.expiresIn > 0

Timely(job, at, key) ==
  /\ Good(job.old, at, key) /\ Good(job.found, at, key)
  /\ GoodAnswer(job.minted, job.asked, at, key)
  /\ job.asked <= at
  /\ job.stage # "fetching" => job.minted = NotMinted
  /\ job.stage = "fetching" => job.asked = job.since
  /\ job.stage \in {"resumed", "sent"} /\ job.found # NoSession => job.asked < job.found.expiresAt

AllTimely ==
  /\ Good(session, now, signing)
  /\ \A j \in Jobs : jobs[j] \in Busy => Timely(jobs[j], now, signing)

\* The gateway's key is kept, or replaced for good.
Later(key, new) == new = key \/ key.id < new.id

LEMMA GoodAges ==
  ASSUME NEW at \in Nat, NEW after \in Nat, at <= after,
         NEW key \in SigningKeys, NEW new \in SigningKeys, Later(key, new)
  PROVE  /\ \A s \in Sessions : Good(s, at, key) => Good(s, after, new)
         /\ \A answer \in Answers, asked \in Nat :
              GoodAnswer(answer, asked, at, key) => GoodAnswer(answer, asked, after, new)
<1>1. \A token \in Tokens : Signed(token, key) => Signed(token, new)
  BY JsAssumption DEF Signed, Later, Tokens
<1>2. \A token \in Tokens : token.claims.iat \in Nat
  BY DEF Tokens
<1>3. ASSUME NEW s \in Sessions, Good(s, at, key) PROVE Good(s, after, new)
  BY <1>1, <1>2, <1>3 DEF Good
<1>4. ASSUME NEW answer \in Answers, NEW asked \in Nat, GoodAnswer(answer, asked, at, key)
      PROVE  GoodAnswer(answer, asked, after, new)
  BY <1>1, <1>2, <1>4 DEF GoodAnswer
<1> QED BY <1>3, <1>4

\* A job that does not move stays timely while the clock does not move.
LEMMA TimelyStays ==
  ASSUME NEW job \in Busy, NEW at \in Nat, NEW key \in SigningKeys, NEW new \in SigningKeys,
         Later(key, new), Timely(job, at, key)
  PROVE  Timely(job, at, new)
<1>1. job.old \in Sessions /\ job.found \in Sessions /\ job.minted \in Answers /\ job.asked \in Nat
  BY DEF Busy
<1>2. Good(job.old, at, new) /\ Good(job.found, at, new) /\ GoodAnswer(job.minted, job.asked, at, new)
  BY <1>1, GoodAges DEF Timely
<1> QED BY <1>2 DEF Timely

LEMMA TimelyTicks ==
  ASSUME NEW job \in Busy, NEW at \in Nat, NEW key \in SigningKeys, Timely(job, at, key),
         job.stage # "resumed"
  PROVE  Timely(job, at + 1, key)
<1>1. job.old \in Sessions /\ job.found \in Sessions /\ job.minted \in Answers /\ job.asked \in Nat
  BY DEF Busy
<1>2. Good(job.old, at + 1, key) /\ Good(job.found, at + 1, key)
      /\ GoodAnswer(job.minted, job.asked, at + 1, key)
  BY <1>1, GoodAges DEF Timely, Later
<1> QED BY <1>1, <1>2, JsAssumption DEF Timely

\* A lookup finds a session that is alive, or none.
LEMMA LookupTimely ==
  ASSUME Typed, Good(session, now, signing), NEW j \in Jobs, NEW step \in Steps,
         NEW spans \in Seq(Batches), NEW given \in Sessions, Lookup(j, step, spans, given)
  PROVE  Timely(jobs'[j], now, signing)
<1>1. /\ jobs'[j].stage = IF Fetches THEN "fetching" ELSE "resumed"
      /\ jobs'[j].old = session
      /\ jobs'[j].found = IF Fetches THEN NoSession ELSE Cached
      /\ jobs'[j].minted = NotMinted
      /\ jobs'[j].asked = now /\ jobs'[j].since = now
  BY DEF Lookup, Typed
<1>2. session \in Sessions /\ now \in Nat /\ session.refreshAt \in Nat /\ session.expiresAt \in Nat
  BY DEF Typed, Sessions
<1>3. Cached = NoSession \/ (Cached = session /\ session # NoSession /\ now < session.expiresAt)
  BY <1>2 DEF Cached, Alive, Good
<1>4. Good(NoSession, now, signing) /\ GoodAnswer(NotMinted, now, now, signing)
  BY DEF Good, GoodAnswer, NotMinted
<1>5. Good(Cached, now, signing)
  BY <1>3, <1>4
<1> QED BY <1>1, <1>2, <1>3, <1>4, <1>5, JsAssumption DEF Timely

\* Jobs other than j, and every job when j is none, stay as they are.
LEMMA OthersTimely ==
  ASSUME Typed, Typed', AllTimely, NEW j, now' = now, Later(signing, signing'),
         \A k \in Jobs \ {j} : jobs'[k] = jobs[k]
  PROVE  /\ \A k \in Jobs \ {j} : jobs'[k] \in Busy => Timely(jobs'[k], now', signing')
         /\ Good(session, now', signing')
<1>1. now \in Nat /\ signing \in SigningKeys /\ signing' \in SigningKeys /\ session \in Sessions
  BY DEF Typed
<1>2. ASSUME NEW k \in Jobs \ {j}, jobs'[k] \in Busy PROVE Timely(jobs'[k], now', signing')
  <2>1. jobs[k] \in Busy /\ Timely(jobs[k], now, signing)
    BY <1>2 DEF AllTimely
  <2>2. Timely(jobs[k], now, signing')
    BY <1>1, <2>1, TimelyStays
  <2> QED BY <2>2
<1>3. Good(session, now, signing')
  BY <1>1, GoodAges DEF AllTimely
<1> QED BY <1>2, <1>3

LEMMA FlightTimely ==
  ASSUME Typed, Typed', AllTimely, NEW j \in Jobs, JobStep(j)
  PROVE  AllTimely'
<1> DEFINE others == \A k \in Jobs \ {j} : jobs'[k] = jobs[k]
<1>1. now \in Nat /\ signing \in SigningKeys /\ session \in Sessions
  BY DEF Typed
<1>2. now' = now /\ signing' = signing
  BY DEF JobStep, Minted, Responds, Fetched, FetchFails, Hold, Drain, Send, Stored, Fails
<1>3. Later(signing, signing')
  BY <1>2 DEF Later
<1>4. jobs[j] \in Busy
  BY StepsAlone
<1>5. Timely(jobs[j], now, signing) /\ Good(session, now, signing)
  BY <1>4 DEF AllTimely
<1>6. others
  BY StepsAlone
<1>7. \A k \in Jobs \ {j} : jobs'[k] \in Busy => Timely(jobs'[k], now', signing')
  BY <1>2, <1>3, <1>6, OthersTimely
<1> HIDE DEF others
<1>8. SUFFICES (jobs'[j] \in Busy => Timely(jobs'[j], now, signing)) /\ Good(session', now, signing)
  BY <1>2, <1>7 DEF AllTimely
<1>9. /\ jobs[j].old \in Sessions /\ jobs[j].found \in Sessions /\ jobs[j].minted \in Answers
      /\ jobs[j].asked \in Nat /\ jobs[j].step \in Steps
  BY <1>4 DEF Busy
<1>10. Good(NoSession, now, signing) /\ GoodAnswer(NotMinted, jobs[j].asked, now, signing)
  BY DEF Good, GoodAnswer, NotMinted
<1>11. CASE Minted(j)
  <2>1. PICK request \in SessionRequests :
          /\ SessionStatus(request, signing) = 200
          /\ jobs' = [jobs EXCEPT ![j].minted =
                SessionAnswer(request, signing, now, <<j, jobs[j].step>>)]
    BY <1>11 DEF Minted
  <2> DEFINE answer == SessionAnswer(request, signing, now, <<j, jobs[j].step>>)
  <2>2. /\ answer \in Answers /\ answer.token \in Tokens /\ answer.token.signed = signing.id
        /\ answer.token.claims.iat = now
        /\ answer.token.claims.exp = now + answer.expiresIn
        /\ answer.expiresIn > 0 /\ ~ KeyRefused(signing)
    BY <1>9, <2>1, MintedTyped
  <2> HIDE DEF answer
  <2>3. jobs'[j] = [jobs[j] EXCEPT !.minted = answer]
    BY <2>1 DEF Typed, answer
  <2>4. /\ jobs'[j].minted = answer /\ jobs'[j].old = jobs[j].old /\ jobs'[j].found = jobs[j].found
        /\ jobs'[j].asked = jobs[j].asked /\ jobs'[j].stage = "fetching"
        /\ jobs'[j].since = jobs[j].since
    BY <1>4, <1>11, <2>3 DEF Busy, Minted
  <2>5. GoodAnswer(answer, jobs[j].asked, now, signing)
    BY <1>1, <1>5, <2>2, JsAssumption DEF GoodAnswer, Signed, Timely
  <2>6. Timely(jobs'[j], now, signing)
    BY <1>5, <1>11, <2>4, <2>5 DEF Timely, Minted
  <2> QED BY <1>5, <1>11, <2>6 DEF Minted, provider
<1>17. CASE Responds(j)
  BY <1>5, <1>17, RespondsKeeps DEF Timely
<1>12. CASE Fetched(j)
  <2> DEFINE m == jobs[j].minted
  <2>1. PICK after \in RefreshAfter(m.expiresIn) :
          session' = [token     |-> m.token,
                      refreshAt |-> now + after,
                      expiresAt |-> now + m.expiresIn]
    BY <1>12 DEF Fetched
  <2>2. m.expiresIn \in Nat /\ m.token # NoKey
    BY <1>9, <1>12 DEF Answers, Fetched
  <2>3. after \in Nat /\ after <= m.expiresIn
    BY <2>2, RefreshInTime
  <2>4. GoodAnswer(m, jobs[j].asked, now, signing) /\ jobs[j].asked <= now
    BY <1>5, <1>12 DEF Timely, Fetched
  <2>5. /\ m.token \in Tokens /\ Signed(m.token, signing)
        /\ m.token.claims.iat \in Nat /\ m.token.claims.exp \in Nat
        /\ jobs[j].asked <= m.token.claims.iat
        /\ m.token.claims.iat <= now
        /\ m.token.claims.exp = m.token.claims.iat + m.expiresIn
        /\ m.expiresIn > 0
    BY <2>2, <2>4 DEF GoodAnswer, Tokens
  <2> HIDE DEF m
  <2>6. /\ session'.token = m.token /\ session'.refreshAt = now + after
        /\ session'.expiresAt = now + m.expiresIn
    BY <2>1
  <2>8. Good(session', now, signing)
    BY <1>1, <2>2, <2>3, <2>5, <2>6 DEF Good
  <2>9. /\ jobs'[j].stage = "resumed" /\ jobs'[j].old = jobs[j].old /\ jobs'[j].found = session'
        /\ jobs'[j].minted = NotMinted /\ jobs'[j].asked = jobs[j].asked
    BY <1>4, <1>12 DEF Typed, Busy, Fetched
  <2>10. jobs[j].asked < session'.expiresAt
    BY <1>1, <1>9, <2>2, <2>4, <2>5, <2>6
  <2> QED BY <1>5, <1>10, <2>8, <2>9, <2>10 DEF Timely
<1>13. CASE FetchFails(j)
  <2> DEFINE back == IF jobs[j].old # NoSession /\ jobs[j].since < jobs[j].old.expiresAt
                     THEN jobs[j].old ELSE NoSession
  <2>1. jobs' = [jobs EXCEPT ![j].stage = "resumed", ![j].minted = NotMinted, ![j].found = back]
    BY <1>13 DEF FetchFails
  <2>5. jobs[j].asked = jobs[j].since
    BY <1>5, <1>13 DEF Timely, FetchFails
  <2>2. back # NoSession => back = jobs[j].old /\ jobs[j].asked < back.expiresAt
    BY <2>5
  <2>3. back = NoSession \/ back = jobs[j].old
    OBVIOUS
  <2> HIDE DEF back
  <2>4. /\ jobs'[j].stage = "resumed" /\ jobs'[j].old = jobs[j].old /\ jobs'[j].found = back
        /\ jobs'[j].minted = NotMinted /\ jobs'[j].asked = jobs[j].asked
    BY <1>4, <2>1 DEF Typed, Busy
  <2>7. Good(back, now, signing)
    BY <1>5, <1>10, <2>3 DEF Timely
  <2> QED BY <1>5, <1>10, <1>13, <2>2, <2>4, <2>7 DEF Timely, FetchFails
<1>14. ASSUME Hold(j) \/ Stored(j) \/ Fails(j)
       PROVE  jobs'[j] \notin Busy /\ Good(session', now, signing)
  <2>1. jobs'[j] = [stage |-> "done"]
    BY <1>14 DEF Typed, Hold, Stored, Fails, Finish
  <2>2. jobs'[j].stage = "done"
    BY <2>1
  <2>3. jobs'[j] \notin Busy
    BY <2>2 DEF Busy
  <2>4. session' = session \/ session' = NoSession
    BY <1>14 DEF Hold, Stored, Fails, provider
  <2> QED BY <1>5, <1>10, <2>3, <2>4
<1>15. CASE Drain(j)
  <2>1. pending \o jobs[j].spans \in Seq(Batches)
    BY <1>4 DEF Busy, Typed
  <2>2. Lookup(j, "headers", pending \o jobs[j].spans, jobs[j].found) /\ session' = session
    BY <1>15 DEF Drain, provider
  <2>3. Timely(jobs'[j], now, signing)
    BY <1>5, <1>9, <2>1, <2>2, LookupTimely DEF Steps
  <2> QED BY <1>5, <2>2, <2>3
<1>16. CASE Send(j)
  <2>1. /\ jobs'[j].stage = "sent" /\ jobs'[j].old = jobs[j].old /\ jobs'[j].found = jobs[j].found
        /\ jobs'[j].minted = jobs[j].minted /\ jobs'[j].asked = jobs[j].asked
    BY <1>4, <1>16 DEF Typed, Busy, Send
  <2>2. jobs[j].stage = "resumed" /\ session' = session
    BY <1>16 DEF Send, provider
  <2>3. Good(jobs[j].old, now, signing) /\ Good(jobs[j].found, now, signing)
        /\ (jobs[j].found # NoSession => jobs[j].asked < jobs[j].found.expiresAt)
    BY <1>5, <2>2 DEF Timely
  <2>4. jobs[j].minted = NotMinted
    BY <1>5, <2>2 DEF Timely
  <2> QED BY <1>5, <1>10, <2>1, <2>2, <2>3, <2>4 DEF Timely
<1> QED BY <1>11, <1>12, <1>13, <1>14, <1>15, <1>16, <1>17 DEF JobStep

LEMMA OutsideTimely ==
  ASSUME Typed, Typed', AllTimely
  PROVE  /\ \A b \in Batches : Export(b) => AllTimely'
         /\ ForceFlush => AllTimely'
         /\ Tick \/ RotateKey => AllTimely'
         /\ UNCHANGED vars => AllTimely'
<1>1. now \in Nat /\ signing \in SigningKeys /\ session \in Sessions /\ signing' \in SigningKeys
  BY DEF Typed
<1>2. Later(signing, signing)
  BY DEF Later
<1>3. ASSUME NEW j \in Jobs, NEW spans \in Seq(Batches), Lookup(j, "export", spans, NoSession),
             UNCHANGED <<now, signing, session>>
      PROVE  AllTimely'
  <2>1. Timely(jobs'[j], now, signing) /\ \A k \in Jobs \ {j} : jobs'[k] = jobs[k]
    BY <1>3, LookupTyped, LookupTimely, ConstantsTyped DEF AllTimely, Steps
  <2>2. \A k \in Jobs \ {j} : jobs'[k] \in Busy => Timely(jobs'[k], now', signing')
    BY <1>2, <1>3, <2>1, OthersTimely
  <2> QED BY <1>3, <2>1, <2>2 DEF AllTimely
<1>4. ASSUME NEW b \in Batches, Export(b) PROVE AllTimely'
  <2>1. b \in Jobs /\ <<b>> \in Seq(Batches) /\ Lookup(b, "export", <<b>>, NoSession)
    BY <1>4 DEF Jobs, Export
  <2> QED BY <1>3, <1>4, <2>1 DEF Export, provider
<1>5. ASSUME ForceFlush PROVE AllTimely'
  <2>1. Flush \in Jobs /\ <<>> \in Seq(Batches)
    BY DEF Jobs
  <2>2. CASE Lookup(Flush, "export", <<>>, NoSession)
    BY <1>3, <1>5, <2>1, <2>2 DEF ForceFlush, provider
  <2>3. CASE jobs' = [jobs EXCEPT ![Flush] = [stage |-> "done"]]
    <3>1. jobs'[Flush].stage = "done" /\ \A k \in Jobs \ {Flush} : jobs'[k] = jobs[k]
      BY <2>1, <2>3 DEF Typed
    <3>2. jobs'[Flush] \notin Busy
      BY <3>1 DEF Busy
    <3>3. now' = now /\ signing' = signing /\ session' = session
      BY <1>5 DEF ForceFlush, provider
    <3>4. \A k \in Jobs \ {Flush} : jobs'[k] \in Busy => Timely(jobs'[k], now', signing')
      BY <1>2, <3>1, <3>3, OthersTimely
    <3> QED BY <3>2, <3>3, <3>4 DEF AllTimely
  <2> QED BY <1>5, <2>2, <2>3 DEF ForceFlush
<1>6. ASSUME Tick PROVE AllTimely'
  <2>1. now' = now + 1 /\ UNCHANGED <<signing, session, jobs>>
    BY <1>6 DEF Tick, provider
  <2>2. ASSUME NEW j \in Jobs, jobs[j] \in Busy PROVE Timely(jobs[j], now + 1, signing)
    <3>1. j \in Active
      BY <2>2, BusyOrIdle DEF Typed
    <3>2. jobs[j].stage # "resumed"
      BY <1>6, <3>1 DEF Tick, Settled
    <3> QED BY <1>1, <2>2, <3>2, TimelyTicks DEF AllTimely
  <2>3. Good(session, now + 1, signing)
    BY <1>1, <1>2, GoodAges DEF AllTimely
  <2> QED BY <2>1, <2>2, <2>3 DEF AllTimely
<1>7. ASSUME RotateKey PROVE AllTimely'
  <2>1. Later(signing, signing') /\ UNCHANGED <<now, session, jobs>>
    BY <1>7, JsAssumption DEF RotateKey, Later, provider
  <2>2. Good(session, now, signing')
    BY <1>1, <2>1, GoodAges DEF AllTimely
  <2>3. ASSUME NEW j \in Jobs, jobs[j] \in Busy PROVE Timely(jobs[j], now, signing')
    BY <1>1, <2>1, <2>3, TimelyStays DEF AllTimely
  <2> QED BY <2>1, <2>2, <2>3 DEF AllTimely
<1>8. ASSUME UNCHANGED vars PROVE AllTimely'
  BY <1>8 DEF vars, provider, AllTimely
<1> QED BY <1>4, <1>5, <1>6, <1>7, <1>8

LEMMA TimelyAlways == Spec => []AllTimely
<1>1. Init => AllTimely
  BY DEF Init, AllTimely, Good, Busy
<1>2. Typed /\ Typed' /\ AllTimely /\ [Next]_vars => AllTimely'
  BY FlightTimely, OutsideTimely DEF Next
<1> QED BY <1>1, <1>2, TypedAlways, PTL DEF Spec

\* NeverLate: for any lifetimes, timeouts and leeway, a token signed with the gateway's
\* present key is refused as expired only when what it took to arrive, and what passed
\* from the lookup that chose it to the gateway, are longer than the leeway together.
THEOREM NeverLate == Spec => []NeverLateToken
<1>1. Typed /\ AllTimely => NeverLateToken
  <2> SUFFICES ASSUME Typed, AllTimely, NEW j \in Jobs, jobs[j].stage = "sent",
                      Presented(j) # NoKey, Presented(j).signed = signing.id,
                      Lag(jobs[j].found) + (now - jobs[j].asked) <= Leeway
               PROVE  Accepts(j)
    BY DEF NeverLateToken
  <2>1. jobs[j] \in Busy /\ now \in Nat
    BY BusyOrIdle DEF Typed
  <2> DEFINE s == jobs[j].found
             token == Presented(j)
  <2>2. s \in Sessions /\ jobs[j].asked \in Nat /\ s # NoSession
    BY <2>1 DEF Busy, Presented, NoSession
  <2>3. Good(s, now, signing) /\ jobs[j].asked < s.expiresAt
    BY <2>1, <2>2 DEF AllTimely, Timely
  <2>4. /\ token \in Tokens /\ ~ KeyRefused(signing) /\ token.claims.iat <= now
        /\ s.expiresAt - token.claims.exp + (now - jobs[j].asked) <= Leeway
    BY <2>2, <2>3 DEF Good, Signed, Presented, Lag
  <2>5. s.expiresAt \in Nat /\ token.claims.exp \in Nat /\ token.claims.iat \in Nat
        /\ token.shape = "jwt"
    BY <2>2, <2>4 DEF Sessions, Tokens
  <2> HIDE DEF s, token
  <2>6. now < token.claims.exp + Leeway
    BY <2>1, <2>2, <2>3, <2>4, <2>5, TokenAssumption
  <2>7. token.claims.iat <= now + Leeway
    BY <2>1, <2>4, <2>5, TokenAssumption
  <2>8. Verified(token, signing, now)
    BY <2>4, <2>6, <2>7 DEF Verified, token
  <2>9. PrincipalFrom(token, signing, now) = PrincipalFor(token.claims)
    BY <2>5, <2>8 DEF PrincipalFrom
  <2>10. PrincipalFor(token.claims) # NoPrincipal
    BY DEF PrincipalFor, NoPrincipal
  <2> QED BY <2>9, <2>10 DEF Accepts, token
<1> QED BY <1>1, TypedAlways, TimelyAlways, PTL

-----------------------------------------------------------------------------
(***************************************************************************)
(* A fetch brings a token nobody has had: its jti names the lookup that    *)
(* waited for it, and a token that is in use, or was rejected, belongs to  *)
(* a lookup that is over.                                                  *)
(***************************************************************************)

Known(token) ==
  \/ token \in rejected
  \/ token = session.token
  \/ \E k \in Jobs : jobs[k] \in Busy /\ token \in {jobs[k].old.token, jobs[k].found.token,
                                                    jobs[k].given.token}

Passed(job, step) ==
  \/ job.stage = "done"
  \/ job \in Busy /\ job.step = "headers" /\ step = "export"
  \/ job \in Busy /\ job.step = step /\ job.stage # "fetching"

AllFresh ==
  /\ \A token \in Tokens :
       Known(token) => Passed(jobs[token.claims.jti[1]], token.claims.jti[2])
  /\ \A j \in Jobs : jobs[j] \in Busy /\ jobs[j].minted.token # NoKey =>
       jobs[j].minted.token.claims.jti = <<j, jobs[j].step>>

LEMMA FetchIsNew ==
  ASSUME Typed, AllFresh, AllTimely, NEW j \in Jobs, Fetched(j)
  PROVE  /\ jobs[j].minted.token \in Tokens
         /\ ~ Known(jobs[j].minted.token)
         /\ session'.token = jobs[j].minted.token
<1>1. jobs[j] \in Busy /\ jobs[j].stage = "fetching" /\ jobs[j].minted.token # NoKey
  BY BusyOrIdle DEF Typed, Fetched
<1>2. jobs[j].minted.token \in Tokens
  BY <1>1 DEF Busy, Answers
<1>3. jobs[j].minted.token.claims.jti = <<j, jobs[j].step>>
  BY <1>1 DEF AllFresh
<1>4. ~ Passed(jobs[j], jobs[j].step)
  BY <1>1 DEF Passed
<1>5. ~ Known(jobs[j].minted.token)
  BY <1>2, <1>3, <1>4 DEF AllFresh
<1>6. session'.token = jobs[j].minted.token
  BY DEF Fetched
<1> QED BY <1>2, <1>5, <1>6

\* A lookup uses no other tokens than there were, and undoes no earlier one.
LEMMA LookupFresh ==
  ASSUME Typed, AllFresh, NEW j \in Jobs, NEW step \in Steps, NEW spans \in Seq(Batches),
         NEW given \in Sessions, Lookup(j, step, spans, given),
         given = NoSession \/ (jobs[j] \in Busy /\ given = jobs[j].found),
         jobs[j].stage = "new" \/ (jobs[j] \in Busy /\ jobs[j].step = "export" /\ step = "headers"),
         UNCHANGED <<session, rejected>>
  PROVE  AllFresh'
<1>1. /\ jobs'[j].old = session /\ jobs'[j].step = step
      /\ jobs'[j].found = NoSession \/ jobs'[j].found = session
      /\ jobs'[j].minted = NotMinted /\ jobs'[j].given = given
      /\ jobs'[j].stage \in {"fetching", "resumed"}
  BY DEF Lookup, Typed, Cached
<1>2. jobs'[j] \in Busy /\ \A k \in Jobs \ {j} : jobs'[k] = jobs[k]
  BY LookupTyped
<1>3. ASSUME NEW token \in Tokens, Known(token)' PROVE Known(token)
  <2>1. token # NoKey
    BY ConstantsTyped
  <2>2. NoSession.token = NoKey
    BY DEF NoSession
  <2>3. CASE token \in {jobs'[j].old.token, jobs'[j].found.token, jobs'[j].given.token}
    BY <1>1, <2>1, <2>2, <2>3 DEF Known
  <2>4. CASE \E k \in Jobs \ {j} : jobs'[k] \in Busy
               /\ token \in {jobs'[k].old.token, jobs'[k].found.token, jobs'[k].given.token}
    BY <1>2, <2>4 DEF Known
  <2>5. CASE token \in rejected' \/ token = session'.token
    BY <2>5 DEF Known
  <2> QED BY <1>3, <2>3, <2>4, <2>5 DEF Known
<1>4. ASSUME NEW k \in Jobs, NEW other \in Steps, Passed(jobs[k], other)
      PROVE  Passed(jobs'[k], other)
  <2>1. CASE k # j
    BY <1>2, <1>4, <2>1
  <2>2. CASE k = j
    <3>1. other = "export" /\ step = "headers"
      BY <1>4, <2>2 DEF Passed, Busy, Steps
    <3> QED BY <1>1, <1>2, <2>2, <3>1 DEF Passed
  <2> QED BY <2>1, <2>2
<1>5. ASSUME NEW token \in Tokens, Known(token)'
      PROVE  Passed(jobs'[token.claims.jti[1]], token.claims.jti[2])
  <2>1. token.claims.jti[1] \in Jobs /\ token.claims.jti[2] \in Steps
    BY DEF Tokens
  <2> QED BY <1>3, <1>4, <1>5, <2>1 DEF AllFresh
<1>6. ASSUME NEW k \in Jobs, jobs'[k] \in Busy, jobs'[k].minted.token # NoKey
      PROVE  jobs'[k].minted.token.claims.jti = <<k, jobs'[k].step>>
  <2>1. k # j
    BY <1>1, <1>6 DEF NotMinted
  <2> QED BY <1>2, <1>6, <2>1 DEF AllFresh
<1> QED BY <1>5, <1>6 DEF AllFresh

\* What is needed of a step: it makes at most tokens known of lookups that are over.
LEMMA FreshIf ==
  ASSUME Typed, AllFresh,
         \A token \in Tokens : Known(token)' =>
           Known(token) \/ Passed(jobs'[token.claims.jti[1]], token.claims.jti[2]),
         \A k \in Jobs : \A step \in Steps : Passed(jobs[k], step) => Passed(jobs'[k], step),
         \A k \in Jobs : jobs'[k] \in Busy /\ jobs'[k].minted.token # NoKey =>
           jobs'[k].minted.token.claims.jti = <<k, jobs'[k].step>>
  PROVE  AllFresh'
<1>1. \A token \in Tokens : token.claims.jti[1] \in Jobs /\ token.claims.jti[2] \in Steps
  BY DEF Tokens
<1> QED BY <1>1 DEF AllFresh

LEMMA FlightFresh ==
  ASSUME Typed, AllTimely, AllFresh, NEW j \in Jobs, JobStep(j)
  PROVE  AllFresh'
<1>1. jobs[j] \in Busy
  BY StepsAlone
<1>2. \A k \in Jobs \ {j} : jobs'[k] = jobs[k]
  BY StepsAlone
<1>3. NoSession.token = NoKey /\ NoKey \notin Tokens
  BY ConstantsTyped DEF NoSession
<1>4. CASE Minted(j)
  <2>1. PICK request \in SessionRequests :
          /\ SessionStatus(request, signing) = 200
          /\ jobs' = [jobs EXCEPT ![j].minted =
                SessionAnswer(request, signing, now, <<j, jobs[j].step>>)]
    BY <1>4 DEF Minted
  <2> DEFINE answer == SessionAnswer(request, signing, now, <<j, jobs[j].step>>)
  <2>2. <<j, jobs[j].step>> \in Jobs \X Steps
    BY <1>1 DEF Busy
  <2>3. answer \in Answers /\ answer.token.claims.jti = <<j, jobs[j].step>>
    BY <2>1, <2>2, MintedTyped
  <2> HIDE DEF answer
  <2>4. jobs'[j] = [jobs[j] EXCEPT !.minted = answer]
    BY <2>1 DEF Typed, answer
  <2>5. /\ jobs'[j] \in Busy
        /\ jobs'[j].old = jobs[j].old /\ jobs'[j].found = jobs[j].found
        /\ jobs'[j].given = jobs[j].given /\ jobs'[j].stage = jobs[j].stage
        /\ jobs'[j].step = jobs[j].step /\ jobs'[j].minted = answer
    BY <1>1, <2>3, <2>4 DEF Busy
  <2>6. session' = session /\ rejected' = rejected
    BY <1>4 DEF Minted, provider, fates
  <2>7. \A token \in Tokens : Known(token)' => Known(token)
    BY <1>1, <1>2, <2>5, <2>6 DEF Known
  <2>8. \A k \in Jobs : \A step \in Steps : Passed(jobs[k], step) => Passed(jobs'[k], step)
    BY <1>1, <1>2, <2>5 DEF Passed
  <2>9. \A k \in Jobs : jobs'[k] \in Busy /\ jobs'[k].minted.token # NoKey =>
          jobs'[k].minted.token.claims.jti = <<k, jobs'[k].step>>
    BY <1>2, <2>3, <2>5 DEF AllFresh
  <2> QED BY <2>7, <2>8, <2>9, FreshIf
<1>10. CASE Responds(j)
  <2>1. /\ jobs'[j] \in Busy /\ session' = session /\ rejected' = rejected
        /\ jobs'[j].old = jobs[j].old /\ jobs'[j].found = jobs[j].found
        /\ jobs'[j].given = jobs[j].given /\ jobs'[j].stage = jobs[j].stage
        /\ jobs'[j].step = jobs[j].step /\ jobs'[j].minted = jobs[j].minted
    BY <1>10, RespondsKeeps
  <2>2. \A token \in Tokens : Known(token)' => Known(token)
    BY <1>1, <1>2, <2>1 DEF Known
  <2>3. \A k \in Jobs : \A step \in Steps : Passed(jobs[k], step) => Passed(jobs'[k], step)
    BY <1>1, <1>2, <2>1 DEF Passed
  <2>4. \A k \in Jobs : jobs'[k] \in Busy /\ jobs'[k].minted.token # NoKey =>
          jobs'[k].minted.token.claims.jti = <<k, jobs'[k].step>>
    BY <1>1, <1>2, <2>1 DEF AllFresh
  <2> QED BY <2>2, <2>3, <2>4, FreshIf
<1>5. CASE Fetched(j)
  <2>1. /\ jobs[j].stage = "fetching" /\ jobs'[j].stage = "resumed"
        /\ jobs'[j].old = jobs[j].old /\ jobs'[j].found = session'
        /\ jobs'[j].given = jobs[j].given /\ jobs'[j].step = jobs[j].step
        /\ jobs'[j].minted = NotMinted
    BY <1>1, <1>5 DEF Typed, Busy, Fetched
  <2>2. /\ jobs[j].minted.token \in Tokens
        /\ session'.token = jobs[j].minted.token
        /\ jobs[j].minted.token.claims.jti = <<j, jobs[j].step>>
    BY <1>1, <1>3, <1>5, FetchIsNew DEF AllFresh
  <2>3. jobs'[j] \in Busy
    <3>1. Typed'
      BY <1>5, FlightTyped
    <3> QED BY <2>1, <3>1, BusyOrIdle DEF Typed, Idle
  <2>4. rejected' = rejected
    BY <1>5 DEF Fetched, fates
  <2>5. \A token \in Tokens : Known(token)' => Known(token) \/ token = jobs[j].minted.token
    BY <1>1, <1>2, <2>1, <2>2, <2>4 DEF Known
  <2>6. Passed(jobs'[j], jobs[j].step)
    BY <2>1, <2>3 DEF Passed
  <2>7. \A k \in Jobs : \A step \in Steps : Passed(jobs[k], step) => Passed(jobs'[k], step)
    <3>1. \A step \in Steps : Passed(jobs[j], step) => Passed(jobs'[j], step)
      BY <1>1, <2>1, <2>3 DEF Passed
    <3> QED BY <1>2, <3>1
  <2>8. \A k \in Jobs : jobs'[k] \in Busy /\ jobs'[k].minted.token # NoKey =>
          jobs'[k].minted.token.claims.jti = <<k, jobs'[k].step>>
    <3>1. jobs'[j].minted.token = NoKey
      BY <2>1 DEF NotMinted
    <3> QED BY <1>2, <3>1 DEF AllFresh
  <2>9. \A token \in Tokens : Known(token)' =>
          Known(token) \/ Passed(jobs'[token.claims.jti[1]], token.claims.jti[2])
    <3>1. LET jti == jobs[j].minted.token.claims.jti IN jti[1] = j /\ jti[2] = jobs[j].step
      BY <2>2
    <3> QED BY <2>5, <2>6, <3>1
  <2> QED BY <2>7, <2>8, <2>9, FreshIf
<1>6. CASE FetchFails(j)
  <2>1. /\ jobs[j].stage = "fetching" /\ jobs'[j].stage = "resumed"
        /\ jobs'[j].old = jobs[j].old
        /\ jobs'[j].found = NoSession \/ jobs'[j].found = jobs[j].old
        /\ jobs'[j].given = jobs[j].given /\ jobs'[j].step = jobs[j].step
        /\ jobs'[j].minted = NotMinted
    BY <1>1, <1>6 DEF Typed, Busy, FetchFails
  <2>2. jobs'[j] \in Busy
    <3>1. Typed'
      BY <1>6, FlightTyped
    <3> QED BY <2>1, <3>1, BusyOrIdle DEF Typed, Idle
  <2>3. rejected' = rejected /\ session' = session
    BY <1>6 DEF FetchFails, fates
  <2>4. \A token \in Tokens : Known(token)' => Known(token)
    BY <1>1, <1>2, <1>3, <2>1, <2>3 DEF Known
  <2>5. \A k \in Jobs : \A step \in Steps : Passed(jobs[k], step) => Passed(jobs'[k], step)
    BY <1>1, <1>2, <2>1, <2>2 DEF Passed
  <2>6. \A k \in Jobs : jobs'[k] \in Busy /\ jobs'[k].minted.token # NoKey =>
          jobs'[k].minted.token.claims.jti = <<k, jobs'[k].step>>
    BY <1>2, <2>1 DEF AllFresh, NotMinted
  <2> QED BY <2>4, <2>5, <2>6, FreshIf
<1>7. ASSUME Hold(j) \/ Stored(j) \/ Fails(j) PROVE AllFresh'
  <2>1. jobs'[j].stage = "done" /\ jobs'[j] \notin Busy
    BY <1>7 DEF Typed, Hold, Stored, Fails, Finish, Busy
  <2>2. session' = session \/ session' = NoSession
    BY <1>7 DEF Hold, Stored, Fails, provider
  <2>3. rejected' \subseteq rejected \cup {jobs[j].found.token}
    BY <1>7 DEF Hold, Stored, Fails, Presented
  <2>4. \A token \in Tokens : Known(token)' => Known(token)
    BY <1>1, <1>2, <1>3, <2>1, <2>2, <2>3 DEF Known
  <2>5. \A k \in Jobs : \A step \in Steps : Passed(jobs[k], step) => Passed(jobs'[k], step)
    BY <1>2, <2>1 DEF Passed
  <2>6. \A k \in Jobs : jobs'[k] \in Busy /\ jobs'[k].minted.token # NoKey =>
          jobs'[k].minted.token.claims.jti = <<k, jobs'[k].step>>
    BY <1>2, <2>1 DEF AllFresh
  <2> QED BY <2>4, <2>5, <2>6, FreshIf
<1>8. CASE Drain(j)
  <2>1. pending \o jobs[j].spans \in Seq(Batches) /\ jobs[j].found \in Sessions
    BY <1>1 DEF Busy, Typed
  <2>2. Lookup(j, "headers", pending \o jobs[j].spans, jobs[j].found)
        /\ jobs[j].step = "export" /\ UNCHANGED <<session, rejected>>
    BY <1>8 DEF Drain, provider, fates
  <2> QED BY <1>1, <2>1, <2>2, LookupFresh DEF Steps
<1>9. CASE Send(j)
  <2>1. /\ jobs'[j].stage = "sent" /\ jobs[j].stage = "resumed"
        /\ jobs'[j].old = jobs[j].old /\ jobs'[j].found = jobs[j].found
        /\ jobs'[j].given = jobs[j].given /\ jobs'[j].step = jobs[j].step
        /\ jobs'[j].minted = jobs[j].minted
    BY <1>1, <1>9 DEF Typed, Busy, Send
  <2>2. jobs'[j] \in Busy
    <3>1. Typed'
      BY <1>9, FlightTyped
    <3> QED BY <2>1, <3>1, BusyOrIdle DEF Typed, Idle
  <2>3. session' = session /\ rejected' = rejected
    BY <1>9 DEF Send, provider, fates
  <2>4. \A token \in Tokens : Known(token)' => Known(token)
    BY <1>1, <1>2, <2>1, <2>3 DEF Known
  <2>5. \A k \in Jobs : \A step \in Steps : Passed(jobs[k], step) => Passed(jobs'[k], step)
    BY <1>1, <1>2, <2>1, <2>2 DEF Passed
  <2>6. \A k \in Jobs : jobs'[k] \in Busy /\ jobs'[k].minted.token # NoKey =>
          jobs'[k].minted.token.claims.jti = <<k, jobs'[k].step>>
    BY <1>1, <1>2, <2>1 DEF AllFresh
  <2> QED BY <2>4, <2>5, <2>6, FreshIf
<1> QED BY <1>4, <1>5, <1>6, <1>7, <1>8, <1>9, <1>10 DEF JobStep

LEMMA OutsideFresh ==
  ASSUME Typed, AllFresh
  PROVE  /\ \A b \in Batches : Export(b) => AllFresh'
         /\ ForceFlush => AllFresh'
         /\ Tick \/ RotateKey \/ UNCHANGED vars => AllFresh'
<1>1. ASSUME NEW b \in Batches, Export(b) PROVE AllFresh'
  <2>1. b \in Jobs /\ <<b>> \in Seq(Batches) /\ Lookup(b, "export", <<b>>, NoSession)
        /\ jobs[b].stage = "new" /\ UNCHANGED <<session, rejected>>
    BY <1>1 DEF Jobs, Export, provider, fates
  <2> QED BY <2>1, LookupFresh, ConstantsTyped DEF Steps
<1>2. ASSUME ForceFlush PROVE AllFresh'
  <2>1. Flush \in Jobs /\ <<>> \in Seq(Batches) /\ UNCHANGED <<session, rejected>>
        /\ jobs[Flush].stage = "new"
    BY <1>2 DEF Jobs, ForceFlush, provider, fates
  <2>2. CASE Lookup(Flush, "export", <<>>, NoSession)
    BY <2>1, <2>2, LookupFresh, ConstantsTyped DEF Steps
  <2>3. CASE jobs' = [jobs EXCEPT ![Flush] = [stage |-> "done"]]
    <3>1. jobs'[Flush].stage = "done" /\ \A k \in Jobs \ {Flush} : jobs'[k] = jobs[k]
      BY <2>1, <2>3 DEF Typed
    <3>2. jobs'[Flush] \notin Busy
      BY <3>1 DEF Busy
    <3>3. \A token \in Tokens : Known(token)' => Known(token)
      BY <2>1, <3>1, <3>2 DEF Known
    <3>4. \A k \in Jobs : \A step \in Steps : Passed(jobs[k], step) => Passed(jobs'[k], step)
      BY <3>1 DEF Passed
    <3>5. \A k \in Jobs : jobs'[k] \in Busy /\ jobs'[k].minted.token # NoKey =>
            jobs'[k].minted.token.claims.jti = <<k, jobs'[k].step>>
      BY <3>1, <3>2 DEF AllFresh
    <3> QED BY <3>3, <3>4, <3>5, FreshIf
  <2> QED BY <1>2, <2>2, <2>3 DEF ForceFlush
<1>3. ASSUME Tick \/ RotateKey \/ UNCHANGED vars PROVE AllFresh'
  <2>1. UNCHANGED <<jobs, session, rejected>>
    BY <1>3 DEF Tick, RotateKey, vars, provider, fates
  <2> QED BY <2>1 DEF AllFresh, Known
<1> QED BY <1>1, <1>2, <1>3

LEMMA FreshAlways == Spec => []AllFresh
<1>1. Init => AllFresh
  <2> SUFFICES ASSUME Init PROVE AllFresh
    OBVIOUS
  <2>1. \A k \in Jobs : jobs[k] \notin Busy
    BY DEF Init, Busy
  <2>2. \A token \in Tokens : ~ Known(token)
    BY <2>1, ConstantsTyped DEF Init, Known, NoSession
  <2> QED BY <2>1, <2>2 DEF AllFresh
<1>2. Typed /\ AllTimely /\ AllFresh /\ [Next]_vars => AllFresh'
  BY FlightFresh, OutsideFresh DEF Next
<1> QED BY <1>1, <1>2, TypedAlways, TimelyAlways, PTL DEF Spec

-----------------------------------------------------------------------------
(***************************************************************************)
(* What was rejected stays dropped, and what was working is used.          *)
(***************************************************************************)

\* No lookup has, or will be given, a token that was rejected before it began.
Dropped ==
  /\ session # NoSession => session.token \notin rejected
  /\ \A j \in Jobs : jobs[j] \in Busy =>
       /\ jobs[j].knows \subseteq rejected
       /\ jobs[j].old # NoSession => jobs[j].old.token \notin jobs[j].knows
       /\ jobs[j].found # NoSession => jobs[j].found.token \notin jobs[j].knows

\* The session a delegate was created for is gone.
Gone(given, s, at) == s # given \/ at >= given.expiresAt

\* A delegate asks for the session its export was given, and finds it while it lasts.
Used ==
  \A j \in Jobs : jobs[j] \in Busy /\ jobs[j].step = "headers" =>
    /\ jobs[j].given # NoSession
    /\ jobs[j].given.token \in Tokens
    /\ jobs[j].stage = "fetching" =>
         jobs[j].old = jobs[j].given \/ Gone(jobs[j].given, session, now)
    /\ jobs[j].stage # "fetching" /\ jobs[j].found = NoSession =>
         Gone(jobs[j].given, session, now)

\* What a lookup finds, in the terms of both.
LEMMA LookupFinds ==
  ASSUME Typed, Dropped, Good(session, now, signing), NEW j \in Jobs, NEW step \in Steps,
         NEW spans \in Seq(Batches), NEW given \in Sessions, Lookup(j, step, spans, given),
         UNCHANGED <<now, session, rejected>>
  PROVE  /\ jobs'[j].knows = rejected
         /\ jobs'[j].old = session
         /\ jobs'[j].found # NoSession => jobs'[j].found = session
         /\ jobs'[j].given = given
         /\ jobs'[j].stage \in {"fetching", "resumed"}
         /\ jobs'[j].stage = "fetching" /\ given # NoSession =>
              jobs'[j].old = given \/ Gone(given, session', now')
         /\ jobs'[j].stage # "fetching" /\ jobs'[j].found = NoSession /\ given # NoSession =>
              Gone(given, session', now')
<1>1. /\ jobs'[j].stage = IF Fetches THEN "fetching" ELSE "resumed"
      /\ jobs'[j].old = session
      /\ jobs'[j].found = IF Fetches THEN NoSession ELSE Cached
      /\ jobs'[j].knows = rejected /\ jobs'[j].given = given
  BY DEF Lookup, Typed
<1>2. session \in Sessions /\ now \in Nat /\ session.expiresAt \in Nat /\ session.refreshAt \in Nat
  BY DEF Typed, Sessions
<1>3. Cached = session \/ Cached = NoSession
  BY DEF Cached
<1>4. Cached = NoSession /\ session # NoSession => now >= session.expiresAt
  BY <1>2 DEF Cached, Alive
<1> QED BY <1>1, <1>2, <1>3, <1>4 DEF Gone

\* The session is kept, dropped, or one that nobody has had.
Moves == session' = session \/ session' = NoSession \/ ~ Known(session'.token)

\* Jobs a step leaves alone keep both.
LEMMA OthersKept ==
  ASSUME Typed, Typed', Dropped, Used, Moves, now <= now', rejected \subseteq rejected',
         NEW k \in Jobs, jobs'[k] = jobs[k], jobs[k] \in Busy
  PROVE  /\ jobs'[k].knows \subseteq rejected'
         /\ jobs'[k].old # NoSession => jobs'[k].old.token \notin jobs'[k].knows
         /\ jobs'[k].found # NoSession => jobs'[k].found.token \notin jobs'[k].knows
         /\ jobs'[k].step = "headers" =>
              /\ jobs'[k].given # NoSession
              /\ jobs'[k].given.token \in Tokens
              /\ jobs'[k].stage = "fetching" =>
                   jobs'[k].old = jobs'[k].given \/ Gone(jobs'[k].given, session', now')
              /\ jobs'[k].stage # "fetching" /\ jobs'[k].found = NoSession =>
                   Gone(jobs'[k].given, session', now')
<1>1. jobs[k].given \in Sessions /\ now \in Nat /\ now' \in Nat
  BY DEF Busy, Typed
<1>2. Known(jobs[k].given.token)
  BY DEF Known
<1>3. jobs[k].given # NoSession /\ Gone(jobs[k].given, session, now)
        => Gone(jobs'[k].given, session', now')
  <2>1. CASE now >= jobs[k].given.expiresAt
    BY <1>1, <2>1 DEF Gone, Sessions
  <2>2. CASE session # jobs[k].given
    BY <1>2, <2>2 DEF Gone, Moves
  <2> QED BY <2>1, <2>2 DEF Gone
<1> QED BY <1>3 DEF Dropped, Used

LEMMA FlightKept ==
  ASSUME Typed, Typed', AllTimely, AllFresh, Dropped, Used, NEW j \in Jobs, JobStep(j)
  PROVE  Dropped' /\ Used'
<1>1. jobs[j] \in Busy
  BY StepsAlone
<1>2. \A k \in Jobs \ {j} : jobs'[k] = jobs[k]
  BY StepsAlone
<1>3. now' = now /\ now \in Nat
  BY StepsAlone DEF Typed
<1>4. SUFFICES
        /\ Moves /\ rejected \subseteq rejected'
        /\ session' # NoSession => session'.token \notin rejected'
        /\ jobs'[j] \in Busy =>
             /\ jobs'[j].knows \subseteq rejected'
             /\ jobs'[j].old # NoSession => jobs'[j].old.token \notin jobs'[j].knows
             /\ jobs'[j].found # NoSession => jobs'[j].found.token \notin jobs'[j].knows
             /\ jobs'[j].step = "headers" =>
                  /\ jobs'[j].given # NoSession
                  /\ jobs'[j].given.token \in Tokens
                  /\ jobs'[j].stage = "fetching" =>
                       jobs'[j].old = jobs'[j].given \/ Gone(jobs'[j].given, session', now')
                  /\ jobs'[j].stage # "fetching" /\ jobs'[j].found = NoSession =>
                       Gone(jobs'[j].given, session', now')
  <2>1. now <= now'
    BY <1>3
  <2>2. \A k \in Jobs \ {j} : jobs'[k] \in Busy => jobs[k] \in Busy
    BY <1>2
  <2> QED BY <1>2, <1>4, <2>1, <2>2, OthersKept DEF Dropped, Used
<1>5. CASE Minted(j)
  <2>1. /\ jobs'[j].knows = jobs[j].knows /\ jobs'[j].old = jobs[j].old
        /\ jobs'[j].found = jobs[j].found /\ jobs'[j].given = jobs[j].given
        /\ jobs'[j].stage = jobs[j].stage /\ jobs'[j].step = jobs[j].step
    BY <1>1, <1>5 DEF Typed, Busy, Minted
  <2>2. session' = session /\ rejected' = rejected
    BY <1>5 DEF Minted, provider, fates
  <2> QED BY <1>1, <1>3, <2>1, <2>2 DEF Dropped, Used, Moves, Gone
<1>12. CASE Responds(j)
  <2>1. /\ jobs'[j].knows = jobs[j].knows /\ jobs'[j].old = jobs[j].old
        /\ jobs'[j].found = jobs[j].found /\ jobs'[j].given = jobs[j].given
        /\ jobs'[j].stage = jobs[j].stage /\ jobs'[j].step = jobs[j].step
        /\ session' = session /\ rejected' = rejected
    BY <1>12, RespondsKeeps
  <2> QED BY <1>1, <1>3, <2>1 DEF Dropped, Used, Moves, Gone
<1>6. CASE Fetched(j)
  <2>1. /\ jobs'[j].knows = jobs[j].knows /\ jobs'[j].old = jobs[j].old
        /\ jobs'[j].found = session' /\ jobs'[j].given = jobs[j].given
        /\ jobs'[j].stage = "resumed" /\ jobs'[j].step = jobs[j].step
    BY <1>1, <1>6 DEF Typed, Busy, Fetched
  <2>2. rejected' = rejected
    BY <1>6 DEF Fetched, fates
  <2>3. session'.token \in Tokens /\ ~ Known(session'.token)
    BY <1>6, FetchIsNew
  <2>4. session' # NoSession
    BY <2>3, ConstantsTyped DEF NoSession
  <2> QED BY <1>1, <2>1, <2>2, <2>3, <2>4 DEF Dropped, Used, Moves, Known
<1>7. CASE FetchFails(j)
  <2> DEFINE back == IF jobs[j].old # NoSession /\ jobs[j].since < jobs[j].old.expiresAt
                     THEN jobs[j].old ELSE NoSession
  <2>1. jobs' = [jobs EXCEPT ![j].stage = "resumed", ![j].minted = NotMinted, ![j].found = back]
    BY <1>7 DEF FetchFails
  <2>2. back = NoSession \/ back = jobs[j].old
    OBVIOUS
  <2>3. back = NoSession => jobs[j].old = NoSession \/ jobs[j].since >= jobs[j].old.expiresAt
    BY <1>1 DEF Busy, Sessions
  <2> HIDE DEF back
  <2>4. /\ jobs'[j].knows = jobs[j].knows /\ jobs'[j].old = jobs[j].old
        /\ jobs'[j].found = back /\ jobs'[j].given = jobs[j].given
        /\ jobs'[j].stage = "resumed" /\ jobs'[j].step = jobs[j].step
    BY <1>1, <2>1 DEF Typed, Busy
  <2>5. session' = session /\ rejected' = rejected /\ jobs[j].stage = "fetching"
    BY <1>7 DEF FetchFails, fates
  <2>6. jobs[j].since \in Nat /\ jobs[j].since <= now
    BY <1>1, <2>5 DEF AllTimely, Timely, Busy
  <2>7. jobs[j].old.expiresAt \in Nat /\ jobs[j].given.expiresAt \in Nat
    BY <1>1 DEF Busy, Sessions
  <2>8. jobs[j].step = "headers" /\ back = NoSession => Gone(jobs[j].given, session', now')
    BY <1>1, <1>3, <2>3, <2>5, <2>6, <2>7 DEF Used, Gone
  <2> QED BY <1>1, <2>2, <2>4, <2>5, <2>8 DEF Dropped, Used, Moves
<1>8. CASE Hold(j) \/ Stored(j)
  <2>1. jobs'[j].stage = "done" /\ jobs'[j] \notin Busy
    BY <1>8 DEF Typed, Hold, Stored, Finish, Busy
  <2>2. session' = session /\ rejected' = rejected
    BY <1>8 DEF Hold, Stored, provider
  <2> QED BY <2>1, <2>2 DEF Dropped, Moves
<1>9. CASE Fails(j)
  <2>1. jobs'[j].stage = "done" /\ jobs'[j] \notin Busy
    BY <1>9 DEF Typed, Fails, Finish, Busy
  <2>2. \/ session' = session /\ rejected' = rejected
        \/ session' = NoSession /\ rejected \subseteq rejected'
    BY <1>9 DEF Fails
  <2> QED BY <2>1, <2>2 DEF Dropped, Moves
<1>10. CASE Drain(j)
  <2>1. pending \o jobs[j].spans \in Seq(Batches) /\ jobs[j].found \in Sessions
        /\ jobs[j].found # NoSession
    BY <1>1, <1>10 DEF Busy, Typed, Drain
  <2>2. Lookup(j, "headers", pending \o jobs[j].spans, jobs[j].found)
        /\ UNCHANGED <<now, session, rejected>>
    BY <1>10 DEF Drain, provider, fates
  <2>3. jobs[j].found.token \in Tokens /\ Good(session, now, signing)
    BY <1>1, <2>1 DEF AllTimely, Timely, Good
  <2>4. /\ jobs'[j].knows = rejected
        /\ jobs'[j].old = session
        /\ jobs'[j].found # NoSession => jobs'[j].found = session
        /\ jobs'[j].given = jobs[j].found
        /\ jobs'[j].stage = "fetching" =>
             jobs'[j].old = jobs[j].found \/ Gone(jobs[j].found, session', now')
        /\ jobs'[j].stage # "fetching" /\ jobs'[j].found = NoSession =>
             Gone(jobs[j].found, session', now')
    BY <2>1, <2>2, <2>3, LookupFinds DEF Steps
  <2> QED BY <2>1, <2>2, <2>3, <2>4 DEF Dropped, Moves, Gone
<1>11. CASE Send(j)
  <2>1. /\ jobs'[j].knows = jobs[j].knows /\ jobs'[j].old = jobs[j].old
        /\ jobs'[j].found = jobs[j].found /\ jobs'[j].given = jobs[j].given
        /\ jobs'[j].stage = "sent" /\ jobs'[j].step = jobs[j].step
    BY <1>1, <1>11 DEF Typed, Busy, Send
  <2>2. session' = session /\ rejected' = rejected /\ jobs[j].stage = "resumed"
    BY <1>11 DEF Send, provider, fates
  <2> QED BY <1>1, <1>3, <2>1, <2>2 DEF Dropped, Used, Moves, Gone
<1> QED BY <1>5, <1>6, <1>7, <1>8, <1>9, <1>10, <1>11, <1>12 DEF JobStep

LEMMA OutsideKept ==
  ASSUME Typed, Typed', AllTimely, Dropped, Used
  PROVE  /\ \A b \in Batches : Export(b) => Dropped' /\ Used'
         /\ ForceFlush => Dropped' /\ Used'
         /\ Tick \/ RotateKey \/ UNCHANGED vars => Dropped' /\ Used'
<1>1. ASSUME NEW j \in Jobs, NEW spans \in Seq(Batches), Lookup(j, "export", spans, NoSession),
             UNCHANGED <<now, session, rejected>>
      PROVE  Dropped' /\ Used'
  <2>1. /\ jobs'[j].knows = rejected /\ jobs'[j].old = session
        /\ jobs'[j].found # NoSession => jobs'[j].found = session
    BY <1>1, LookupFinds, ConstantsTyped DEF AllTimely, Steps
  <2>2. jobs'[j].step = "export"
    BY <1>1 DEF Lookup, Typed
  <2>3. \A k \in Jobs \ {j} : jobs'[k] = jobs[k]
    BY <1>1, LookupTyped, ConstantsTyped DEF Steps
  <2> QED BY <1>1, <2>1, <2>2, <2>3 DEF Dropped, Used, Gone
<1>2. ASSUME NEW b \in Batches, Export(b) PROVE Dropped' /\ Used'
  <2>1. b \in Jobs /\ <<b>> \in Seq(Batches) /\ Lookup(b, "export", <<b>>, NoSession)
        /\ UNCHANGED <<now, session, rejected>>
    BY <1>2 DEF Jobs, Export, provider, fates
  <2> QED BY <1>1, <2>1
<1>3. ASSUME ForceFlush PROVE Dropped' /\ Used'
  <2>1. Flush \in Jobs /\ <<>> \in Seq(Batches) /\ UNCHANGED <<now, session, rejected>>
    BY <1>3 DEF Jobs, ForceFlush, provider, fates
  <2>2. CASE Lookup(Flush, "export", <<>>, NoSession)
    BY <1>1, <2>1, <2>2
  <2>3. CASE jobs' = [jobs EXCEPT ![Flush] = [stage |-> "done"]]
    <3>1. jobs'[Flush].stage = "done" /\ \A k \in Jobs \ {Flush} : jobs'[k] = jobs[k]
      BY <2>1, <2>3 DEF Typed
    <3>2. jobs'[Flush] \notin Busy
      BY <3>1 DEF Busy
    <3> QED BY <2>1, <3>1, <3>2 DEF Dropped, Used, Gone
  <2> QED BY <1>3, <2>2, <2>3 DEF ForceFlush
<1>4. ASSUME Tick \/ RotateKey \/ UNCHANGED vars PROVE Dropped' /\ Used'
  <2>1. UNCHANGED <<jobs, session, rejected>> /\ (now' = now \/ now' = now + 1) /\ now \in Nat
    BY <1>4 DEF Tick, RotateKey, vars, provider, fates, Typed
  <2>2. Dropped'
    BY <2>1 DEF Dropped
  <2>3. ASSUME NEW j \in Jobs, jobs[j] \in Busy, Gone(jobs[j].given, session, now)
        PROVE  Gone(jobs[j].given, session, now')
    BY <2>1, <2>3 DEF Gone, Busy, Sessions
  <2>4. Used'
    BY <2>1, <2>3 DEF Used
  <2> QED BY <2>2, <2>4
<1> QED BY <1>2, <1>3, <1>4

LEMMA KeptAlways == Spec => [](Dropped /\ Used)
<1>1. Init => Dropped /\ Used
  BY DEF Init, Dropped, Used, Busy
<1>2. Typed /\ Typed' /\ AllTimely /\ AllFresh /\ Dropped /\ Used /\ [Next]_vars
        => Dropped' /\ Used'
  BY FlightKept, OutsideKept DEF Next
<1> QED BY <1>1, <1>2, TypedAlways, TimelyAlways, FreshAlways, PTL DEF Spec

\* RejectedStaysDropped: no fetch that was running, and no fallback, brings back a token
\* the gateway has rejected an export for.
THEOREM RejectedStaysDropped == Spec => []NotPresentedAgain
<1>1. Typed /\ Dropped => NotPresentedAgain
  BY BusyOrIdle DEF Typed, Dropped, NotPresentedAgain, Presented, NoSession
<1> QED BY <1>1, TypedAlways, KeptAlways, PTL

\* Only a delegate sends.
SentByDelegate == \A j \in Jobs : jobs[j].stage = "sent" => jobs[j].step = "headers"

LEMMA DelegateSends == Spec => []SentByDelegate
<1>1. Init => SentByDelegate
  BY DEF Init, SentByDelegate
<1>2. ASSUME Typed, SentByDelegate, NEW j \in Jobs, JobStep(j) PROVE SentByDelegate'
  <2>1. jobs[j] \in Busy
    BY <1>2, StepsAlone
  <2>2. \A k \in Jobs \ {j} : jobs'[k] = jobs[k]
    BY <1>2, StepsAlone
  <2>3. jobs'[j].stage = "sent" => jobs'[j].step = "headers"
    <3>1. CASE Minted(j) \/ Fetched(j) \/ FetchFails(j)
      BY <2>1, <3>1, <1>2 DEF Typed, Busy, Minted, Fetched, FetchFails
    <3>2. CASE Hold(j) \/ Stored(j) \/ Fails(j)
      BY <3>2, <1>2 DEF Typed, Hold, Stored, Fails, Finish
    <3>3. CASE Drain(j)
      BY <3>3, <1>2 DEF Typed, Drain, Lookup
    <3>4. CASE Send(j)
      BY <2>1, <3>4, <1>2 DEF Typed, Busy, Send
    <3>5. CASE Responds(j)
      BY <1>2, <3>5, RespondsKeeps
    <3> QED BY <1>2, <3>1, <3>2, <3>3, <3>4, <3>5 DEF JobStep
  <2> QED BY <1>2, <2>2, <2>3 DEF SentByDelegate
<1>3. ASSUME Typed, SentByDelegate, NEW b \in Batches, Export(b) PROVE SentByDelegate'
  <2>1. b \in Jobs
    BY DEF Jobs
  <2> QED BY <1>3, <2>1 DEF Typed, Export, Lookup, SentByDelegate
<1>4. ASSUME Typed, SentByDelegate, ForceFlush PROVE SentByDelegate'
  <2>1. Flush \in Jobs
    BY DEF Jobs
  <2> QED BY <1>4, <2>1 DEF Typed, ForceFlush, Lookup, SentByDelegate
<1>5. SentByDelegate /\ (Tick \/ RotateKey \/ UNCHANGED vars) => SentByDelegate'
  BY DEF SentByDelegate, Tick, RotateKey, vars
<1>6. Typed /\ SentByDelegate /\ [Next]_vars => SentByDelegate'
  BY <1>2, <1>3, <1>4, <1>5 DEF Next
<1> QED BY <1>1, <1>6, TypedAlways, PTL DEF Spec

\* WorkingIsUsed: an export leaves without a key only when the session it was given is
\* gone or over.
THEOREM WorkingIsUsed == Spec => []KeylessOnlyIfLost
<1>1. Typed /\ AllTimely /\ Used /\ SentByDelegate => KeylessOnlyIfLost
  <2> SUFFICES ASSUME Typed, AllTimely, Used, SentByDelegate, NEW j \in Jobs,
                      jobs[j].stage = "sent",
                      Presented(j) = NoKey
               PROVE  Gone(jobs[j].given, session, now)
    BY DEF KeylessOnlyIfLost, Gone
  <2>1. jobs[j] \in Busy
    BY BusyOrIdle DEF Typed
  <2>2. jobs[j].found = NoSession
    BY <2>1, ConstantsTyped DEF AllTimely, Timely, Good, Presented
  <2>3. jobs[j].step = "headers"
    BY DEF SentByDelegate
  <2> QED BY <2>1, <2>2, <2>3 DEF Used
<1> QED BY <1>1, TypedAlways, TimelyAlways, KeptAlways, DelegateSends, PTL

-----------------------------------------------------------------------------
(***************************************************************************)
(* Where a span is: new, in the buffer, in one job's hands, or at an end.  *)
(***************************************************************************)

\* An export asks for a session with its own batch in hand, a flush with nothing.
ExportsOwn ==
  \A j \in Jobs : jobs[j] \in Busy /\ jobs[j].step = "export" =>
    jobs[j].spans = IF j \in Batches THEN <<j>> ELSE <<>>

LEMMA OwnAlways == Spec => []ExportsOwn
<1>1. Init => ExportsOwn
  BY DEF Init, ExportsOwn, Busy
<1>2. ASSUME Typed, ExportsOwn, NEW j \in Jobs, JobStep(j) PROVE ExportsOwn'
  <2>1. jobs[j] \in Busy
    BY <1>2, StepsAlone
  <2>2. \A k \in Jobs \ {j} : jobs'[k] = jobs[k]
    BY <1>2, StepsAlone
  <2>3. \/ jobs'[j].stage = "done"
        \/ jobs'[j].step = jobs[j].step /\ jobs'[j].spans = jobs[j].spans
        \/ jobs'[j].step = "headers"
    <3>1. CASE Minted(j)
      BY <1>2, <3>1, MintedKeeps
    <3>2. CASE Fetched(j) \/ FetchFails(j)
      BY <2>1, <3>2, <1>2 DEF Typed, Busy, Fetched, FetchFails
    <3>3. CASE Send(j)
      BY <2>1, <3>3, <1>2 DEF Typed, Busy, Send
    <3>4. CASE Hold(j) \/ Stored(j) \/ Fails(j)
      BY <3>4, <1>2 DEF Typed, Hold, Stored, Fails, Finish
    <3>5. CASE Drain(j)
      BY <3>5, <1>2 DEF Typed, Drain, Lookup
    <3>6. CASE Responds(j)
      BY <1>2, <3>6, RespondsKeeps
    <3> QED BY <1>2, <3>1, <3>2, <3>3, <3>4, <3>5, <3>6 DEF JobStep
  <2>4. jobs'[j] \in Busy => jobs'[j].stage # "done"
    BY DEF Busy
  <2> QED BY <1>2, <2>1, <2>2, <2>3, <2>4 DEF ExportsOwn
<1>3. ASSUME Typed, ExportsOwn, NEW b \in Batches, Export(b) PROVE ExportsOwn'
  <2>1. b \in Jobs
    BY DEF Jobs
  <2>2. jobs'[b].spans = <<b>> /\ \A k \in Jobs \ {b} : jobs'[k] = jobs[k]
    BY <1>3, <2>1 DEF Typed, Export, Lookup
  <2> QED BY <1>3, <2>2 DEF ExportsOwn
<1>4. ASSUME Typed, ExportsOwn, ForceFlush PROVE ExportsOwn'
  <2>1. Flush \in Jobs /\ Flush \notin Batches
    BY JsAssumption DEF Jobs
  <2>2. \A k \in Jobs \ {Flush} : jobs'[k] = jobs[k]
    BY <1>4, <2>1 DEF Typed, ForceFlush, Lookup
  <2>3. jobs'[Flush].spans = <<>> \/ jobs'[Flush].stage = "done"
    BY <1>4, <2>1 DEF Typed, ForceFlush, Lookup
  <2>4. jobs'[Flush] \in Busy => jobs'[Flush].stage # "done"
    BY DEF Busy
  <2> QED BY <1>4, <2>1, <2>2, <2>3, <2>4 DEF ExportsOwn
<1>5. ExportsOwn /\ (Tick \/ RotateKey \/ UNCHANGED vars) => ExportsOwn'
  BY DEF ExportsOwn, Tick, RotateKey, vars
<1>6. Typed /\ ExportsOwn /\ [Next]_vars => ExportsOwn'
  BY <1>2, <1>3, <1>4, <1>5 DEF Next
<1> QED BY <1>1, <1>6, TypedAlways, PTL DEF Spec

New     == {b \in Batches : jobs[b].stage = "new"}
Held    == {pending[i] : i \in DOMAIN pending}
Hand(j) == IF j \in Active THEN SpansOf(j) ELSE {}
Ends    == stored \cup lost \cup dropped

\* Apart, and all of them: what a step takes from one place it puts in one other.
Homed ==
  /\ \A i, k \in DOMAIN pending : pending[i] = pending[k] => i = k
  /\ \A j, k \in Jobs : j # k => Hand(j) \cap Hand(k) = {}
  /\ \A j \in Jobs : Hand(j) \cap (Held \cup Ends \cup New) = {}
  /\ Held \cap (Ends \cup New) = {} /\ Ends \cap New = {}
  /\ stored \cap lost = {} /\ stored \cap dropped = {} /\ lost \cap dropped = {}
  /\ \A b \in Batches : b \in Held \cup Ends \cup New \/ \E j \in Jobs : b \in Hand(j)

\* A step of a job makes nothing new, and leaves the other jobs' hands alone.
LEMMA HandsOfOthers ==
  ASSUME Typed, Typed', NEW j \in Jobs, JobStep(j)
  PROVE  /\ jobs[j] \in Busy /\ j \in Active
         /\ New' = New
         /\ \A k \in Jobs \ {j} : Hand(k)' = Hand(k)
         /\ Hand(j) = SpansOf(j)
<1>1. jobs[j] \in Busy /\ j \in Active
  BY StepsAlone
<1>2. \A k \in Jobs \ {j} : jobs'[k] = jobs[k]
  BY StepsAlone
<1>3. jobs'[j].stage # "new"
  <2>1. CASE Minted(j)
    BY <2>1, MintedKeeps
  <2>2. CASE Fetched(j) \/ FetchFails(j)
    BY <1>1, <2>2 DEF Typed, Busy, Fetched, FetchFails
  <2>3. CASE Send(j)
    BY <1>1, <2>3 DEF Typed, Busy, Send
  <2>4. CASE Hold(j) \/ Stored(j) \/ Fails(j)
    BY <2>4 DEF Typed, Hold, Stored, Fails, Finish
  <2>5. CASE Drain(j)
    BY <2>5 DEF Typed, Drain, Lookup
  <2>6. CASE Responds(j)
    BY <2>6, RespondsKeeps
  <2> QED BY <2>1, <2>2, <2>3, <2>4, <2>5, <2>6 DEF JobStep
<1>4. New' = New
  <2>1. Batches \subseteq Jobs /\ jobs[j].stage # "new"
    BY <1>1 DEF Jobs, Busy
  <2> QED BY <1>2, <1>3, <2>1 DEF New
<1>5. ASSUME NEW k \in Jobs \ {j} PROVE Hand(k)' = Hand(k)
  <2>1. (k \in Active)' <=> k \in Active
    BY <1>2 DEF Active
  <2>2. SpansOf(k)' = SpansOf(k)
    BY <1>2 DEF SpansOf
  <2> QED BY <2>1, <2>2 DEF Hand
<1> QED BY <1>1, <1>4, <1>5 DEF Hand

Distinct == \A i, k \in DOMAIN pending : pending[i] = pending[k] => i = k

EndsApart == stored \cap lost = {} /\ stored \cap dropped = {} /\ lost \cap dropped = {}

\* It is enough to see where one job's spans, the buffer's and the ended ones went.
LEMMA Shift ==
  ASSUME Homed, NEW j \in Jobs,
         \A k \in Jobs \ {j} : Hand(k)' = Hand(k),
         Distinct', EndsApart',
         Held' \cup Hand(j)' \cup Ends' \cup New' = Held \cup Hand(j) \cup Ends \cup New,
         Hand(j)' \cap (Held' \cup Ends' \cup New') = {},
         Held' \cap (Ends' \cup New') = {}, Ends' \cap New' = {}
  PROVE  Homed'
<1>1. \A k \in Jobs \ {j} : Hand(k) \cap (Held \cup Hand(j) \cup Ends \cup New) = {}
  BY DEF Homed
<1>2. \A k \in Jobs \ {j} : Hand(k)' \cap (Held' \cup Hand(j)' \cup Ends' \cup New') = {}
  BY <1>1
<1>3. \A k, l \in Jobs : k # l => Hand(k)' \cap Hand(l)' = {}
  <2>1. SUFFICES ASSUME NEW k \in Jobs, NEW l \in Jobs, k # l PROVE Hand(k)' \cap Hand(l)' = {}
    OBVIOUS
  <2>2. CASE k # j /\ l # j
    BY <2>1, <2>2 DEF Homed
  <2>3. CASE k = j \/ l = j
    BY <1>2, <2>1, <2>3
  <2> QED BY <2>2, <2>3
<1>4. \A k \in Jobs : Hand(k)' \cap (Held' \cup Ends' \cup New') = {}
  BY <1>2
<1>5. \A b \in Batches : b \in Held' \cup Ends' \cup New' \/ \E k \in Jobs : b \in Hand(k)'
  <2>1. SUFFICES ASSUME NEW b \in Batches
                 PROVE b \in Held' \cup Ends' \cup New' \/ \E k \in Jobs : b \in Hand(k)'
    OBVIOUS
  <2>2. CASE b \in Held \cup Ends \cup New \/ b \in Hand(j)
    <3>1. b \in Held' \cup Hand(j)' \cup Ends' \cup New'
      BY <2>2
    <3> QED BY <3>1
  <2>3. CASE \E k \in Jobs \ {j} : b \in Hand(k)
    BY <2>3
  <2> QED BY <2>1, <2>2, <2>3 DEF Homed
<1> QED BY <1>3, <1>4, <1>5 DEF Homed, Distinct, EndsApart

\* A job that is done has nothing in hand.
LEMMA FinishEmpties ==
  ASSUME Typed, NEW j \in Jobs, Finish(j)
  PROVE  Hand(j)' = {}
<1>1. jobs'[j].stage = "done"
  BY DEF Typed, Finish
<1>2. ~ (j \in Active)'
  BY <1>1 DEF Active
<1> QED BY <1>2 DEF Hand

\* Hold: the batch goes behind the buffer, and the oldest span goes if that is
\* one too many.
LEMMA HoldHomed ==
  ASSUME Typed, Typed', Homed, ExportsOwn, NEW j \in Jobs, Hold(j)
  PROVE  Homed'
<1> DEFINE held     == pending \o jobs[j].spans
           overflow == IF Len(held) > MaxPending THEN Len(held) - MaxPending ELSE 0
<1>1. /\ jobs[j] \in Busy /\ New' = New /\ Hand(j) = SpansOf(j)
      /\ \A k \in Jobs \ {j} : Hand(k)' = Hand(k)
  BY HandsOfOthers DEF JobStep
<1>2. Hand(j)' = {}
  BY FinishEmpties DEF Hold
<1>3. jobs[j].spans = IF j \in Batches THEN <<j>> ELSE <<>>
  BY <1>1 DEF ExportsOwn, Hold
<1>4. /\ held \in Seq(Batches)
      /\ Len(held) = Len(pending) + (IF j \in Batches THEN 1 ELSE 0)
      /\ \A i \in 1 .. Len(pending) : held[i] = pending[i]
      /\ j \in Batches => held[Len(pending) + 1] = j
  BY <1>3 DEF Typed
<1>5. /\ Hand(j) = IF j \in Batches THEN {j} ELSE {}
  BY <1>1, <1>3 DEF SpansOf
<1>6. Len(pending) \in Nat /\ Len(pending) <= MaxPending /\ MaxPending \in Nat
  BY JsAssumption DEF Typed
<1>7. overflow \in {0, 1} /\ overflow <= Len(held)
  BY <1>4, <1>6
<1>8. /\ pending' = SubSeq(held, overflow + 1, Len(held))
      /\ dropped' = dropped \cup {held[i] : i \in 1 .. overflow}
      /\ stored' = stored /\ lost' = lost
  BY DEF Hold
<1> HIDE DEF overflow
<1>9. \A i, k \in 1 .. Len(held) : held[i] = held[k] => i = k
  <2>1. j \in Batches => j \notin Held
    BY <1>5 DEF Homed
  <2>2. \A i \in 1 .. Len(pending) : held[i] \in Held
    BY <1>4 DEF Held, Typed
  <2>3. \A i, k \in 1 .. Len(pending) : pending[i] = pending[k] => i = k
    BY DEF Homed, Typed
  <2> QED BY SMTT(30), <1>4, <1>6, <2>1, <2>2, <2>3
<1>10. {held[i] : i \in 1 .. Len(held)} = Held \cup Hand(j)
  <2>1. Held = {pending[i] : i \in 1 .. Len(pending)}
    BY DEF Held, Typed
  <2> HIDE DEF held
  <2> QED BY <1>4, <1>5, <1>6, <2>1
<1> HIDE DEF held
<1>11. /\ DOMAIN pending' = 1 .. Len(held) - overflow
       /\ \A i \in 1 .. Len(held) - overflow : pending'[i] = held[i + overflow]
  BY <1>4, <1>7, <1>8
<1>12. Held' = {held[i] : i \in overflow + 1 .. Len(held)}
  <2>1. Held' = {pending'[i] : i \in 1 .. Len(held) - overflow}
    BY <1>11 DEF Held
  <2>2. \A i \in overflow + 1 .. Len(held) :
          i - overflow \in 1 .. Len(held) - overflow /\ pending'[i - overflow] = held[i]
    BY <1>4, <1>7, <1>11
  <2>3. \A i \in overflow + 1 .. Len(held) : held[i] \in Held'
    BY <2>1, <2>2
  <2>4. \A i \in 1 .. Len(held) - overflow :
          i + overflow \in overflow + 1 .. Len(held) /\ pending'[i] = held[i + overflow]
    BY <1>4, <1>7, <1>11
  <2>5. \A i \in 1 .. Len(held) - overflow :
          pending'[i] \in {held[k] : k \in overflow + 1 .. Len(held)}
    BY <2>4
  <2> QED BY <2>1, <2>3, <2>5
<1> DEFINE out == {held[i] : i \in 1 .. overflow}
<1>13. Held' \cup out = Held \cup Hand(j)
  <2>1. Len(held) \in Nat
    BY <1>4
  <2>2. 1 .. Len(held) = (1 .. overflow) \cup (overflow + 1 .. Len(held))
    BY <1>7, <2>1
  <2>3. {held[i] : i \in 1 .. Len(held)} = Held' \cup out
    BY <1>12, <2>2
  <2> QED BY <1>10, <2>3
<1>14. Held' \cap out = {}
  BY <1>4, <1>7, <1>9, <1>12
<1>15. Ends' = Ends \cup out
  BY <1>8 DEF Ends
<1>16. out \cap (Ends \cup New) = {} /\ Held' \cap (Ends \cup New) = {}
  BY <1>13 DEF Homed
<1>17. EndsApart'
  BY <1>8, <1>16 DEF EndsApart, Homed, Ends
<1>18. Distinct'
  <2>1. SUFFICES ASSUME NEW i \in 1 .. Len(held) - overflow, NEW k \in 1 .. Len(held) - overflow,
                        held[i + overflow] = held[k + overflow]
                 PROVE  i = k
    BY <1>11 DEF Distinct
  <2>2. i + overflow \in 1 .. Len(held) /\ k + overflow \in 1 .. Len(held)
    BY <1>4, <1>7
  <2>3. i + overflow = k + overflow
    BY <1>9, <2>1, <2>2
  <2> QED BY <1>7, <2>3
<1> HIDE DEF out
<1>19. Ends' \cap New' = {}
  BY <1>1, <1>15, <1>16 DEF Homed
<1> QED BY <1>1, <1>2, <1>13, <1>14, <1>15, <1>16, <1>17, <1>18, <1>19, Shift

\* Drain: the buffer goes with the batch.
LEMMA DrainHomed ==
  ASSUME Typed, Typed', Homed, NEW j \in Jobs, Drain(j)
  PROVE  Homed'
<1>1. /\ jobs[j] \in Busy /\ New' = New /\ Hand(j) = SpansOf(j)
      /\ \A k \in Jobs \ {j} : Hand(k)' = Hand(k)
  BY HandsOfOthers DEF JobStep
<1>2. jobs'[j].stage \in {"fetching", "resumed"} /\ jobs'[j].spans = pending \o jobs[j].spans
  BY DEF Typed, Drain, Lookup
<1>3. pending \in Seq(Batches) /\ jobs[j].spans \in Seq(Batches)
  BY <1>1 DEF Typed, Busy
<1>4. Hand(j)' = Held \cup Hand(j)
  <2> DEFINE s == jobs[j].spans
             t == pending \o s
  <2>1. Hand(j)' = {t[i] : i \in DOMAIN t}
    BY <1>2 DEF Hand, Active, SpansOf
  <2>2. Held = {pending[i] : i \in 1 .. Len(pending)} /\ Hand(j) = {s[i] : i \in 1 .. Len(s)}
    BY <1>1, <1>3 DEF Held, SpansOf
  <2>3. s \in Seq(Batches)
    BY <1>3
  <2> HIDE DEF s
  <2>4. /\ DOMAIN t = 1 .. Len(pending) + Len(s)
        /\ \A i \in 1 .. Len(pending) : t[i] = pending[i]
        /\ \A i \in 1 .. Len(s) : t[Len(pending) + i] = s[i]
        /\ \A i \in 1 .. Len(pending) + Len(s) :
             i \in 1 .. Len(pending) \/ (i - Len(pending) \in 1 .. Len(s)
                                        /\ t[i] = s[i - Len(pending)])
    BY <1>3, <2>3
  <2>5. Len(pending) \in Nat /\ Len(s) \in Nat
    BY <1>3, <2>3
  <2> HIDE DEF t
  <2>6. \A i \in 1 .. Len(pending) : i \in 1 .. Len(pending) + Len(s)
    BY <2>5
  <2>7. \A i \in 1 .. Len(s) : Len(pending) + i \in 1 .. Len(pending) + Len(s)
    BY <2>5
  <2>8. \A i \in 1 .. Len(pending) : pending[i] \in Hand(j)'
    BY <2>1, <2>4, <2>6
  <2>9. \A i \in 1 .. Len(s) : s[i] \in Hand(j)'
    BY <2>1, <2>4, <2>7
  <2>10. \A i \in DOMAIN t : t[i] \in Held \cup Hand(j)
    BY <2>2, <2>4
  <2> QED BY <2>1, <2>2, <2>8, <2>9, <2>10
<1>5. pending' = <<>> /\ Held' = {} /\ Distinct'
  BY DEF Drain, Held, Distinct
<1>6. Ends' = Ends /\ EndsApart' = EndsApart
  BY DEF Drain, fates, Ends, EndsApart
<1>7. EndsApart
  BY DEF Homed, EndsApart
<1> QED BY <1>1, <1>4, <1>5, <1>6, <1>7, Shift DEF Homed

\* An answer: what the job has in hand is stored, or lost.
LEMMA AnswerHomed ==
  ASSUME Typed, Typed', Homed, NEW j \in Jobs, Stored(j) \/ Fails(j)
  PROVE  Homed'
<1>1. /\ New' = New /\ Hand(j) = SpansOf(j)
      /\ \A k \in Jobs \ {j} : Hand(k)' = Hand(k)
  BY HandsOfOthers DEF JobStep
<1>2. Hand(j)' = {}
  BY FinishEmpties DEF Stored, Fails
<1>3. pending' = pending /\ dropped' = dropped
  BY DEF Stored, Fails, exporter
<1>4. \/ stored' = stored \cup Hand(j) /\ lost' = lost
      \/ lost' = lost \cup Hand(j) /\ stored' = stored
  BY <1>1 DEF Stored, Fails
<1>5. Held' = Held /\ Distinct'
  BY <1>3 DEF Held, Distinct, Homed
<1>6. Ends' = Ends \cup Hand(j)
  BY <1>3, <1>4 DEF Ends
<1>7. Hand(j) \cap (Held \cup Ends \cup New) = {}
  BY DEF Homed
<1>8. EndsApart'
  BY <1>3, <1>4, <1>7 DEF EndsApart, Homed, Ends
<1> QED BY <1>1, <1>2, <1>5, <1>6, <1>7, <1>8, Shift DEF Homed

\* On the way to and from the provider, and into the request, nothing moves.
LEMMA WayHomed ==
  ASSUME Typed, Typed', Homed, NEW j \in Jobs,
         Minted(j) \/ Responds(j) \/ Fetched(j) \/ FetchFails(j) \/ Send(j)
  PROVE  Homed'
<1>1. /\ jobs[j] \in Busy /\ New' = New /\ Hand(j) = SpansOf(j)
      /\ \A k \in Jobs \ {j} : Hand(k)' = Hand(k)
  BY HandsOfOthers DEF JobStep
<1>2. jobs'[j].spans = jobs[j].spans /\ jobs'[j].stage \in {"fetching", "resumed", "sent"}
  <2>1. CASE Minted(j)
    BY <2>1, MintedKeeps
  <2>2. CASE Fetched(j) \/ FetchFails(j)
    BY <1>1, <2>2 DEF Typed, Busy, Fetched, FetchFails
  <2>3. CASE Send(j)
    BY <1>1, <2>3 DEF Typed, Busy, Send
  <2>4. CASE Responds(j)
    BY <2>4, RespondsKeeps
  <2> QED BY <2>1, <2>2, <2>3, <2>4
<1>3. Hand(j)' = Hand(j)
  <2>1. SpansOf(j)' = SpansOf(j)
    BY <1>2 DEF SpansOf
  <2>2. (j \in Active)'
    BY <1>2 DEF Active
  <2> QED BY <1>1, <2>1, <2>2 DEF Hand
<1>4. pending' = pending /\ dropped' = dropped /\ stored' = stored /\ lost' = lost
  BY DEF Minted, Responds, Fetched, FetchFails, Send, exporter, fates
<1>5. Held' = Held /\ Distinct' /\ Ends' = Ends /\ EndsApart'
  BY <1>4 DEF Held, Distinct, Ends, EndsApart, Homed
<1> QED BY <1>1, <1>3, <1>5, Shift DEF Homed

\* An export takes its batch from the new ones, a flush takes nothing.
LEMMA StartHomed ==
  ASSUME Typed, Typed', Homed, NEW j \in Jobs,
         (j \in Batches /\ Export(j)) \/ (j = Flush /\ ForceFlush)
  PROVE  Homed'
<1>1. /\ jobs[j].stage = "new"
      /\ \A k \in Jobs \ {j} : jobs'[k] = jobs[k]
      /\ jobs'[j].stage # "new"
      /\ j \in Batches => jobs'[j].stage \in {"fetching", "resumed"} /\ jobs'[j].spans = <<j>>
      /\ j \notin Batches => jobs'[j].stage = "done" \/ jobs'[j].spans = <<>>
  BY JsAssumption DEF Typed, Export, ForceFlush, Lookup
<1>2. \A k \in Jobs \ {j} : Hand(k)' = Hand(k)
  <2>1. SUFFICES ASSUME NEW k \in Jobs \ {j} PROVE Hand(k)' = Hand(k)
    OBVIOUS
  <2>2. (k \in Active)' <=> k \in Active
    BY <1>1 DEF Active
  <2>3. SpansOf(k)' = SpansOf(k)
    BY <1>1 DEF SpansOf
  <2> QED BY <2>2, <2>3 DEF Hand
<1>3. Hand(j) = {}
  BY <1>1 DEF Hand, Active
<1>4. New' = New \ {j} /\ (j \in Batches => j \in New)
  BY <1>1 DEF New, Jobs
<1>5. Hand(j)' = IF j \in Batches THEN {j} ELSE {}
  <2>1. CASE j \in Batches
    BY <1>1, <2>1 DEF Hand, Active, SpansOf
  <2>2. CASE j \notin Batches
    BY <1>1, <2>2 DEF Hand, Active, SpansOf
  <2> QED BY <2>1, <2>2
<1>6. pending' = pending /\ dropped' = dropped /\ stored' = stored /\ lost' = lost
  BY DEF Export, ForceFlush, exporter, fates
<1>7. Held' = Held /\ Distinct' /\ Ends' = Ends /\ EndsApart'
  BY <1>6 DEF Held, Distinct, Ends, EndsApart, Homed
<1>8. j \notin Batches => j \notin New
  BY DEF New
<1>9. Held \cap New = {} /\ Ends \cap New = {} /\ Held \cap Ends = {}
  BY DEF Homed
<1>10. Held \cup Hand(j)' \cup Ends \cup New' = Held \cup Hand(j) \cup Ends \cup New
  BY <1>3, <1>4, <1>5, <1>8
<1>11. Hand(j)' \cap (Held \cup Ends \cup New') = {}
  BY <1>4, <1>5, <1>9
<1> QED BY <1>2, <1>4, <1>7, <1>9, <1>10, <1>11, Shift

LEMMA HomedAlways == Spec => []Homed
<1>1. Init => Homed
  <2>1. SUFFICES ASSUME Init PROVE Homed
    OBVIOUS
  <2>2. New = Batches /\ Held = {} /\ Ends = {} /\ \A j \in Jobs : Hand(j) = {}
    BY <2>1 DEF Init, New, Held, Ends, Hand, Active, Jobs
  <2>3. pending = <<>> /\ stored = {} /\ lost = {} /\ dropped = {}
    BY <2>1 DEF Init
  <2> QED BY <2>2, <2>3 DEF Homed
<1>2. Typed /\ Typed' /\ ExportsOwn /\ Homed /\ [Next]_vars => Homed'
  <2>1. SUFFICES ASSUME Typed, Typed', ExportsOwn, Homed, [Next]_vars PROVE Homed'
    OBVIOUS
  <2>2. ASSUME NEW j \in Jobs, JobStep(j) PROVE Homed'
    BY <2>1, <2>2, HoldHomed, DrainHomed, AnswerHomed, WayHomed DEF JobStep
  <2>3. ASSUME NEW b \in Batches, Export(b) PROVE Homed'
    BY <2>1, <2>3, StartHomed DEF Jobs
  <2>4. CASE ForceFlush
    BY <2>1, <2>4, StartHomed DEF Jobs
  <2>5. CASE Tick \/ RotateKey \/ UNCHANGED vars
    <3>1. /\ pending' = pending /\ jobs' = jobs
          /\ stored' = stored /\ lost' = lost /\ dropped' = dropped
      BY <2>5 DEF Tick, RotateKey, vars, exporter, fates
    <3>2. Held' = Held /\ Ends' = Ends /\ New' = New
      BY <3>1 DEF Held, Ends, New
    <3>3. \A j \in Jobs : Hand(j)' = Hand(j)
      BY <3>1 DEF Hand, Active, SpansOf
    <3> QED BY <2>1, <3>1, <3>2, <3>3 DEF Homed
  <2> QED BY <2>1, <2>2, <2>3, <2>4, <2>5 DEF Next
<1> QED BY <1>1, <1>2, TypedAlways, OwnAlways, PTL DEF Spec

\* Whatever exports, the flush and their fetches interleave to, an exported span is
\* in one place, and in one only: in the buffer, with one job, stored, lost with
\* a failed export, or dropped for room (exporter.ts hold and drain).
THEOREM SpansStay == Spec => []NothingVanishes
<1>1. Typed /\ Homed => NothingVanishes
  <2>1. SUFFICES ASSUME Typed, Homed, NEW b \in Batches
                 PROVE Places(b) = IF jobs[b].stage = "new" THEN 0 ELSE 1
    BY DEF NothingVanishes
  <2> DEFINE buffered == {i \in DOMAIN pending : pending[i] = b}
             carried  == {j \in Active : b \in SpansOf(j)}
             ended    == {place \in {<<"stored", stored>>, <<"lost", lost>>,
                                      <<"dropped", dropped>>} : b \in place[2]}
  <2>2. IF b \in Held THEN \E i : buffered = {i} ELSE buffered = {}
    BY <2>1 DEF Homed, Held
  <2>3. Cardinality(buffered) = IF b \in Held THEN 1 ELSE 0
    BY <2>2, FS_EmptySet, FS_Singleton
  <2>4. carried = {j \in Jobs : b \in Hand(j)}
    BY DEF Hand, Active
  <2>5. \A j, k \in Jobs : b \in Hand(j) /\ b \in Hand(k) => j = k
    BY <2>1 DEF Homed
  <2>6. IF \E j \in Jobs : b \in Hand(j) THEN \E j : carried = {j} ELSE carried = {}
    BY <2>4, <2>5
  <2>7. Cardinality(carried) = IF \E j \in Jobs : b \in Hand(j) THEN 1 ELSE 0
    BY <2>6, FS_EmptySet, FS_Singleton
  <2>8. IF b \in Ends THEN \E place : ended = {place} ELSE ended = {}
    <3>1. CASE b \in stored
      <4>1. b \notin lost /\ b \notin dropped
        BY <2>1, <3>1 DEF Homed
      <4>2. ended = {<<"stored", stored>>}
        BY <3>1, <4>1
      <4> QED BY <3>1, <4>2 DEF Ends
    <3>2. CASE b \in lost
      <4>1. b \notin stored /\ b \notin dropped
        BY <2>1, <3>2 DEF Homed
      <4>2. ended = {<<"lost", lost>>}
        BY <3>2, <4>1
      <4> QED BY <3>2, <4>2 DEF Ends
    <3>3. CASE b \in dropped
      <4>1. b \notin stored /\ b \notin lost
        BY <2>1, <3>3 DEF Homed
      <4>2. ended = {<<"dropped", dropped>>}
        BY <3>3, <4>1
      <4> QED BY <3>3, <4>2 DEF Ends
    <3>4. CASE b \notin Ends
      BY <3>4 DEF Ends
    <3> QED BY <3>1, <3>2, <3>3, <3>4 DEF Ends
  <2>9. Cardinality(ended) = IF b \in Ends THEN 1 ELSE 0
    BY <2>8, FS_EmptySet, FS_Singleton
  <2>10. Places(b) = Cardinality(buffered) + Cardinality(carried) + Cardinality(ended)
    BY DEF Places
  <2> HIDE DEF buffered, carried, ended
  <2>11. jobs[b].stage = "new" <=> b \in New
    BY <2>1 DEF New
  <2>12. CASE b \in New
    <3>1. b \notin Held /\ b \notin Ends /\ ~ \E j \in Jobs : b \in Hand(j)
      BY <2>1, <2>12 DEF Homed
    <3> QED BY <2>3, <2>7, <2>9, <2>10, <2>11, <2>12, <3>1
  <2>13. CASE b \in Held
    <3>1. b \notin New /\ b \notin Ends /\ ~ \E j \in Jobs : b \in Hand(j)
      BY <2>1, <2>13 DEF Homed
    <3> QED BY <2>3, <2>7, <2>9, <2>10, <2>11, <2>13, <3>1
  <2>14. CASE b \in Ends
    <3>1. b \notin New /\ b \notin Held /\ ~ \E j \in Jobs : b \in Hand(j)
      BY <2>1, <2>14 DEF Homed
    <3> QED BY <2>3, <2>7, <2>9, <2>10, <2>11, <2>14, <3>1
  <2>15. CASE \E j \in Jobs : b \in Hand(j)
    <3>1. b \notin New /\ b \notin Held /\ b \notin Ends
      BY <2>1, <2>15 DEF Homed
    <3> QED BY <2>3, <2>7, <2>9, <2>10, <2>11, <2>15, <3>1
  <2> QED BY <2>1, <2>12, <2>13, <2>14, <2>15 DEF Homed
<1> QED BY <1>1, TypedAlways, HomedAlways, PTL
=============================================================================
