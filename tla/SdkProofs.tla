----------------------------- MODULE SdkProofs -----------------------------
(***************************************************************************)
(* Theorems about a server process with an SDK.  About SessionExport, for  *)
(* any buffer limit, batch sizes, token lifetime and number of faults:     *)
(* types, no span is sent twice, what is dropped is the oldest; and, when  *)
(* nobody calls force_flush, every loss is counted and a refused token is  *)
(* dropped, that one only, and not used again.  About Streaming alone, for *)
(* any parents, caps and events; and about Capture, the server the calls   *)
(* and the streams share.                                                  *)
(***************************************************************************)
EXTENDS SessionExport, Capture, FiniteSetTheorems, WellFoundedInduction, TLAPS

(* Back-off delays are natural numbers.                                    *)
LEMMA BackoffType == \A n \in Nat \ {0} : Backoff(n) \in Nat
<1> SUFFICES ASSUME NEW n \in Nat \ {0} PROVE Backoff(n) \in Nat
    OBVIOUS
<1>1. Lesser(n, 6) \in 1 .. 6
    BY DEF Lesser
<1>2. \A i \in 1 .. 6 : PowersOfTwo[i] \in Nat
    BY DEF PowersOfTwo
<1>3. PowersOfTwo[Lesser(n, 6)] \in Nat
    BY <1>1, <1>2
<1>4. \A k \in Nat : MinRetry * k \in Nat
    BY RetryAssumption
<1> QED BY <1>3, <1>4, RetryAssumption DEF Backoff, Lesser

(* A served session is the provider's, or none.                            *)
LEMMA ServableType == session \in Session => \A at : Servable(at) \in Session
BY DEF Servable, Session, NoSession, Token

-----------------------------------------------------------------------------
(* TypeCorrect: every variable has its type, for all constants.            *)
THEOREM TypeCorrect == Spec => []TypeOK
<1>1. Init => TypeOK
    BY FlushesAssumption DEF Init, TypeOK, Session, NoSession, Token, Phase, Threads
<1>2. TypeOK /\ [Next]_vars => TypeOK'
  <2> SUFFICES ASSUME TypeOK, [Next]_vars PROVE TypeOK'
    OBVIOUS
  <2>0. flushes' \in BOOLEAN
    BY DEF Next, vars, TypeOK
  <2> USE <2>0 DEF TypeOK, Goto
  <2>1. CASE Tick
    BY <2>1 DEF Tick, providerVars, bufferVars, callVars, gatewayVars
  <2>2. CASE Revoke
    BY <2>2 DEF Revoke, Fails, providerVars, bufferVars, callVars, gatewayVars
  <2>3. CASE ExportCalled
    <3>1. PICK n \in BatchSizes :
            /\ handed' = handed + n
            /\ batch' = [batch EXCEPT !["exporter"] = handed + 1 .. handed + n]
        BY <2>3 DEF ExportCalled
    <3>2. n \in Nat /\ handed + n \in Nat /\ 1 .. handed \subseteq 1 .. handed'
        BY <3>1, BatchAssumption
    <3>3. handed + 1 .. handed + n \subseteq 1 .. handed'
        BY <3>1, <3>2
    <3> QED BY <2>3, <3>1, <3>2, <3>3
            DEF ExportCalled, providerVars, bufferVars, callVars, gatewayVars, Phase, Threads
  <2>4. CASE Hold
    <3> DEFINE held == pending \cup batch["exporter"]
    <3>1. held \subseteq 1 .. handed /\ Newest(held) \subseteq held
        BY DEF Newest, Threads
    <3>2. IsFiniteSet(1 .. handed)
        BY FS_Interval
    <3>3. Overflow(held) \in Nat
      <4> HIDE DEF TypeOK, held
      <4>1. held \ Newest(held) \in SUBSET (1 .. handed)
          BY <3>1
      <4>2. IsFiniteSet(held \ Newest(held))
          BY <3>2, <4>1, FS_Subset
      <4>3. Cardinality(held \ Newest(held)) \in Nat
          BY <4>2, FS_CardinalityType
      <4> QED BY <4>3 DEF Overflow
    <3>4. /\ pending' = Newest(held)
          /\ dropped' = dropped + Overflow(held)
          /\ batch' = [batch EXCEPT !["exporter"] = {}]
          /\ pc' = [pc EXCEPT !["exporter"] = "idle"]
          /\ UNCHANGED <<now, providerVars, said, header, callVars, gatewayVars,
                         handed, minted, revoked, faults>>
        BY <2>4 DEF Hold
    <3>5. dropped' \in Nat /\ pending' \in SUBSET (1 .. handed)
      <4> HIDE DEF held
      <4>1. dropped' \in Nat
          BY <3>3, <3>4
      <4>2. pending' \subseteq 1 .. handed
          BY <3>1, <3>4
      <4> QED BY <4>1, <4>2
    <3>6. /\ batch' \in [Threads -> SUBSET (1 .. handed)]
          /\ pc' \in [Threads -> Phase]
      <4> HIDE DEF held
      <4>1. batch' = [batch EXCEPT !["exporter"] = {}]
          BY <3>4
      <4>2. pc' = [pc EXCEPT !["exporter"] = "idle"]
          BY <3>4
      <4>3. "idle" \in Phase
          BY DEF Phase
      <4> QED BY <4>1, <4>2, <4>3
    <3> HIDE DEF held
    <3> QED BY <3>4, <3>5, <3>6 DEF providerVars, callVars, gatewayVars
  <2>5. CASE Drain
    <3>1. dropped' \in Nat /\ said' \in Nat /\ pending' \in SUBSET (1 .. handed)
        BY <2>5 DEF Drain
    <3>2. /\ batch' \in [Threads -> SUBSET (1 .. handed)]
          /\ pc' \in [Threads -> Phase]
        BY <2>5 DEF Drain, Phase, Threads
    <3>3. header' \in Token
        BY <2>5 DEF Drain, Threads, Session
    <3> QED BY <2>5, <3>1, <3>2, <3>3 DEF Drain, providerVars, callVars, gatewayVars
  <2>6. CASE Invalidate
    BY <2>6 DEF Invalidate, bufferVars, callVars, gatewayVars, Phase, Threads,
                Session, NoSession, Token
  <2>7. CASE FlushCalled
    BY <2>7 DEF FlushCalled, providerVars, callVars, gatewayVars, Phase, Threads
  <2>8. CASE FlushSets
    BY <2>8 DEF FlushSets, providerVars, bufferVars, callVars, gatewayVars, Phase,
                Threads, Session
  <2>9. CASE FlushGivesUp
    BY <2>9 DEF FlushGivesUp, providerVars, bufferVars, callVars, gatewayVars, Phase, Threads
  <2>10. ASSUME NEW t \in Threads, CurrentServes(t) PROVE TypeOK'
    BY <2>10, ServableType DEF CurrentServes, providerVars, bufferVars, gatewayVars, Phase
  <2>11. ASSUME NEW t \in Threads, CurrentFetches(t) PROVE TypeOK'
    BY <2>11 DEF CurrentFetches, providerVars, bufferVars, gatewayVars, Phase
  <2>12. ASSUME NEW t \in Threads, FetchSucceeds(t) PROVE TypeOK'
    <3>1. now + Ttl \in Nat
        BY TtlAssumption
    <3>2. minted' = Append(minted, now + Ttl)
        BY <2>12 DEF FetchSucceeds
    <3>3. minted' \in Seq(Nat) /\ Len(minted') \in Nat /\ DOMAIN minted \subseteq DOMAIN minted'
        BY <3>1, <3>2
    <3>4. PICK age \in RefreshAfter : session' = Build(Len(minted'), age)
        BY <2>12 DEF FetchSucceeds
    <3>5. age \in Nat
        BY TtlAssumption
    <3>6. session' \in Session
        BY <3>1, <3>3, <3>4, <3>5 DEF Build, Session, Token
    <3> QED BY <2>12, <3>3, <3>6 DEF FetchSucceeds, bufferVars, gatewayVars, Phase
  <2>13. ASSUME NEW t \in Threads, FetchFails(t) PROVE TypeOK'
    <3>1. failures + 1 \in Nat \ {0}
        OBVIOUS
    <3>2. Backoff(failures + 1) \in Nat
        BY <3>1, BackoffType
    <3>3. nextAttempt' = now + Backoff(failures + 1) /\ failures' = failures + 1
        BY <2>13 DEF FetchFails
    <3> QED BY SMTT(30), <2>13, <3>2, <3>3, ServableType
           DEF FetchFails, Fails, bufferVars, gatewayVars, Phase
  <2>14. ASSUME NEW t \in Threads, Accepted(t) PROVE TypeOK'
    BY <2>14 DEF Accepted, Sends, providerVars, bufferVars, callVars, Phase
  <2>15. ASSUME NEW t \in Threads, Refused(t) PROVE TypeOK'
    <3>1. failed' \in SUBSET (1 .. handed)
        BY <2>15 DEF Refused, Reported
    <3>3. refused' \in Seq(Token)
        BY <2>15 DEF Refused
    <3>2. AfterFailure(t) \in Phase
        BY DEF AfterFailure, Phase
    <3> QED BY <2>15, <3>1, <3>2, <3>3 DEF Refused, Sends, providerVars, bufferVars, callVars
  <2>16. ASSUME NEW t \in Threads, RequestFails(t) PROVE TypeOK'
    <3>1. delivered' \in SUBSET (1 .. handed) /\ Reported(t) \in SUBSET (1 .. handed)
        BY <2>16 DEF RequestFails, Reported
    <3>2. AfterFailure(t) \in Phase
        BY DEF AfterFailure, Phase
    <3> QED BY <2>16, <3>1, <3>2 DEF RequestFails, Fails, Sends, providerVars,
                 bufferVars, callVars
  <2>17. CASE UNCHANGED vars
    BY <2>17 DEF vars, providerVars, bufferVars, callVars, gatewayVars
  <2> QED BY <2>1, <2>2, <2>3, <2>4, <2>5, <2>6, <2>7, <2>8, <2>9, <2>10, <2>11,
             <2>12, <2>13, <2>14, <2>15, <2>16, <2>17 DEF Next, Step
<1> QED BY <1>1, <1>2, PTL DEF Spec

-----------------------------------------------------------------------------
(* SentOnce: no span is in two places at once, nor sent again after it was *)
(* delivered or given up: NeverSentTwice, whatever force_flush does.       *)
THEOREM SentOnce == Spec => []NeverSentTwice
<1>1. Init => NeverSentTwice
    BY DEF Init, NeverSentTwice, Threads
<1>2. TypeOK /\ NeverSentTwice /\ [Next]_vars => NeverSentTwice'
  <2> SUFFICES ASSUME TypeOK, NeverSentTwice, [Next]_vars PROVE NeverSentTwice'
    OBVIOUS
  <2>0. /\ batch \in [Threads -> SUBSET (1 .. handed)]
        /\ handed \in Nat
        /\ pending \subseteq 1 .. handed
        /\ delivered \subseteq 1 .. handed
        /\ failed \subseteq 1 .. handed
    BY DEF TypeOK
  <2>1. CASE ExportCalled
    <3>1. PICK n \in BatchSizes :
            batch' = [batch EXCEPT !["exporter"] = handed + 1 .. handed + n]
        BY <2>1 DEF ExportCalled
    <3>2. (handed + 1 .. handed + n) \cap (1 .. handed) = {}
        BY <2>0
    <3>3. /\ batch'["exporter"] = handed + 1 .. handed + n
          /\ batch'["flusher"] = batch["flusher"]
          /\ batch["flusher"] \subseteq 1 .. handed
        BY <2>0, <3>1 DEF Threads
    <3>4. UNCHANGED <<pending, delivered, failed>>
        BY <2>1 DEF ExportCalled, bufferVars, gatewayVars
    <3> DEFINE fresh == handed + 1 .. handed + n
    <3>5. /\ batch'["exporter"] = fresh
          /\ fresh \cap (pending \cup delivered \cup failed) = {}
          /\ fresh \cap batch["flusher"] = {}
        BY <2>0, <3>2, <3>3
    <3> HIDE DEF fresh
    <3>6. \A t \in Threads : batch'[t] \cap (pending \cup delivered \cup failed) = {}
        BY <3>3, <3>5 DEF NeverSentTwice, Threads
    <3>7. batch'["exporter"] \cap batch'["flusher"] = {}
        BY <3>3, <3>5
    <3> QED BY <3>4, <3>6, <3>7 DEF NeverSentTwice
  <2>2. CASE Hold
    <3>1. /\ batch'["exporter"] = {}
          /\ batch'["flusher"] = batch["flusher"]
          /\ pending' \subseteq pending \cup batch["exporter"]
          /\ UNCHANGED <<delivered, failed>>
        BY <2>0, <2>2 DEF Hold, gatewayVars, Threads, Newest
    <3> QED BY <3>1 DEF NeverSentTwice, Threads
  <2>3. CASE Drain
    <3>1. /\ batch'["exporter"] = pending \cup batch["exporter"]
          /\ batch'["flusher"] = batch["flusher"]
          /\ pending' = {}
          /\ UNCHANGED <<delivered, failed>>
        BY <2>0, <2>3 DEF Drain, gatewayVars, Threads
    <3> QED BY <3>1 DEF NeverSentTwice, Threads
  <2>4. CASE FlushCalled
    <3>1. /\ batch'["exporter"] = batch["exporter"]
          /\ batch'["flusher"] = pending
          /\ pending' = {}
          /\ UNCHANGED <<delivered, failed>>
        BY <2>0, <2>4 DEF FlushCalled, gatewayVars, Threads
    <3> QED BY <3>1 DEF NeverSentTwice, Threads
  <2>5. CASE FlushGivesUp
    <3>1. /\ batch'["exporter"] = batch["exporter"]
          /\ batch'["flusher"] = {}
          /\ UNCHANGED <<pending, delivered, failed>>
        BY <2>0, <2>5 DEF FlushGivesUp, bufferVars, gatewayVars, Threads
    <3> QED BY <3>1 DEF NeverSentTwice, Threads
  <2>6. ASSUME NEW t \in Threads, Sends(t),
               delivered' \subseteq delivered \cup batch[t],
               failed' \subseteq failed \cup batch[t]
        PROVE NeverSentTwice'
    <3>1. \A u \in Threads : batch'[u] = IF u = t THEN {} ELSE batch[u]
        BY <2>0, <2>6 DEF Sends
    <3>2. UNCHANGED pending
        BY <2>6 DEF Sends, bufferVars
    <3>3. \A u \in Threads : u # t => batch[u] \cap batch[t] = {}
        BY DEF NeverSentTwice, Threads
    <3>4. pending \cap batch[t] = {}
        BY DEF NeverSentTwice
    <3>5. pending' \cap (delivered' \cup failed') = {}
        BY <2>6, <3>2, <3>4 DEF NeverSentTwice
    <3>6. \A u \in Threads : batch'[u] \cap (pending' \cup delivered' \cup failed') = {}
        BY <2>6, <3>1, <3>2, <3>3 DEF NeverSentTwice
    <3>7. batch'["exporter"] \cap batch'["flusher"] = {}
        BY <3>1 DEF NeverSentTwice, Threads
    <3> QED BY <3>5, <3>6, <3>7 DEF NeverSentTwice
  <2>7. ASSUME NEW t \in Threads, Accepted(t) \/ Refused(t) \/ RequestFails(t)
        PROVE NeverSentTwice'
    <3>1. Sends(t)
        BY <2>7 DEF Accepted, Refused, RequestFails
    <3>2. delivered' \subseteq delivered \cup batch[t] /\ failed' \subseteq failed \cup batch[t]
        BY <2>7 DEF Accepted, Refused, RequestFails, Reported
    <3> QED BY <2>6, <3>1, <3>2
  <2>8. CASE UNCHANGED <<pending, batch, delivered, failed>>
    BY <2>8 DEF NeverSentTwice
  <2>9. Tick \/ Revoke \/ Invalidate \/ FlushSets \/ UNCHANGED vars
            => UNCHANGED <<pending, batch, delivered, failed>>
    BY DEF Tick, Revoke, Invalidate, FlushSets, vars, bufferVars, gatewayVars
  <2>10. \A t \in Threads :
            CurrentServes(t) \/ CurrentFetches(t) \/ FetchSucceeds(t) \/ FetchFails(t)
                => UNCHANGED <<pending, batch, delivered, failed>>
    BY DEF CurrentServes, CurrentFetches, FetchSucceeds, FetchFails, bufferVars, gatewayVars
  <2> QED BY <2>1, <2>2, <2>3, <2>4, <2>5, <2>7, <2>8, <2>9, <2>10 DEF Next, Step
<1> QED BY <1>1, <1>2, TypeCorrect, PTL DEF Spec

-----------------------------------------------------------------------------
(* What a thread has in hand outside a call, and what the flusher has when *)
(* nobody flushes.                                                         *)
HandsEmpty ==
    /\ \A t \in Threads : pc[t] \in {"idle", "invalidate"} => batch[t] = {}
    /\ ~flushes => pc["flusher"] = "idle" /\ batch["flusher"] = {}

LEMMA HandsEmptyInit == Init => HandsEmpty
BY DEF Init, HandsEmpty, Threads

LEMMA HandsEmptyStep == TypeOK /\ HandsEmpty /\ [Next]_vars => HandsEmpty'
<1> SUFFICES ASSUME TypeOK, HandsEmpty, [Next]_vars PROVE HandsEmpty'
    OBVIOUS
<1>0. /\ pc \in [Threads -> Phase] /\ batch \in [Threads -> SUBSET (1 .. handed)]
      /\ flushes' = flushes
    BY DEF TypeOK, Next, vars
<1> USE <1>0 DEF HandsEmpty, Threads, Goto
<1>1. CASE Tick \/ Revoke \/ UNCHANGED vars
    BY <1>1 DEF Tick, Revoke, vars
<1>2. CASE ExportCalled
    BY <1>2 DEF ExportCalled
<1>3. CASE Hold \/ Invalidate
    BY <1>3 DEF Hold, Invalidate
<1>4. CASE Drain
    BY <1>4 DEF Drain
<1>5. CASE FlushCalled \/ FlushSets \/ FlushGivesUp
    BY <1>5 DEF FlushCalled, FlushSets, FlushGivesUp
<1>6. ASSUME NEW t \in Threads,
             CurrentServes(t) \/ CurrentFetches(t) \/ FetchSucceeds(t) \/ FetchFails(t)
      PROVE HandsEmpty'
  <2>1. PICK phase \in {"got", "fetching"} : pc' = [pc EXCEPT ![t] = phase]
      BY <1>6 DEF CurrentServes, CurrentFetches, FetchSucceeds, FetchFails
  <2>2. UNCHANGED batch /\ pc[t] # "idle"
      BY <1>6 DEF CurrentServes, CurrentFetches, FetchSucceeds, FetchFails
  <2> QED BY <2>1, <2>2
<1>7. ASSUME NEW t \in Threads, Accepted(t) \/ Refused(t) \/ RequestFails(t)
      PROVE HandsEmpty'
  <2>1. batch' = [batch EXCEPT ![t] = {}] /\ pc[t] = "sending"
      BY <1>7 DEF Accepted, Refused, RequestFails, Sends
  <2>2. PICK phase \in {"idle", "invalidate"} : pc' = [pc EXCEPT ![t] = phase]
      BY <1>7 DEF Accepted, Refused, RequestFails, AfterFailure
  <2> QED BY <2>1, <2>2
<1> QED BY <1>1, <1>2, <1>3, <1>4, <1>5, <1>6, <1>7 DEF Next, Step

(* What vanishes is part of the finite set of spans handed over.           *)
LEMMA VanishedFinite == handed \in Nat => IsFiniteSet(Vanished)
<1> SUFFICES ASSUME handed \in Nat PROVE IsFiniteSet(Vanished)
    OBVIOUS
<1>1. IsFiniteSet(1 .. handed)
    BY FS_Interval
<1>2. Vanished \in SUBSET (1 .. handed)
    BY DEF Vanished
<1> QED BY <1>1, <1>2, FS_Subset

(* LossCounted: unless someone calls force_flush, a span that is in no     *)
(* place any more has been counted: LossIsCounted.                         *)
THEOREM LossCounted == Spec => []LossIsCounted
<1>1. Init => LossIsCounted
  <2> SUFFICES ASSUME Init PROVE Cardinality(Vanished) = dropped + said
      BY DEF LossIsCounted, EveryLossCounted
  <2>1. 1 .. 0 = {}
      OBVIOUS
  <2>2. Vanished = {}
      BY <2>1 DEF Init, Vanished
  <2> QED BY <2>2, FS_EmptySet DEF Init
<1>2. /\ TypeOK /\ HandsEmpty /\ NeverSentTwice /\ LossIsCounted
      /\ TypeOK' /\ [Next]_vars
      => LossIsCounted'
  <2> SUFFICES ASSUME TypeOK, HandsEmpty, NeverSentTwice, EveryLossCounted, TypeOK',
                      [Next]_vars, ~flushes
               PROVE EveryLossCounted'
    BY DEF LossIsCounted, Next, vars
  <2>0. /\ batch \in [Threads -> SUBSET (1 .. handed)]
        /\ pc \in [Threads -> Phase]
        /\ handed \in Nat /\ dropped \in Nat /\ said \in Nat
        /\ pending \subseteq 1 .. handed
        /\ pc["flusher"] = "idle" /\ batch["flusher"] = {}
    BY DEF TypeOK, HandsEmpty
  <2>1. CASE Vanished' = Vanished /\ dropped' + said' = dropped + said
    BY <2>1 DEF EveryLossCounted
  <2>2. CASE Hold
    <3> DEFINE held == pending \cup batch["exporter"]
               gone == held \ Newest(held)
    <3>1. Newest(held) \subseteq held
        BY DEF Newest
    <3>2. /\ pending' = Newest(held)
          /\ batch'["exporter"] = {} /\ batch'["flusher"] = batch["flusher"]
          /\ dropped' = dropped + Cardinality(gone)
          /\ UNCHANGED <<handed, delivered, failed, said>>
        BY <2>0, <2>2 DEF Hold, Overflow, gatewayVars, Threads
    <3>3. held \cap (delivered \cup failed \cup batch["flusher"]) = {} /\ held \subseteq 1 .. handed
        BY <2>0 DEF NeverSentTwice, Threads
    <3>4. Vanished' = Vanished \cup gone
        BY <3>1, <3>2, <3>3 DEF Vanished
    <3>5. Vanished \cap gone = {}
        BY DEF Vanished
    <3>6. gone \in SUBSET (1 .. handed)
        BY <3>3
    <3> HIDE DEF gone, held
    <3>7. IsFiniteSet(Vanished)
        BY <2>0, VanishedFinite
    <3>8. IsFiniteSet(gone)
      <4>1. IsFiniteSet(1 .. handed)
          BY <2>0, FS_Interval
      <4> QED BY <3>6, <4>1, FS_Subset
    <3>9. Cardinality(Vanished \cup gone)
            = Cardinality(Vanished) + Cardinality(gone) - Cardinality(Vanished \cap gone)
        BY <3>7, <3>8, FS_Union
    <3>10. Cardinality(Vanished \cap gone) = 0
        BY <3>5, FS_EmptySet
    <3>11. Cardinality(gone) \in Nat
        BY <3>8, FS_CardinalityType
    <3> QED BY <2>0, <3>2, <3>4, <3>9, <3>10, <3>11 DEF EveryLossCounted
  <2>3. CASE ExportCalled
    <3>1. PICK n \in BatchSizes :
            /\ handed' = handed + n
            /\ batch' = [batch EXCEPT !["exporter"] = handed + 1 .. handed + n]
        BY <2>3 DEF ExportCalled
    <3>2. n \in Nat
        BY BatchAssumption
    <3>3. 1 .. handed' = (1 .. handed) \cup (handed + 1 .. handed + n)
        BY <2>0, <3>1, <3>2
    <3>4. (handed + 1 .. handed + n) \cap (1 .. handed) = {}
        BY <2>0
    <3>5. /\ batch["exporter"] = {} /\ batch'["exporter"] = handed + 1 .. handed + n
          /\ batch'["flusher"] = batch["flusher"]
          /\ UNCHANGED <<pending, delivered, failed, dropped, said>>
        BY <2>0, <2>3, <3>1 DEF ExportCalled, HandsEmpty, bufferVars, gatewayVars, Threads
    <3> DEFINE old == 1 .. handed
               fresh == handed + 1 .. handed + n
    <3>6. /\ 1 .. handed' = old \cup fresh /\ fresh \cap old = {}
          /\ batch'["exporter"] = fresh
        BY <3>3, <3>4, <3>5
    <3>7. Vanished = old \ (pending \cup delivered \cup failed)
        BY <2>0, <3>5 DEF Vanished
    <3> HIDE DEF old, fresh
    <3>8. Vanished' = Vanished
        BY <2>0, <3>5, <3>6, <3>7 DEF Vanished
    <3> QED BY <2>1, <3>5, <3>8
  <2>4. CASE Drain
    <3>1. /\ batch'["exporter"] = pending \cup batch["exporter"]
          /\ batch'["flusher"] = batch["flusher"]
          /\ pending' = {}
          /\ UNCHANGED <<handed, delivered, failed>>
        BY <2>0, <2>4 DEF Drain, gatewayVars, Threads
    <3>2. Vanished' = Vanished
        BY <3>1 DEF Vanished
    <3>3. dropped' + said' = dropped + said
        BY <2>0, <2>4 DEF Drain
    <3> QED BY <2>1, <3>2, <3>3
  <2>5. ASSUME NEW t \in Threads, Accepted(t) \/ Refused(t) \/ RequestFails(t)
        PROVE EveryLossCounted'
    <3>1. t = "exporter"
        BY <2>0, <2>5 DEF Accepted, Refused, RequestFails, Sends, Threads
    <3>2. /\ batch' = [batch EXCEPT ![t] = {}]
          /\ UNCHANGED <<pending, handed, dropped, said>>
        BY <2>5 DEF Accepted, Refused, RequestFails, Sends, bufferVars
    <3>3. delivered' \cup failed' = delivered \cup failed \cup batch["exporter"]
        BY <2>5, <3>1 DEF Accepted, Refused, RequestFails, Reported
    <3>4. batch'["exporter"] = {} /\ batch'["flusher"] = batch["flusher"]
        BY <2>0, <3>1, <3>2 DEF Threads
    <3>5. Vanished' = Vanished
        BY <3>2, <3>3, <3>4 DEF Vanished
    <3> QED BY <2>1, <3>2, <3>5
  <2>6. CASE UNCHANGED <<handed, pending, batch, delivered, failed, dropped, said>>
    <3>1. Vanished' = Vanished
        BY <2>6 DEF Vanished
    <3> QED BY <2>1, <2>6, <3>1
  <2>7. Tick \/ Revoke \/ Invalidate \/ FlushSets \/ UNCHANGED vars
            => UNCHANGED <<handed, pending, batch, delivered, failed, dropped, said>>
    BY DEF Tick, Revoke, Invalidate, FlushSets, vars, bufferVars, gatewayVars
  <2>8. \A t \in Threads :
            CurrentServes(t) \/ CurrentFetches(t) \/ FetchSucceeds(t) \/ FetchFails(t)
                => UNCHANGED <<handed, pending, batch, delivered, failed, dropped, said>>
    BY DEF CurrentServes, CurrentFetches, FetchSucceeds, FetchFails, bufferVars, gatewayVars
  <2>9. ~FlushCalled /\ ~FlushGivesUp
    BY <2>0 DEF FlushCalled, FlushGivesUp
  <2> QED BY <2>2, <2>3, <2>4, <2>5, <2>6, <2>7, <2>8, <2>9 DEF Next, Step
<1> QED BY <1>1, <1>2, TypeCorrect, SentOnce, HandsEmptyInit, HandsEmptyStep, PTL DEF Spec

-----------------------------------------------------------------------------
(* A set of spans that is not empty has an oldest one.                     *)
LEMMA OldestExists ==
    ASSUME NEW S \in SUBSET Nat, S # {}
    PROVE  \E m \in S : \A r \in S : m <= r
<1> DEFINE Less == {ss \in Nat \X Nat : ss[1] < ss[2]}
<1>1. IsWellFoundedOn(Less, Nat)
    BY NatLessThanWellFounded DEF OpToRel
<1>2. PICK m \in S : \A r \in S : <<r, m>> \notin Less
    BY <1>1, WFMin
<1>3. ASSUME NEW r \in S PROVE m <= r
  <2>1. r < m => <<r, m>> \in Less
      OBVIOUS
  <2> QED BY <1>2, <2>1
<1> QED BY <1>3

(* What is given up when the buffer overflows is older than what stays,    *)
(* and at most MaxPending spans stay.                                      *)
LEMMA NewestStay ==
    ASSUME NEW n \in Nat, NEW S \in SUBSET (1 .. n)
    PROVE  /\ Newest(S) \subseteq S
           /\ \A s \in S \ Newest(S), r \in Newest(S) : s < r
           /\ Cardinality(Newest(S)) <= MaxPending
<1> DEFINE Above(s) == {r \in S : r > s}
<1>0. \A s \in S : s \in Nat
    BY SMT
<1>1. \A s \in S : IsFiniteSet(Above(s)) /\ Cardinality(Above(s)) \in Nat
  <2> SUFFICES ASSUME NEW s \in S
               PROVE  IsFiniteSet(Above(s)) /\ Cardinality(Above(s)) \in Nat
      OBVIOUS
  <2>1. IsFiniteSet(1 .. n)
      BY FS_Interval
  <2>2. Above(s) \in SUBSET (1 .. n)
      OBVIOUS
  <2> QED BY <2>1, <2>2, FS_Subset, FS_CardinalityType
<1>2. Newest(S) = {s \in S : Cardinality(Above(s)) < MaxPending}
    BY DEF Newest
<1>3. ASSUME NEW s \in S \ Newest(S), NEW r \in Newest(S) PROVE s < r
  <2>1. r \in S /\ s \in S
      BY <1>2
  <2>2. r \in Nat /\ s \in Nat
      BY <1>0, <2>1
  <2>3. SUFFICES ASSUME r <= s PROVE FALSE
      BY <2>2
  <2>4. \A x \in S : x > s => x > r
      BY <1>0, <2>2, <2>3
  <2>5. Above(s) \in SUBSET Above(r)
      BY <2>4
  <2>6. Cardinality(Above(s)) <= Cardinality(Above(r))
      BY <1>1, <2>1, <2>5, FS_Subset
  <2>7. Cardinality(Above(r)) < MaxPending /\ ~(Cardinality(Above(s)) < MaxPending)
      BY <1>2
  <2>8. /\ Cardinality(Above(r)) \in Nat /\ Cardinality(Above(s)) \in Nat
        /\ MaxPending \in Nat
      BY <1>1, <2>1, PendingAssumption
  <2> HIDE DEF Above
  <2> QED BY <2>6, <2>7, <2>8
<1>4. Cardinality(Newest(S)) <= MaxPending
  <2>1. CASE Newest(S) = {}
      BY <2>1, FS_EmptySet, PendingAssumption
  <2>2. CASE Newest(S) # {}
    <3>1. Newest(S) \in SUBSET Nat
        BY <1>0, <1>2
    <3>2. PICK m \in Newest(S) : \A r \in Newest(S) : m <= r
        BY <2>2, <3>1, OldestExists
    <3>3. m \in S /\ Cardinality(Above(m)) < MaxPending
        BY <1>2, <3>2
    <3>4. Newest(S) \in SUBSET (Above(m) \cup {m})
      <4>1. ASSUME NEW r \in Newest(S), r # m PROVE r \in S /\ r > m
          BY <1>0, <1>2, <3>2, <3>3, <4>1
      <4> QED BY <4>1
    <3>5. /\ IsFiniteSet(Above(m) \cup {m})
          /\ \/ Cardinality(Above(m) \cup {m}) = Cardinality(Above(m))
             \/ Cardinality(Above(m) \cup {m}) = Cardinality(Above(m)) + 1
        BY <1>1, <3>3, FS_AddElement
    <3>6. /\ IsFiniteSet(Newest(S))
          /\ Cardinality(Newest(S)) <= Cardinality(Above(m) \cup {m})
        BY <3>4, <3>5, FS_Subset
    <3>7. Cardinality(Newest(S)) \in Nat /\ Cardinality(Above(m)) \in Nat
        BY <1>1, <3>3, <3>6, FS_CardinalityType
    <3> HIDE DEF Above
    <3> QED BY <3>3, <3>5, <3>6, <3>7, PendingAssumption
  <2> QED BY <2>1, <2>2
<1> QED BY <1>2, <1>3, <1>4

(* What export has been handed and has neither held nor sent.              *)
Coming == IF pc["exporter"] \in {"current", "fetching", "got"} THEN batch["exporter"] ELSE {}

(* The spans that vanished or wait in a flush are older than the held      *)
(* ones, and those older than the ones still coming.                       *)
OldestFirst ==
    /\ \A s \in Vanished \cup batch["flusher"], r \in pending \cup Coming : s < r
    /\ \A s \in pending, r \in Coming : s < r
    /\ Cardinality(pending) <= MaxPending

LEMMA OldestFirstStep ==
    TypeOK /\ NeverSentTwice /\ HandsEmpty /\ OldestFirst /\ [Next]_vars => OldestFirst'
<1> SUFFICES ASSUME TypeOK, NeverSentTwice, HandsEmpty, OldestFirst, [Next]_vars
             PROVE OldestFirst'
    OBVIOUS
<1>0. /\ batch \in [Threads -> SUBSET (1 .. handed)]
      /\ pc \in [Threads -> Phase]
      /\ handed \in Nat
      /\ pending \subseteq 1 .. handed
    BY DEF TypeOK
<1>1. ASSUME pending' \subseteq pending, Cardinality(pending') <= MaxPending,
             Coming' \subseteq Coming,
             Vanished' \cup batch'["flusher"] \subseteq Vanished \cup batch["flusher"]
      PROVE  OldestFirst'
    BY <1>1 DEF OldestFirst
<1>2. CASE ExportCalled
  <2>1. PICK n \in BatchSizes :
          /\ handed' = handed + n
          /\ batch' = [batch EXCEPT !["exporter"] = handed + 1 .. handed + n]
      BY <1>2 DEF ExportCalled
  <2>2. n \in Nat
      BY BatchAssumption
  <2> DEFINE old == 1 .. handed
             fresh == handed + 1 .. handed + n
  <2>3. 1 .. handed' = old \cup fresh /\ \A s \in old, r \in fresh : s < r
      BY <1>0, <2>1, <2>2
  <2>4. /\ batch["exporter"] = {} /\ batch'["exporter"] = fresh
        /\ batch'["flusher"] = batch["flusher"] /\ batch["flusher"] \subseteq old
        /\ pending \subseteq old
        /\ UNCHANGED <<pending, delivered, failed>>
      BY <1>0, <1>2, <2>1 DEF ExportCalled, HandsEmpty, bufferVars, gatewayVars, Threads
  <2>5. Vanished = old \ (pending \cup batch["exporter"] \cup batch["flusher"]
                            \cup delivered \cup failed)
      BY DEF Vanished
  <2>6. Coming' \subseteq fresh
      BY <2>4 DEF Coming
  <2> HIDE DEF old, fresh
  <2>7. Vanished' \subseteq Vanished /\ Vanished \subseteq old
      BY <2>3, <2>4, <2>5 DEF Vanished
  <2> QED BY <2>3, <2>4, <2>6, <2>7 DEF OldestFirst
<1>3. CASE Hold
  <2> DEFINE held == pending \cup batch["exporter"]
  <2>1. /\ pending' = Newest(held) /\ batch'["exporter"] = {}
        /\ batch'["flusher"] = batch["flusher"] /\ pc'["exporter"] = "idle"
        /\ Coming = batch["exporter"]
        /\ UNCHANGED <<handed, delivered, failed>>
      BY <1>0, <1>3 DEF Hold, Coming, Goto, gatewayVars, Threads
  <2>2. held \in SUBSET (1 .. handed)
      BY <1>0 DEF Threads
  <2>3. \A s \in Vanished \cup batch["flusher"], r \in held : s < r
      BY <2>1 DEF OldestFirst
  <2>4. Vanished' \subseteq Vanished \cup (held \ Newest(held))
      BY <2>1 DEF Vanished
  <2>5. Coming' = {}
      BY <2>1 DEF Coming
  <2> HIDE DEF held
  <2>6. /\ Newest(held) \subseteq held
        /\ \A s \in held \ Newest(held), r \in Newest(held) : s < r
        /\ Cardinality(Newest(held)) <= MaxPending
      BY <1>0, <2>2, NewestStay
  <2> QED BY <2>1, <2>3, <2>4, <2>5, <2>6 DEF OldestFirst
<1>4. CASE Drain
  <2>1. pending' = {} /\ pc'["exporter"] = "sending"
      BY <1>0, <1>4 DEF Drain, Goto, Threads
  <2>2. Coming' = {}
      BY <2>1 DEF Coming
  <2>3. Cardinality(pending') <= MaxPending
      BY <2>1, FS_EmptySet, PendingAssumption
  <2> QED BY <2>1, <2>2, <2>3 DEF OldestFirst
<1>5. CASE FlushCalled
  <2>1. /\ batch["flusher"] = {} /\ batch'["flusher"] = pending
        /\ batch'["exporter"] = batch["exporter"] /\ pc'["exporter"] = pc["exporter"]
        /\ pending' = {}
        /\ UNCHANGED <<handed, delivered, failed>>
      BY <1>0, <1>5 DEF FlushCalled, Goto, HandsEmpty, gatewayVars, Threads
  <2>2. Coming' = Coming /\ Vanished' = Vanished
      BY <2>1 DEF Coming, Vanished
  <2>3. Cardinality(pending') <= MaxPending
      BY <2>1, FS_EmptySet, PendingAssumption
  <2> QED BY <2>1, <2>2, <2>3 DEF OldestFirst
<1>6. CASE FlushGivesUp
  <2>1. /\ batch'["flusher"] = {} /\ batch'["exporter"] = batch["exporter"]
        /\ pc'["exporter"] = pc["exporter"]
        /\ UNCHANGED <<pending, handed, delivered, failed>>
      BY <1>0, <1>6 DEF FlushGivesUp, Goto, bufferVars, gatewayVars, Threads
  <2>2. Coming' = Coming /\ Vanished' \subseteq Vanished \cup batch["flusher"]
      BY <2>1 DEF Coming, Vanished
  <2> QED BY <1>1, <2>1, <2>2 DEF OldestFirst
<1>7. ASSUME NEW t \in Threads, Accepted(t) \/ Refused(t) \/ RequestFails(t)
      PROVE OldestFirst'
  <2>1. /\ batch' = [batch EXCEPT ![t] = {}] /\ pc[t] = "sending"
        /\ UNCHANGED <<pending, handed>>
        /\ delivered \subseteq delivered' /\ failed \subseteq failed'
      BY <1>7 DEF Accepted, Refused, RequestFails, Sends, Reported, bufferVars
  <2>2. PICK phase \in {"idle", "invalidate"} : pc' = [pc EXCEPT ![t] = phase]
      BY <1>7 DEF Accepted, Refused, RequestFails, AfterFailure, Goto
  <2>3. Coming' \subseteq Coming
      BY <1>0, <2>1, <2>2 DEF Coming, Threads
  <2>4. CASE t = "exporter"
    <3>1. batch["exporter"] \subseteq delivered' \cup failed'
        BY <1>7, <2>4 DEF Accepted, Refused, RequestFails, Reported
    <3>2. batch'["exporter"] = {} /\ batch'["flusher"] = batch["flusher"]
        BY <1>0, <2>1, <2>4 DEF Threads
    <3>3. Vanished' \subseteq Vanished
        BY <2>1, <3>1, <3>2 DEF Vanished
    <3> QED BY <1>1, <2>1, <2>3, <3>2, <3>3 DEF OldestFirst
  <2>5. CASE t = "flusher"
    <3>1. batch'["flusher"] = {} /\ batch'["exporter"] = batch["exporter"]
        BY <1>0, <2>1, <2>5 DEF Threads
    <3>2. Vanished' \subseteq Vanished \cup batch["flusher"]
        BY <2>1, <3>1 DEF Vanished
    <3> QED BY <1>1, <2>1, <2>3, <3>1, <3>2 DEF OldestFirst
  <2> QED BY <2>4, <2>5 DEF Threads
<1>8. CASE UNCHANGED <<handed, pending, batch, delivered, failed>> /\ Coming' \subseteq Coming
  <2>1. Vanished' = Vanished
      BY <1>8 DEF Vanished
  <2> QED BY <1>1, <1>8, <2>1 DEF OldestFirst
<1>9. ASSUME Tick \/ Revoke \/ Invalidate \/ FlushSets \/ UNCHANGED vars PROVE OldestFirst'
  <2>1. UNCHANGED <<handed, pending, batch, delivered, failed>>
      BY <1>9 DEF Tick, Revoke, Invalidate, FlushSets, vars, bufferVars, gatewayVars
  <2>2. Coming' \subseteq Coming
      BY <1>0, <1>9, <2>1 DEF Tick, Revoke, Invalidate, FlushSets, vars, Coming, Goto, Threads
  <2> QED BY <1>8, <2>1, <2>2
<1>10. ASSUME NEW t \in Threads,
              CurrentServes(t) \/ CurrentFetches(t) \/ FetchSucceeds(t) \/ FetchFails(t)
       PROVE  OldestFirst'
  <2>1. UNCHANGED <<handed, pending, batch, delivered, failed>>
      BY <1>10 DEF CurrentServes, CurrentFetches, FetchSucceeds, FetchFails, bufferVars, gatewayVars
  <2>2. /\ pc[t] \in {"current", "fetching"}
        /\ \A u \in Threads \ {t} : pc'[u] = pc[u]
      BY <1>0, <1>10 DEF CurrentServes, CurrentFetches, FetchSucceeds, FetchFails, Goto
  <2>3. Coming' \subseteq Coming
      BY <2>1, <2>2 DEF Coming, Threads
  <2> QED BY <1>8, <2>1, <2>3
<1> QED BY <1>2, <1>3, <1>4, <1>5, <1>6, <1>7, <1>9, <1>10 DEF Next, Step

(* OldestGoFirst: the buffer stays within its limit, for every limit, and  *)
(* what it gave up is older than all it still holds: OldestDropped.        *)
THEOREM OldestGoFirst == Spec => []OldestDropped
<1>1. Init => OldestFirst
  <2> SUFFICES ASSUME Init PROVE OldestFirst
      OBVIOUS
  <2>1. pending = {} /\ Coming = {}
      BY DEF Init, Coming, Threads
  <2> QED BY <2>1, FS_EmptySet, PendingAssumption DEF OldestFirst
<1>2. OldestFirst => OldestDropped
    BY DEF OldestFirst, OldestDropped
<1> QED BY <1>1, <1>2, OldestFirstStep, TypeCorrect, SentOnce, HandsEmptyInit, HandsEmptyStep,
           PTL DEF Spec
-----------------------------------------------------------------------------
(* While nobody calls force_flush, what the exporting thread has got, sends *)
(* and has sent is the session's token, and none that was refused before.   *)
OneToken ==
    /\ session # NoSession => session.token \in 1 .. Len(minted)
    /\ ~flushes =>
        /\ \A i \in DOMAIN refused : refused[i] \in 1 .. Len(minted)
        /\ \A i, j \in DOMAIN refused : refused[i] = refused[j] => i = j
        /\ session # NoSession /\ pc["exporter"] # "invalidate" =>
               \A i \in DOMAIN refused : refused[i] # session.token
        /\ pc["exporter"] = "fetching" => started["exporter"] <= now
        /\ pc["exporter"] = "got" =>
               \/ got["exporter"] = session
               \/ got["exporter"] = NoSession /\ now >= session.expiresAt
        /\ pc["exporter"] = "sending" => session # NoSession /\ header = session.token
        /\ pc["exporter"] = "invalidate" => carried["exporter"] = session.token

LEMMA OneTokenStep ==
    TypeOK /\ HandsEmpty /\ OneToken /\ [Next]_vars => OneToken'
<1> SUFFICES ASSUME TypeOK, HandsEmpty, OneToken, [Next]_vars PROVE OneToken'
    OBVIOUS
<1>0. /\ pc \in [Threads -> Phase] /\ got \in [Threads -> Session]
      /\ started \in [Threads -> Nat] /\ carried \in [Threads -> Token]
      /\ session \in Session /\ now \in Nat /\ refused \in Seq(Token)
      /\ minted \in Seq(Nat) /\ header \in Token
      /\ "exporter" \in Threads
      /\ flushes' = flushes
    BY DEF TypeOK, Next, vars, Threads
<1>1. CASE flushes
  <2>1. session' = session \/ session' = NoSession \/ \E t \in Threads : FetchSucceeds(t)
      BY DEF Next, Step, vars, providerVars, Tick, Revoke, ExportCalled, Hold, Drain, Invalidate,
             FlushCalled, FlushSets, FlushGivesUp, CurrentServes, CurrentFetches, FetchFails,
             Accepted, Refused, RequestFails, Sends
  <2>2. CASE \E t \in Threads : FetchSucceeds(t)
    <3>1. PICK t \in Threads : FetchSucceeds(t)
        BY <2>2
    <3>2. PICK age \in RefreshAfter : session' = Build(Len(minted'), age)
        BY <3>1 DEF FetchSucceeds
    <3>3. Len(minted') = Len(minted) + 1 /\ Len(minted) \in Nat
        BY <1>0, <3>1 DEF FetchSucceeds
    <3>4. session'.token \in 1 .. Len(minted')
        BY <3>2, <3>3 DEF Build
    <3> QED BY <1>0, <1>1, <3>4 DEF OneToken
  <2>3. CASE ~(\E t \in Threads : FetchSucceeds(t))
    <3>1. minted' = minted
        BY <2>3 DEF Next, Step, vars, Tick, Revoke, ExportCalled, Hold, Drain, Invalidate,
             FlushCalled, FlushSets, FlushGivesUp, CurrentServes, CurrentFetches, FetchFails,
             Accepted, Refused, RequestFails, Sends
    <3> QED BY <1>0, <1>1, <2>1, <2>3, <3>1 DEF OneToken
  <2> QED BY <2>2, <2>3
<1>2. CASE ~flushes
  <2>0. pc["flusher"] = "idle" /\ ~flushes' /\ Threads = {"exporter", "flusher"}
      BY <1>0, <1>2 DEF HandsEmpty, Threads
  <2> USE <1>0, <1>2, <2>0 DEF Goto
  <2>1. CASE Tick
      BY <2>1 DEF Tick, OneToken, providerVars, callVars, gatewayVars, Session
  <2>2. CASE Revoke
      BY <2>2 DEF Revoke, OneToken, providerVars, callVars, gatewayVars
  <2>3. CASE ExportCalled
      BY <2>3 DEF ExportCalled, OneToken, providerVars, callVars, gatewayVars
  <2>4. CASE Hold
      BY <2>4 DEF Hold, OneToken, providerVars, callVars, gatewayVars
  <2>5. CASE Drain
      BY <2>5 DEF Drain, OneToken, providerVars, callVars, gatewayVars
  <2>6. CASE Invalidate
      BY <2>6 DEF Invalidate, OneToken, callVars, gatewayVars
  <2>7. ASSUME NEW t \in Threads, CurrentServes(t) PROVE OneToken'
    <3>1. t = "exporter"
        BY <2>7 DEF CurrentServes
    <3>2. /\ got'["exporter"] = Servable(now) /\ pc'["exporter"] = "got"
          /\ pc["exporter"] = "current"
          /\ UNCHANGED <<session, now, minted, refused>>
        BY <2>7, <3>1 DEF CurrentServes, providerVars, gatewayVars
    <3>3. Servable(now) = session \/ (Servable(now) = NoSession /\ now >= session.expiresAt)
        BY DEF Servable, Session
    <3> QED BY <3>2, <3>3 DEF OneToken
  <2>8. ASSUME NEW t \in Threads, CurrentFetches(t) PROVE OneToken'
      BY <2>8 DEF CurrentFetches, OneToken, providerVars, gatewayVars
  <2>9. ASSUME NEW t \in Threads, FetchSucceeds(t) PROVE OneToken'
    <3>1. t = "exporter"
        BY <2>9 DEF FetchSucceeds
    <3>2. PICK age \in RefreshAfter : session' = Build(Len(minted'), age)
        BY <2>9 DEF FetchSucceeds
    <3>3. /\ got'["exporter"] = session' /\ pc'["exporter"] = "got"
          /\ pc["exporter"] = "fetching"
          /\ refused' = refused
        BY <2>9, <3>1 DEF FetchSucceeds, gatewayVars
    <3>4. Len(minted') = Len(minted) + 1 /\ Len(minted) \in Nat
        BY <2>9 DEF FetchSucceeds
    <3>5. session'.token = Len(minted) + 1
        BY <3>2, <3>4 DEF Build
    <3>6. \A i \in DOMAIN refused : refused[i] \in 1 .. Len(minted)
        BY DEF OneToken
    <3>7. \A i \in DOMAIN refused : refused[i] \in 1 .. Len(minted') /\ refused[i] # session'.token
        BY <3>4, <3>5, <3>6
    <3>8. session'.token \in 1 .. Len(minted')
        BY <3>4, <3>5
    <3> QED BY <3>3, <3>7, <3>8 DEF OneToken
  <2>10. ASSUME NEW t \in Threads, FetchFails(t) PROVE OneToken'
    <3>1. t = "exporter"
        BY <2>10 DEF FetchFails
    <3>2. /\ got'["exporter"] = Servable(started["exporter"]) /\ pc'["exporter"] = "got"
          /\ pc["exporter"] = "fetching"
          /\ UNCHANGED <<session, now, minted, refused>>
        BY <2>10, <3>1 DEF FetchFails, gatewayVars
    <3>3. started["exporter"] <= now /\ started["exporter"] \in Nat /\ session.expiresAt \in Nat
        BY <3>2 DEF OneToken, Session
    <3>4. \/ Servable(started["exporter"]) = session
          \/ Servable(started["exporter"]) = NoSession /\ now >= session.expiresAt
        BY <3>3 DEF Servable
    <3> QED BY <3>2, <3>4 DEF OneToken
  <2>11. ASSUME NEW t \in Threads, Accepted(t) \/ RequestFails(t) PROVE OneToken'
    <3>1. t = "exporter" /\ pc["exporter"] = "sending"
        BY <2>11 DEF Accepted, RequestFails, Sends
    <3>2. /\ carried'["exporter"] = header
          /\ pc'["exporter"] \in {"idle", "invalidate"}
          /\ UNCHANGED <<session, now, minted, refused, header>>
        BY <2>11, <3>1 DEF Accepted, RequestFails, Sends, AfterFailure, providerVars
    <3> QED BY <3>1, <3>2 DEF OneToken
  <2>12. ASSUME NEW t \in Threads, Refused(t) PROVE OneToken'
    <3>1. t = "exporter" /\ pc["exporter"] = "sending"
        BY <2>12 DEF Refused, Sends
    <3>2. /\ carried'["exporter"] = header
          /\ pc'["exporter"] = "invalidate"
          /\ refused' = Append(refused, header)
          /\ UNCHANGED <<session, now, minted, header>>
        BY <2>12, <3>1 DEF Refused, Sends, AfterFailure, providerVars
    <3>3. session # NoSession /\ header = session.token /\ header \in 1 .. Len(minted)
        BY <3>1 DEF OneToken
    <3>4. \A i \in DOMAIN refused : refused[i] # header
        BY <3>1, <3>3 DEF OneToken
    <3>5. /\ DOMAIN refused' = 1 .. Len(refused) + 1 /\ DOMAIN refused = 1 .. Len(refused)
          /\ Len(refused) \in Nat
          /\ refused'[Len(refused) + 1] = header
          /\ \A i \in 1 .. Len(refused) : refused'[i] = refused[i]
        BY <3>2
    <3>6. \A i \in DOMAIN refused' : refused'[i] \in 1 .. Len(minted)
        BY <3>3, <3>5 DEF OneToken
    <3>7. \A i, j \in DOMAIN refused' : refused'[i] = refused'[j] => i = j
      <4> SUFFICES ASSUME NEW i \in DOMAIN refused', NEW j \in DOMAIN refused',
                          refused'[i] = refused'[j]
                   PROVE  i = j
          OBVIOUS
      <4>1. CASE i \in DOMAIN refused /\ j \in DOMAIN refused
          BY <3>5, <4>1 DEF OneToken
      <4>2. CASE i = Len(refused) + 1 \/ j = Len(refused) + 1
          BY <3>4, <3>5, <4>2
      <4> QED BY <3>5, <4>1, <4>2
    <3> QED BY <3>2, <3>3, <3>6, <3>7 DEF OneToken
  <2>13. CASE UNCHANGED vars
      BY <2>13 DEF OneToken, vars, providerVars, callVars, gatewayVars
  <2>14. ~FlushCalled /\ ~FlushSets /\ ~FlushGivesUp
      BY DEF FlushCalled, FlushSets, FlushGivesUp
  <2> QED BY <2>1, <2>2, <2>3, <2>4, <2>5, <2>6, <2>7, <2>8, <2>9, <2>10, <2>11, <2>12, <2>13,
             <2>14 DEF Next, Step
<1> QED BY <1>1, <1>2

LEMMA OneTokenAlways == Spec => [](TypeOK /\ HandsEmpty /\ OneToken)
<1>1. Init => OneToken
    BY DEF Init, OneToken, Threads
<1> QED BY <1>1, OneTokenStep, TypeCorrect, HandsEmptyInit, HandsEmptyStep, PTL DEF Spec

(* RefusedIsDropped: for every lifetime, back-off and number of faults, the *)
(* exporting thread never presents a token again that it was refused with,  *)
(* while nobody calls force_flush: RefusedNotRetried.                       *)
THEOREM RefusedIsDropped == Spec => []RefusedNotRetried
<1>1. OneToken => RefusedNotRetried
    BY DEF OneToken, RefusedNotRetried
<1> QED BY <1>1, OneTokenAlways, PTL

(* InvalidatesItsOwn: while nobody calls force_flush, invalidate drops the  *)
(* token the failed request carried and no fresher one: DropsWhatFailed.    *)
THEOREM InvalidatesItsOwn == Spec => DropsWhatFailed
<1>1. ASSUME TypeOK, HandsEmpty, OneToken, [Next]_vars, ~flushes,
             session # NoSession, session' = NoSession
      PROVE  pc["exporter"] = "invalidate" /\ carried["exporter"] = session.token
  <2>1. \A t \in Threads : ~FetchSucceeds(t)
    <3> SUFFICES ASSUME NEW t \in Threads, FetchSucceeds(t) PROVE FALSE
        OBVIOUS
    <3>1. PICK age \in RefreshAfter : session' = Build(Len(minted'), age)
        BY DEF FetchSucceeds
    <3>2. Len(minted') = Len(minted) + 1 /\ Len(minted) \in Nat
        BY DEF FetchSucceeds, TypeOK
    <3>3. session'.token = Len(minted) + 1 /\ NoSession.token = 0
        BY <3>1, <3>2 DEF Build, NoSession
    <3> QED BY <1>1, <3>2, <3>3
  <2>2. Invalidate
      BY <1>1, <2>1 DEF Next, Step, vars, providerVars, Tick, Revoke, ExportCalled, Hold, Drain,
             FlushCalled, FlushSets, FlushGivesUp, CurrentServes, CurrentFetches, FetchFails,
             Accepted, Refused, RequestFails, Sends
  <2> QED BY <1>1, <2>2 DEF Invalidate, OneToken
<1>2. TypeOK /\ HandsEmpty /\ OneToken /\ [Next]_vars =>
          [~flushes /\ session # NoSession /\ session' = NoSession =>
              pc["exporter"] = "invalidate" /\ carried["exporter"] = session.token]_vars
    BY <1>1
<1> QED BY <1>2, OneTokenAlways, PTL DEF Spec, DropsWhatFailed

(* HeldForWant: while nobody calls force_flush, spans are held only when    *)
(* the session has run out, for every back-off and however long a fetch     *)
(* takes to fail: HoldsOnlyWithoutToken.                                    *)
THEOREM HeldForWant == Spec => HoldsOnlyWithoutToken
<1>1. ASSUME TypeOK, HandsEmpty, OneToken, [Next]_vars, ~flushes, ~(pending' \subseteq pending)
      PROVE  now >= session.expiresAt
  <2>1. Hold
      BY <1>1 DEF Next, Step, vars, bufferVars, Tick, Revoke, ExportCalled, Invalidate, Drain,
             FlushCalled, FlushSets, FlushGivesUp, CurrentServes, CurrentFetches, FetchSucceeds,
             FetchFails, Accepted, Refused, RequestFails, Sends
  <2>2. session = NoSession => session.expiresAt = 0
      BY DEF NoSession
  <2> QED BY <1>1, <2>1, <2>2 DEF Hold, OneToken, TypeOK
<1>2. TypeOK /\ HandsEmpty /\ OneToken /\ [Next]_vars =>
          [~flushes /\ ~(pending' \subseteq pending) => now >= session.expiresAt]_vars
    BY <1>1
<1> QED BY <1>2, OneTokenAlways, PTL DEF Spec, HoldsOnlyWithoutToken

(* AllAccounted: so every span that was handed over is held, on its way,   *)
(* delivered, given up by a failed export, or counted as lost and older    *)
(* than all that are held.                                                 *)
THEOREM AllAccounted == Spec => []SpansAccounted
BY TypeCorrect, SentOnce, LossCounted, OldestGoFirst, PTL DEF SpansAccounted

-----------------------------------------------------------------------------
(***************************************************************************)
(* The streams alone, then the calls and the streams.                      *)
(***************************************************************************)

\* What the counter remembers of a parent is what was last emitted under it, and
\* it only remembers parents that reported.
CountsFollow ==
  \A p \in DOMAIN counts :
    emitted[p] # <<>> /\ emitted[p][Len(emitted[p])] = counts[p] - 1

Budget(n) == n * (MaxProgress + 1)

\* Under each parent: a full budget for every time the counter forgot, and what it
\* has counted since.
WithinBudget == \A p \in Parents : Len(emitted[p]) <= Budget(resets) + CountOf(p)

ResetsNeedParents == Cardinality(Reporting) <= MaxTracked => resets = 0

LEMMA CountOfType == StreamTypeOK => \A p \in Parents : CountOf(p) \in 0 .. MaxProgress + 1
BY StreamingAssumption DEF StreamTypeOK, CountOf

LEMMA BudgetGrows ==
  \A n \in Nat : /\ Budget(n) \in Nat
                 /\ Budget(n + 1) = Budget(n) + (MaxProgress + 1)
BY StreamingAssumption DEF Budget

\* What a span that is not refused changes, in the terms of the invariants: for its
\* parent ...
LEMMA TakeCounts ==
  ASSUME StreamTypeOK, NEW p \in Parents, Take(p)
  PROVE  /\ counts'[p] = CountOf(p) + 1
         /\ CountOf(p) \in Nat /\ MaxProgress \in Nat /\ CountOf(p) <= MaxProgress
BY StreamingAssumption DEF StreamTypeOK, Take, CountOf

LEMMA TakeEmits ==
  ASSUME StreamTypeOK, NEW p \in Parents, Take(p)
  PROVE  /\ emitted'[p] = Append(emitted[p], CountOf(p))
         /\ emitted[p] \in Seq(0 .. MaxProgress)
BY DEF StreamTypeOK, Take

\* ... and for the others.
LEMMA TakeOthers ==
  ASSUME StreamTypeOK, NEW p \in Parents, Take(p)
  PROVE  /\ DOMAIN counts' = Remembered \cup {p}
         /\ Remembered \subseteq DOMAIN counts
         /\ \A q \in Remembered \ {p} : counts'[q] = counts[q]
         /\ \A q \in Parents \ {p} : emitted'[q] = emitted[q]
BY DEF StreamTypeOK, Take, Remembered

-----------------------------------------------------------------------------
\* StreamTypeCorrect: every variable of the counter and the bus has its type.
THEOREM StreamTypeCorrect == StreamSpec => []StreamTypeOK
<1>1. StreamInit => StreamTypeOK
  BY StreamingAssumption DEF StreamInit, StreamTypeOK
<1>2. StreamTypeOK /\ [StreamNext]_streamVars => StreamTypeOK'
  <2> SUFFICES ASSUME StreamTypeOK, [StreamNext]_streamVars PROVE StreamTypeOK'
    OBVIOUS
  <2>1. ASSUME NEW p \in Parents, Report(p) PROVE StreamTypeOK'
    <3>1. UNCHANGED eventVars /\ reports' \in 0 .. MaxReports
      BY <2>1, StreamingAssumption DEF Report, StreamTypeOK
    <3>2. CASE Take(p)
      <4>1. /\ DOMAIN counts' \subseteq Parents
            /\ \A q \in DOMAIN counts' : counts'[q] \in 1 .. MaxProgress + 1
        <5>1. counts'[p] \in 1 .. MaxProgress + 1
          BY <3>2, TakeCounts
        <5>2. \A q \in Remembered \ {p} : counts'[q] \in 1 .. MaxProgress + 1
          BY <3>2, TakeOthers DEF StreamTypeOK
        <5> QED BY <3>2, <5>1, <5>2, TakeOthers DEF StreamTypeOK
      <4>2. emitted' \in [Parents -> Seq(0 .. MaxProgress)]
        <5>1. CountOf(p) \in 0 .. MaxProgress
          BY <3>2, TakeCounts
        <5>2. Append(emitted[p], CountOf(p)) \in Seq(0 .. MaxProgress)
          BY <3>2, <5>1, TakeEmits
        <5> QED BY <3>2, <5>2 DEF Take, StreamTypeOK
      <4>3. resets' \in Nat
        BY <3>2 DEF Take, StreamTypeOK
      <4> QED BY <3>1, <4>1, <4>2, <4>3 DEF StreamTypeOK, eventVars
    <3>3. CASE Refuse(p)
      BY <3>1, <3>3 DEF Refuse, StreamTypeOK, eventVars
    <3> QED BY <2>1, <3>2, <3>3 DEF Report
  <2>2. ASSUME NEW e \in Events, PublishBegins(e) PROVE StreamTypeOK'
    BY <2>2 DEF PublishBegins, StreamTypeOK, progressVars
  <2>3. ASSUME NEW e \in Events, PublishDelivers(e) PROVE StreamTypeOK'
    BY <2>3 DEF PublishDelivers, StreamTypeOK, progressVars
  <2>4. ASSUME NEW e \in Events, PublishFails(e) PROVE StreamTypeOK'
    BY <2>4 DEF PublishFails, StreamTypeOK, progressVars
  <2>5. CASE UNCHANGED streamVars
    BY <2>5 DEF streamVars, progressVars, eventVars, StreamTypeOK
  <2> QED BY <2>1, <2>2, <2>3, <2>4, <2>5 DEF StreamNext
<1> QED BY <1>1, <1>2, PTL DEF StreamSpec

-----------------------------------------------------------------------------
\* A step of the bus leaves the progress counter alone.
LEMMA OnlyReports ==
  ASSUME [StreamNext]_streamVars,
         ~ \E p \in Parents : Take(p)
  PROVE  UNCHANGED <<counts, emitted, resets>>
BY DEF StreamNext, Report, Refuse, PublishBegins, PublishDelivers, PublishFails, progressVars,
       eventVars, streamVars

\* What the counter remembers of a parent (take) is what was last emitted under it.
THEOREM CountsFollowAlways == StreamSpec => []CountsFollow
<1>1. StreamInit => CountsFollow
  BY DEF StreamInit, CountsFollow
<1>2. StreamTypeOK /\ CountsFollow /\ [StreamNext]_streamVars => CountsFollow'
  <2> SUFFICES ASSUME StreamTypeOK, CountsFollow, [StreamNext]_streamVars PROVE CountsFollow'
    OBVIOUS
  <2>1. ASSUME NEW p \in Parents, Take(p) PROVE CountsFollow'
    <3>1. emitted'[p] # <<>> /\ emitted'[p][Len(emitted'[p])] = counts'[p] - 1
      BY SMTT(30), <2>1, TakeCounts, TakeEmits
    <3>2. ASSUME NEW q \in DOMAIN counts' \ {p}
          PROVE  emitted'[q] # <<>> /\ emitted'[q][Len(emitted'[q])] = counts'[q] - 1
      <4>1. q \in Remembered /\ q \in DOMAIN counts /\ q \in Parents
        BY <2>1, <3>2, TakeOthers DEF StreamTypeOK
      <4> QED BY <2>1, <4>1, TakeOthers DEF CountsFollow
    <3> QED BY <3>1, <3>2 DEF CountsFollow
  <2>2. CASE UNCHANGED <<counts, emitted, resets>>
    BY <2>2 DEF CountsFollow
  <2> QED BY <2>1, <2>2, OnlyReports
<1> QED BY <1>1, <1>2, StreamTypeCorrect, PTL DEF StreamSpec

\* CutMarked: a parent that is refused any more spans had the marker last.
THEOREM CutMarked == StreamSpec => []CutIsMarked
<1>1. StreamTypeOK /\ CountsFollow => CutIsMarked
  BY StreamingAssumption DEF StreamTypeOK, CountsFollow, CutIsMarked, CountOf
<1> QED BY <1>1, StreamTypeCorrect, CountsFollowAlways, PTL

\* NoGap: no report under a parent is left out before the cap.
THEOREM NoGap == StreamSpec => []NoGapInIndices
<1>1. StreamInit => NoGapInIndices
  BY DEF StreamInit, NoGapInIndices
<1>2. StreamTypeOK /\ CountsFollow /\ NoGapInIndices /\ [StreamNext]_streamVars => NoGapInIndices'
  <2> SUFFICES ASSUME StreamTypeOK, CountsFollow, NoGapInIndices, [StreamNext]_streamVars
               PROVE NoGapInIndices'
    OBVIOUS
  <2>1. ASSUME NEW p \in Parents, Take(p) PROVE NoGapInIndices'
    <3> DEFINE e == emitted[p]
               c == CountOf(p)
    <3>1. /\ emitted'[p] = Append(e, c) /\ e \in Seq(0 .. MaxProgress) /\ c \in Int
          /\ c = 0 \/ (Len(e) > 0 /\ c = e[Len(e)] + 1)
      <4>1. emitted'[p] = Append(e, c) /\ e \in Seq(0 .. MaxProgress) /\ c \in Int
        BY <2>1, TakeCounts, TakeEmits
      <4>2. CASE p \in DOMAIN counts
        BY <4>1, <4>2 DEF CountsFollow, CountOf, StreamTypeOK
      <4>3. CASE p \notin DOMAIN counts
        BY <4>1, <4>3 DEF CountOf
      <4> QED BY <4>1, <4>2, <4>3
    <3>2. ASSUME NEW i \in DOMAIN emitted'[p]
          PROVE  emitted'[p][i] = 0 \/ (i > 1 /\ emitted'[p][i] = emitted'[p][i - 1] + 1)
      <4>1. \A j \in DOMAIN e : e[j] = 0 \/ (j > 1 /\ e[j] = e[j - 1] + 1)
        BY DEF NoGapInIndices
      <4> HIDE DEF e, c
      <4>2. CASE i \in DOMAIN e
        BY <3>1, <4>1, <4>2
      <4>3. CASE i = Len(e) + 1
        BY <3>1, <4>3
      <4> QED BY <3>1, <3>2, <4>2, <4>3
    <3>3. \A q \in Parents \ {p} : emitted'[q] = emitted[q]
      BY <2>1, TakeOthers
    <3> QED BY <3>2, <3>3 DEF NoGapInIndices
  <2>2. CASE UNCHANGED <<counts, emitted, resets>>
    BY <2>2 DEF NoGapInIndices
  <2> QED BY <2>1, <2>2, OnlyReports
<1> QED BY <1>1, <1>2, StreamTypeCorrect, CountsFollowAlways, PTL DEF StreamSpec

-----------------------------------------------------------------------------
\* MemoryStaysBounded: the counter never remembers more than one parent over the
\* cap it checks.
THEOREM MemoryStaysBounded ==
  StreamSpec => [](IsFiniteSet(DOMAIN counts) /\ MemoryBounded)
<1> DEFINE Finite == IsFiniteSet(DOMAIN counts) /\ MemoryBounded
<1>1. StreamInit => Finite
  <2> SUFFICES ASSUME StreamInit PROVE Finite
    OBVIOUS
  <2>1. DOMAIN counts = {}
    BY DEF StreamInit
  <2> QED BY <2>1, FS_EmptySet, StreamingAssumption DEF MemoryBounded
<1>2. StreamTypeOK /\ Finite /\ [StreamNext]_streamVars => Finite'
  <2> SUFFICES ASSUME StreamTypeOK, Finite, [StreamNext]_streamVars PROVE Finite'
    OBVIOUS
  <2>1. ASSUME NEW p \in Parents, Take(p) PROVE Finite'
    <3>1. IsFiniteSet(Remembered) /\ Cardinality(Remembered) <= MaxTracked
      <4>1. CASE Forgets
        BY <4>1, FS_EmptySet, StreamingAssumption DEF Remembered
      <4>2. CASE ~ Forgets
        <5>1. Cardinality(DOMAIN counts) \in Nat
          BY FS_CardinalityType
        <5> QED BY <4>2, <5>1, StreamingAssumption DEF Remembered, Forgets
      <4> QED BY <4>1, <4>2
    <3>2. /\ IsFiniteSet(Remembered \cup {p})
          /\ \/ Cardinality(Remembered \cup {p}) = Cardinality(Remembered)
             \/ Cardinality(Remembered \cup {p}) = Cardinality(Remembered) + 1
      BY <3>1, FS_AddElement
    <3>3. Cardinality(Remembered) \in Nat
      BY <3>1, FS_CardinalityType
    <3>4. DOMAIN counts' = Remembered \cup {p}
      BY <2>1, TakeOthers
    <3> HIDE DEF Remembered
    <3> QED BY <3>1, <3>2, <3>3, <3>4, StreamingAssumption DEF MemoryBounded
  <2>2. CASE UNCHANGED <<counts, emitted, resets>>
    BY <2>2 DEF MemoryBounded
  <2> QED BY <2>1, <2>2, OnlyReports
<1> QED BY <1>1, <1>2, StreamTypeCorrect, PTL DEF StreamSpec

-----------------------------------------------------------------------------
\* Forgetting gives every parent a fresh budget, which covers what it had counted.
THEOREM WithinBudgetAlways == StreamSpec => []WithinBudget
<1>1. StreamInit => WithinBudget
  <2> SUFFICES ASSUME StreamInit, NEW p \in Parents
               PROVE  Len(emitted[p]) <= Budget(resets) + CountOf(p)
    BY DEF WithinBudget
  <2>1. Len(emitted[p]) = 0 /\ CountOf(p) = 0 /\ resets = 0
    BY DEF StreamInit, CountOf
  <2> QED BY <2>1, BudgetGrows
<1>2. StreamTypeOK /\ WithinBudget /\ [StreamNext]_streamVars => WithinBudget'
  <2> SUFFICES ASSUME StreamTypeOK, WithinBudget, [StreamNext]_streamVars PROVE WithinBudget'
    OBVIOUS
  <2>1. ASSUME NEW p \in Parents, Take(p) PROVE WithinBudget'
    <3>1. ASSUME NEW q \in Parents
          PROVE  Len(emitted'[q]) <= Budget(resets') + CountOf(q)'
      <4> DEFINE before == CountOf(q)
                 after  == CountOf(q)'
                 length == Len(emitted[q])
      <4>1. /\ before \in Nat /\ before <= MaxProgress + 1 /\ MaxProgress \in Nat
            /\ length \in Nat /\ resets \in Nat
            /\ length <= Budget(resets) + before
        BY CountOfType, StreamingAssumption DEF WithinBudget, StreamTypeOK
      <4>2. /\ Budget(resets) \in Nat
            /\ Budget(resets + 1) = Budget(resets) + (MaxProgress + 1)
        BY <4>1, BudgetGrows
      <4>3. \/ q = p /\ Len(emitted'[q]) = length + 1 /\ after = before + 1
            \/ q # p /\ Len(emitted'[q]) = length /\ (Forgets \/ after = before) /\ after \in Nat
        <5>1. CASE q = p
          <6>1. Len(emitted'[p]) = Len(emitted[p]) + 1
            BY <2>1, TakeEmits
          <6>2. after = before + 1
            BY <2>1, <5>1, TakeCounts, TakeOthers DEF CountOf
          <6> QED BY <5>1, <6>1, <6>2
        <5>2. CASE q # p
          <6>1. emitted'[q] = emitted[q]
            BY <2>1, <5>2, TakeOthers
          <6>2. CASE q \in Remembered
            BY <2>1, <4>1, <5>2, <6>1, <6>2, TakeOthers DEF CountOf
          <6>3. CASE q \notin Remembered
            <7>1. after = 0
              BY <2>1, <5>2, <6>3, TakeOthers DEF CountOf
            <7>2. Forgets \/ before = 0
              BY <6>3 DEF Remembered, CountOf
            <7> QED BY <5>2, <6>1, <7>1, <7>2
          <6> QED BY <6>2, <6>3
        <5> QED BY <5>1, <5>2
      <4>4. resets' = IF Forgets THEN resets + 1 ELSE resets
        BY <2>1 DEF Take
      <4> HIDE DEF before, after, length
      <4> QED BY <4>1, <4>2, <4>3, <4>4 DEF after
    <3> QED BY <3>1 DEF WithinBudget, Budget
  <2>2. CASE UNCHANGED <<counts, emitted, resets>>
    BY <2>2 DEF WithinBudget, CountOf, Budget
  <2> QED BY <2>1, <2>2, OnlyReports
<1> QED BY <1>1, <1>2, StreamTypeCorrect, PTL DEF StreamSpec

\* The first reset comes when more than MaxTracked parents have reported.
THEOREM ResetsNeedParentsAlways == StreamSpec => []ResetsNeedParents
<1>1. StreamInit => ResetsNeedParents
  BY DEF StreamInit, ResetsNeedParents
<1>2. /\ StreamTypeOK /\ CountsFollow /\ ResetsNeedParents /\ [StreamNext]_streamVars
      => ResetsNeedParents'
  <2> SUFFICES ASSUME StreamTypeOK, CountsFollow, ResetsNeedParents, [StreamNext]_streamVars
               PROVE  ResetsNeedParents'
    OBVIOUS
  <2>1. ASSUME NEW p \in Parents, Take(p) PROVE ResetsNeedParents'
    <3>1. Reporting \subseteq Reporting'
      <4>1. emitted'[p] # <<>>
        BY <2>1, TakeEmits
      <4>2. \A q \in Parents \ {p} : emitted'[q] = emitted[q]
        BY <2>1, TakeOthers
      <4> QED BY <4>1, <4>2 DEF Reporting
    <3>2. DOMAIN counts \subseteq Reporting
      BY DEF CountsFollow, StreamTypeOK, Reporting
    <3>3. IsFiniteSet(Reporting')
      <4>1. Reporting' \in SUBSET Parents
        BY DEF Reporting
      <4> QED BY <4>1, StreamingAssumption, FS_Subset
    <3>4. /\ IsFiniteSet(Reporting) /\ Cardinality(Reporting) <= Cardinality(Reporting')
          /\ Cardinality(DOMAIN counts) <= Cardinality(Reporting')
      <4>1. Reporting \in SUBSET Reporting' /\ DOMAIN counts \in SUBSET Reporting'
        BY <3>1, <3>2
      <4> QED BY <3>3, <4>1, FS_Subset
    <3>5. /\ Cardinality(Reporting) \in Nat /\ Cardinality(Reporting') \in Nat
          /\ Cardinality(DOMAIN counts) \in Nat
      <4>1. DOMAIN counts \in SUBSET Reporting'
        BY <3>1, <3>2
      <4>2. IsFiniteSet(DOMAIN counts)
        BY <3>3, <4>1, FS_Subset
      <4> QED BY <3>3, <3>4, <4>2, FS_CardinalityType
    <3>6. resets' = IF Forgets THEN resets + 1 ELSE resets
      BY <2>1 DEF Take
    <3> QED BY <3>4, <3>5, <3>6, StreamingAssumption DEF ResetsNeedParents, Forgets
  <2>2. CASE UNCHANGED <<counts, emitted, resets>>
    BY <2>2 DEF ResetsNeedParents, Reporting
  <2> QED BY <2>1, <2>2, OnlyReports
<1> QED BY <1>1, <1>2, StreamTypeCorrect, CountsFollowAlways, PTL DEF StreamSpec

\* FloodIsCapped: a parent emits one budget more than the counter forgot, and the
\* counter forgets nothing before more than MaxTracked parents have reported.
THEOREM FloodIsCapped == StreamSpec => []FloodCapped
<1>1. StreamTypeOK /\ WithinBudget /\ ResetsNeedParents => FloodCapped
  <2> SUFFICES ASSUME StreamTypeOK, WithinBudget, ResetsNeedParents, NEW p \in Parents
               PROVE  Len(emitted[p]) <= (resets + 1) * (MaxProgress + 1)
    BY DEF FloodCapped, ResetsNeedParents
  <2>1. /\ CountOf(p) \in Nat /\ CountOf(p) <= MaxProgress + 1 /\ MaxProgress \in Nat
        /\ Len(emitted[p]) \in Nat /\ Len(emitted[p]) <= Budget(resets) + CountOf(p)
        /\ resets \in Nat
    BY CountOfType, StreamingAssumption DEF WithinBudget, StreamTypeOK
  <2>2. Budget(resets) \in Nat /\ Budget(resets + 1) = Budget(resets) + (MaxProgress + 1)
    BY <2>1, BudgetGrows
  <2>3. Len(emitted[p]) <= Budget(resets + 1)
    BY <2>1, <2>2
  <2> QED BY <2>3 DEF Budget
<1> QED BY <1>1, StreamTypeCorrect, WithinBudgetAlways, ResetsNeedParentsAlways, PTL

-----------------------------------------------------------------------------
\* EventsAreNumbered: the index of an event's span is its place among the delivered
\* ones, however the publishers interleave.
THEOREM EventsAreNumbered == StreamSpec => []EventsNumbered
<1>1. StreamInit => EventsNumbered
  BY DEF StreamInit, EventsNumbered
<1>2. StreamTypeOK /\ EventsNumbered /\ [StreamNext]_streamVars => EventsNumbered'
  <2> SUFFICES ASSUME StreamTypeOK, EventsNumbered, [StreamNext]_streamVars PROVE EventsNumbered'
    OBVIOUS
  <2>1. ASSUME NEW e \in Events, PublishDelivers(e) PROVE EventsNumbered'
    <3> DEFINE span == [event |-> e, index |-> published + 1]
    <3>1. /\ eventSpans \in Seq([event : Events, index : Nat]) /\ published \in Nat
          /\ eventSpans' = Append(eventSpans, span) /\ published' = published + 1
          /\ published = Len(eventSpans)
          /\ \A i \in DOMAIN eventSpans : eventSpans[i].index = i
      BY <2>1 DEF PublishDelivers, StreamTypeOK, EventsNumbered
    <3>2. span.index = published + 1
      OBVIOUS
    <3> HIDE DEF span
    <3>3. /\ Len(eventSpans') = Len(eventSpans) + 1
          /\ DOMAIN eventSpans' = 1 .. Len(eventSpans) + 1
          /\ \A i \in DOMAIN eventSpans : eventSpans'[i] = eventSpans[i]
          /\ eventSpans'[Len(eventSpans) + 1] = span
          /\ DOMAIN eventSpans = 1 .. Len(eventSpans)
      BY <3>1
    <3>4. ASSUME NEW i \in DOMAIN eventSpans' PROVE eventSpans'[i].index = i
      <4>1. CASE i \in DOMAIN eventSpans
        BY <3>1, <3>3, <4>1
      <4>2. CASE i = Len(eventSpans) + 1
        BY <3>1, <3>2, <3>3, <4>2
      <4> QED BY <3>1, <3>3, <3>4, <4>1, <4>2
    <3> QED BY <3>1, <3>3, <3>4 DEF EventsNumbered
  <2>2. CASE UNCHANGED <<published, eventSpans>>
    BY <2>2 DEF EventsNumbered
  <2>3. (\A e \in Events : ~ PublishDelivers(e)) => UNCHANGED <<published, eventSpans>>
    BY DEF StreamNext, Report, PublishBegins, PublishFails, eventVars, streamVars
  <2> QED BY <2>1, <2>2, <2>3
<1> QED BY <1>1, <1>2, StreamTypeCorrect, PTL DEF StreamSpec

\* StreamsTold: what the spans of progress reports and events tell is true, however
\* the calls and publishers interleave.
THEOREM StreamsTold == StreamSpec => []StreamsAreTrue
BY CutMarked, NoGap, FloodIsCapped, MemoryStaysBounded, EventsAreNumbered, PTL DEF StreamsAreTrue
-----------------------------------------------------------------------------
(***************************************************************************)
(* The server.                                                             *)
(***************************************************************************)

\* CaptureStreams: whatever the calls and the startup do, the progress counter and
\* the subscription bus behave as Streaming says, in either SDK.
THEOREM CaptureStreams == CaptureSpec => StreamSpec
<1>1. CaptureInit => StreamInit
  BY DEF CaptureInit
<1>2. [CaptureNext]_<<captureVars, streamVars>> => [StreamNext]_streamVars
  <2> SUFFICES ASSUME [CaptureNext]_<<captureVars, streamVars>>
               PROVE  StreamNext \/ UNCHANGED streamVars
    OBVIOUS
  <2>1. ASSUME NEW value \in Transports \cup {""}, PyInstrument(value) \/ JsInstrument(value)
        PROVE  UNCHANGED streamVars
    BY <2>1 DEF PyInstrument, JsInstrument
  <2>2. /\ InstrumentAsgi => UNCHANGED streamVars
        /\ \A value \in Known : PyRun(value) \/ ServeApp(value) \/ JsRun(value) => UNCHANGED streamVars
    BY DEF InstrumentAsgi, PyRun, ServeApp, JsRun
  <2>3. ASSUME NEW c \in Parents, NEW ctx \in Contexts, Begin(c, ctx)
        PROVE  UNCHANGED streamVars
    BY <2>3 DEF Begin
  <2>4. ASSUME NEW c \in Parents, NEW key \in CustomKeys, SetCustom(c, key)
        PROVE  UNCHANGED streamVars
    BY <2>4 DEF SetCustom
  <2>5. ASSUME NEW c \in Parents, NEW outcome \in Outcomes[sdk],
               PyEnds(c, outcome) \/ JsEnds(c, outcome)
        PROVE  UNCHANGED streamVars
    BY <2>5 DEF PyEnds, JsEnds, Ends
  <2>6. ASSUME NEW c \in Parents, Progress(c) PROVE StreamNext
    BY <2>6 DEF Progress, StreamNext
  <2>7. ASSUME NEW e \in Events, Publish(e) PROVE StreamNext
    BY <2>7 DEF Publish, StreamNext
  <2> QED BY <2>1, <2>2, <2>3, <2>4, <2>5, <2>6, <2>7 DEF CaptureNext
<1> QED BY <1>1, <1>2, PTL DEF CaptureSpec, StreamSpec

\* CaptureStreamsSafe: so in a server with concurrent calls, a stream that was cut
\* says so, none has a gap before the cap, a flood is capped, the counter's memory
\* is bounded and the events are numbered.
THEOREM CaptureStreamsSafe == CaptureSpec => []StreamsAreTrue
BY CaptureStreams, StreamsTold, PTL

-----------------------------------------------------------------------------
(***************************************************************************)
(* What startup leaves for the calls: the inductive invariant.             *)
(***************************************************************************)

\* A transport somebody named is the one in use, and otherwise the one run() was
\* called with; a guess is in use only when there is neither.
NamedOrGuessed ==
  /\ transport.explicit <=> told # ""
  /\ told # "" => transport.value = told
  /\ told = "" /\ sdk = "python" /\ ~ byRun => transport.value \in {"", "streamable-http"}
  /\ told = "" /\ sdk = "python" /\ byRun /\ attached = "calls" => transport.value = served
  /\ told = "" /\ sdk = "javascript" => transport.value \in {"", "stdio"}

\* The JavaScript SDK is told anything only when it attaches.
JsStarts == sdk = "javascript" /\ attached = "nothing" => transport.value = ""

SetupInv ==
  /\ sdk \in {"python", "javascript"}
  /\ attached \in {"nothing", "calls", "too late"}
  /\ transport \in [value : Known \cup {""}, explicit : BOOLEAN]
  /\ told \in Known \cup {""}
  /\ served \in Known \cup {""}
  /\ byRun => served # ""
  /\ NamedOrGuessed
  /\ JsStarts

CustomNames == {CustomKey(key) : key \in CustomKeys}

\* What a span may carry before the call ends.
OpenKeys ==
  {"mcp.method.name", "gen_ai.tool.name", "gen_ai.prompt.name", "mcp.resource.uri",
   "network.transport", "gen_ai.tool.call.arguments", "mcpobs.request.size"}

\* The attributes of a span that is open: no verdict yet, and the transport the SDK
\* holds, if any.
Open(attributes) ==
  /\ "mcp.method.name" \in DOMAIN attributes
  /\ DOMAIN attributes \subseteq OpenKeys \cup CustomNames
  /\ "network.transport" \in DOMAIN attributes =>
       /\ sdk = "javascript"
       /\ attached = "calls" => attributes["network.transport"] = transport.value

Closed(attributes, ctx, outcome) ==
  IF sdk = "python" THEN PySpan(attributes, ctx, outcome) ELSE JsSpan(attributes, outcome)

\* A call's span is what its SDK makes of the attributes it was opened with.
SpanIsClosed(call) ==
  /\ call.outcome \in Outcomes[sdk]
  /\ \E attributes : Open(attributes) /\ call.span = Closed(attributes, call.ctx, call.outcome)

CallInv(call) ==
  /\ call.phase \in {"idle", "running", "done"}
  /\ call.phase # "idle" => served # "" /\ call.ctx \in Contexts
  /\ call.phase = "running" =>
       DOMAIN call = {"phase", "ctx", "attributes"} /\ Open(call.attributes)
  /\ call.phase = "done" => SpanIsClosed(call)

CallsInv == DOMAIN calls = Parents /\ \A c \in Parents : CallInv(calls[c])

LEMMA SetTransportSets ==
  ASSUME transport \in [value : Known \cup {""}, explicit : BOOLEAN],
         NEW value, NEW explicit \in BOOLEAN, SetTransport(value, explicit)
  PROVE  /\ transport' \in [value : Known \cup {""}, explicit : BOOLEAN]
         /\ value \notin Known => transport' = transport
         /\ value \in Known /\ explicit => transport'.value = value /\ transport'.explicit
         /\ value \in Known /\ ~ explicit /\ ~ transport.explicit
              => transport'.value = value /\ ~ transport'.explicit
         /\ ~ explicit /\ transport.explicit => transport' = transport
<1> DEFINE both == transport.explicit \/ explicit
<1>1. both \in BOOLEAN /\ (both <=> transport.explicit \/ explicit)
  OBVIOUS
<1>2. transport' = IF value \in Known /\ (explicit \/ ~ transport.explicit)
                   THEN [value |-> value, explicit |-> both] ELSE transport
  BY DEF SetTransport
<1> HIDE DEF both
<1> QED BY <1>1, <1>2

LEMMA SetupInit == CaptureInit => SetupInv
<1> SUFFICES ASSUME CaptureInit PROVE SetupInv
  OBVIOUS
<1>1. /\ transport \in [value : Known \cup {""}, explicit : BOOLEAN]
      /\ transport.value = "" /\ transport.explicit = FALSE
  BY DEF CaptureInit
<1>2. told = "" /\ served = "" /\ byRun = FALSE /\ sdk \in {"python", "javascript"} /\ attached = "nothing"
  BY DEF CaptureInit
<1> QED BY <1>1, <1>2 DEF SetupInv, NamedOrGuessed, JsStarts

LEMMA SetupNext ==
  ASSUME SetupInv, [CaptureNext]_<<captureVars, streamVars>>
  PROVE  SetupInv'
<1> USE DEF SetupInv
<1>1. ASSUME NEW value \in Transports \cup {""}, PyInstrument(value) PROVE SetupInv'
  <2> DEFINE named == value # ""
  <2>1. named \in BOOLEAN /\ (named <=> value # "") /\ SetTransport(value, named)
    BY <1>1 DEF PyInstrument
  <2> HIDE DEF named
  <2>2. told' = (IF value \in Known THEN value ELSE told)
        /\ UNCHANGED <<sdk, served, byRun>> /\ attached' = "calls" /\ sdk = "python" /\ served = ""
    BY <1>1 DEF PyInstrument
  <2>3. "" \notin Known
    BY DEF Known
  <2> QED BY <2>1, <2>2, <2>3, SetTransportSets DEF NamedOrGuessed, JsStarts
<1>2. ASSUME NEW value \in Transports \cup {""}, JsInstrument(value) PROVE SetupInv'
  <2> DEFINE named == value # ""
             given == IF value = "" THEN "stdio" ELSE value
  <2>1. named \in BOOLEAN /\ (named <=> value # "") /\ SetTransport(given, named)
    BY <1>2 DEF JsInstrument
  <2>2. given = IF value = "" THEN "stdio" ELSE value
    OBVIOUS
  <2> HIDE DEF named, given
  <2>3. /\ told' = (IF value \in Known THEN value ELSE told)
        /\ UNCHANGED <<sdk, served, byRun>> /\ sdk = "javascript" /\ attached = "nothing"
        /\ attached' \in {"calls", "too late"}
    BY <1>2 DEF JsInstrument
  <2>4. "" \notin Known /\ "stdio" \in Known
    BY DEF Known
  <2> QED BY <2>1, <2>2, <2>3, <2>4, SetTransportSets DEF NamedOrGuessed, JsStarts
<1>3. CASE InstrumentAsgi
  <2>1. SetTransport("streamable-http", FALSE) /\ "streamable-http" \in Known
    BY <1>3 DEF InstrumentAsgi, Known
  <2>2. /\ UNCHANGED <<sdk, attached, told, served, byRun>>
        /\ sdk = "python" /\ served = ""
    BY <1>3 DEF InstrumentAsgi
  <2> QED BY <2>1, <2>2, SetTransportSets DEF NamedOrGuessed, JsStarts
<1>4. ASSUME NEW value \in Known, PyRun(value) PROVE SetupInv'
  <2>1. /\ attached = "calls" => SetTransport(value, FALSE)
        /\ attached # "calls" => UNCHANGED transport
        /\ UNCHANGED <<sdk, attached, told>>
        /\ sdk = "python" /\ served' = value /\ served = "" /\ byRun' = TRUE
    BY <1>4 DEF PyRun
  <2>2. value # ""
    BY DEF Known
  <2>3. CASE attached = "calls"
    BY <2>1, <2>2, <2>3, SetTransportSets DEF NamedOrGuessed, JsStarts
  <2>4. CASE attached # "calls"
    BY <2>1, <2>2, <2>4 DEF NamedOrGuessed, JsStarts
  <2> QED BY <2>3, <2>4
<1>5. ASSUME NEW value \in Known, ServeApp(value) \/ JsRun(value) PROVE SetupInv'
  <2>1. UNCHANGED <<sdk, attached, transport, told, byRun>> /\ served' = value /\ served = ""
    BY <1>5 DEF ServeApp, JsRun
  <2> QED BY <2>1 DEF NamedOrGuessed, JsStarts
<1>6. CASE UNCHANGED setupVars
  BY <1>6 DEF setupVars, NamedOrGuessed, JsStarts
<1>7. \/ \E value \in Transports \cup {""} : PyInstrument(value) \/ JsInstrument(value)
      \/ \E value \in Known : PyRun(value) \/ ServeApp(value) \/ JsRun(value)
      \/ InstrumentAsgi \/ UNCHANGED setupVars
  BY DEF CaptureNext, Begin, SetCustom, PyEnds, JsEnds, Ends, Progress, Publish, captureVars
<1> QED BY <1>1, <1>2, <1>3, <1>4, <1>5, <1>6, <1>7

\* Once the server runs, nothing the spans are made of changes; a JavaScript server
\* that is instrumented now has been instrumented too late.
LEMMA SetupFrozen ==
  ASSUME SetupInv, [CaptureNext]_<<captureVars, streamVars>>, served # ""
  PROVE  /\ UNCHANGED <<sdk, options, served>>
         /\ \/ UNCHANGED <<attached, transport, told>>
            \/ sdk = "javascript" /\ attached = "nothing" /\ attached' = "too late"
BY DEF CaptureNext, PyInstrument, JsInstrument, InstrumentAsgi, PyRun, ServeApp, JsRun, Begin,
       SetCustom, PyEnds, JsEnds, Ends, Progress, Publish, captureVars, setupVars

-----------------------------------------------------------------------------
(***************************************************************************)
(* What Stamped leaves on a span, key by key.                              *)
(***************************************************************************)

Val(attributes, key) == IF key \in DOMAIN attributes THEN attributes[key] ELSE ""

\* The keys a set of stamps sets.
KeysOf(pairs) == {pair[1] : pair \in {given \in pairs : given[2] # ""}}

\* One stamp, and no other for its key.
Gives(pairs, key, value) ==
  <<key, value>> \in pairs /\ \A pair \in pairs : pair[1] = key => pair[2] = value

LEMMA StampedDomain ==
  \A attributes, pairs : DOMAIN Stamped(attributes, pairs)
                           \subseteq DOMAIN attributes \cup KeysOf(pairs)
BY DEF Stamped, KeysOf

LEMMA StampedGrows ==
  \A attributes, pairs : DOMAIN attributes \subseteq DOMAIN Stamped(attributes, pairs)
BY DEF Stamped

LEMMA StampedKeeps ==
  \A attributes, pairs, key :
    key \notin KeysOf(pairs) =>
      /\ key \in DOMAIN Stamped(attributes, pairs) <=> key \in DOMAIN attributes
      /\ Val(Stamped(attributes, pairs), key) = Val(attributes, key)
BY DEF Stamped, KeysOf, Val

LEMMA StampedSets ==
  \A attributes, pairs, key, value :
    Gives(pairs, key, value) /\ value # "" => Val(Stamped(attributes, pairs), key) = value
<1> TAKE attributes, pairs, key, value
<1> HAVE Gives(pairs, key, value) /\ value # ""
<1> DEFINE given == {pair \in pairs : pair[2] # ""}
           keys  == {pair[1] : pair \in given}
           all   == [k \in DOMAIN attributes \cup keys |->
                       IF k \in keys THEN (CHOOSE pair \in given : pair[1] = k)[2]
                                     ELSE attributes[k]]
<1>1. Stamped(attributes, pairs) = all
  BY DEF Stamped
<1>2. <<key, value>> \in given /\ <<key, value>>[1] = key
  BY DEF Gives
<1>3. key \in keys
  BY <1>2
<1>4. (CHOOSE pair \in given : pair[1] = key)[2] = value
  BY <1>2 DEF Gives
<1> QED BY <1>1, <1>3, <1>4 DEF Val

LEMMA StampedSkips ==
  \A attributes, pairs, key :
    Gives(pairs, key, "") => Val(Stamped(attributes, pairs), key) = Val(attributes, key)
<1> TAKE attributes, pairs, key
<1> HAVE Gives(pairs, key, "")
<1>1. key \notin KeysOf(pairs)
  BY DEF Gives, KeysOf
<1> QED BY <1>1, StampedKeeps

-----------------------------------------------------------------------------
(***************************************************************************)
(* A chain of early returns, unrolled: here of five and nine.      *)
(***************************************************************************)

LEMMA FirstRuleAt ==
  \A rules, n : DOMAIN rules = 1 .. n /\ n \in Nat =>
    \A i \in 1 .. n : rules[i][1] /\ (\A j \in 1 .. i - 1 : ~ rules[j][1])
                        => FirstRule(rules) = rules[i][2]
<1> SUFFICES ASSUME NEW rules, NEW n \in Nat, DOMAIN rules = 1 .. n, NEW i \in 1 .. n,
                    rules[i][1], \A j \in 1 .. i - 1 : ~ rules[j][1]
             PROVE  FirstRule(rules) = rules[i][2]
  OBVIOUS
<1> DEFINE Holds(k) == rules[k][1] /\ \A j \in 1 .. k - 1 : ~ rules[j][1]
           at == CHOOSE k \in DOMAIN rules : Holds(k)
<1>1. at \in 1 .. n /\ Holds(at)
  BY DEF Holds
<1>2. ~ (at < i) /\ ~ (i < at)
  BY <1>1
<1>3. at = i
  BY <1>1, <1>2
<1> QED BY <1>3 DEF FirstRule

LEMMA FiveRules ==
  \A rules : DOMAIN rules = 1 .. 5 =>
    /\ rules[1][1] => FirstRule(rules) = rules[1][2]
    /\ ~ rules[1][1] /\ rules[2][1] => FirstRule(rules) = rules[2][2]
    /\ ~ rules[1][1] /\ ~ rules[2][1] /\ rules[3][1] => FirstRule(rules) = rules[3][2]
    /\ ~ rules[1][1] /\ ~ rules[2][1] /\ ~ rules[3][1] /\ rules[4][1]
         => FirstRule(rules) = rules[4][2]
    /\ ~ rules[1][1] /\ ~ rules[2][1] /\ ~ rules[3][1] /\ ~ rules[4][1] /\ rules[5][1]
         => FirstRule(rules) = rules[5][2]
<1> TAKE rules
<1> HAVE DOMAIN rules = 1 .. 5
<1>1. 5 \in Nat
  OBVIOUS
<1>2. \A i \in 1 .. 5 : rules[i][1] /\ (\A j \in 1 .. i - 1 : ~ rules[j][1])
                          => FirstRule(rules) = rules[i][2]
  BY <1>1, FirstRuleAt, Zenon
<1> QED BY <1>2

LEMMA NineRules ==
  \A rules : DOMAIN rules = 1 .. 9 =>
    /\ rules[1][1] => FirstRule(rules) = rules[1][2]
    /\ ~ rules[1][1] /\ rules[2][1] => FirstRule(rules) = rules[2][2]
    /\ ~ rules[1][1] /\ ~ rules[2][1] /\ rules[3][1] => FirstRule(rules) = rules[3][2]
    /\ ~ rules[1][1] /\ ~ rules[2][1] /\ ~ rules[3][1] /\ rules[4][1]
         => FirstRule(rules) = rules[4][2]
    /\ ~ rules[1][1] /\ ~ rules[2][1] /\ ~ rules[3][1] /\ ~ rules[4][1] /\ rules[5][1]
         => FirstRule(rules) = rules[5][2]
    /\ ~ rules[1][1] /\ ~ rules[2][1] /\ ~ rules[3][1] /\ ~ rules[4][1]
         /\ ~ rules[5][1] /\ rules[6][1]
         => FirstRule(rules) = rules[6][2]
    /\ ~ rules[1][1] /\ ~ rules[2][1] /\ ~ rules[3][1] /\ ~ rules[4][1]
         /\ ~ rules[5][1] /\ ~ rules[6][1] /\ rules[7][1]
         => FirstRule(rules) = rules[7][2]
    /\ ~ rules[1][1] /\ ~ rules[2][1] /\ ~ rules[3][1] /\ ~ rules[4][1]
         /\ ~ rules[5][1] /\ ~ rules[6][1] /\ ~ rules[7][1] /\ rules[8][1]
         => FirstRule(rules) = rules[8][2]
    /\ ~ rules[1][1] /\ ~ rules[2][1] /\ ~ rules[3][1] /\ ~ rules[4][1]
         /\ ~ rules[5][1] /\ ~ rules[6][1] /\ ~ rules[7][1] /\ ~ rules[8][1] /\ rules[9][1]
         => FirstRule(rules) = rules[9][2]
<1> TAKE rules
<1> HAVE DOMAIN rules = 1 .. 9
<1>1. 9 \in Nat
  OBVIOUS
<1>2. \A i \in 1 .. 9 : rules[i][1] /\ (\A j \in 1 .. i - 1 : ~ rules[j][1])
                          => FirstRule(rules) = rules[i][2]
  BY <1>1, FirstRuleAt, Zenon
<1> QED BY <1>2

LEMMA KindOfCases ==
  \A text :
    KindOf(text) = IF text.says = <<>> THEN "unclassified"
                   ELSE IF StartsWith(text, "Unknown tool:") THEN "unknown_tool"
                   ELSE IF ~ StartsWith(text, "Error executing tool ") THEN "tool_error"
                   ELSE IF Says(text, "1 validation error for ") THEN "invalid_arguments"
                   ELSE "server_exception"
<1> TAKE text
<1> DEFINE failing == StartsWith(text, "Error executing tool ")
           rules == <<
             <<text.says = <<>>, "unclassified">>,
             <<StartsWith(text, "Unknown tool:"), "unknown_tool">>,
             <<failing /\ Says(text, "1 validation error for "), "invalid_arguments">>,
             <<failing, "server_exception">>,
             <<TRUE, "tool_error">> >>
<1>1. KindOf(text) = FirstRule(rules)
  BY DEF KindOf
<1>2. DOMAIN rules = 1 .. 5
  OBVIOUS
<1>3. /\ rules[1][1] <=> text.says = <<>>
      /\ rules[2][1] <=> StartsWith(text, "Unknown tool:")
      /\ rules[3][1] <=> failing /\ Says(text, "1 validation error for ")
      /\ rules[4][1] <=> failing
      /\ rules[5][1]
  OBVIOUS
<1>4. /\ rules[1][2] = "unclassified" /\ rules[2][2] = "unknown_tool"
      /\ rules[3][2] = "invalid_arguments" /\ rules[4][2] = "server_exception"
      /\ rules[5][2] = "tool_error"
  OBVIOUS
<1> HIDE DEF rules
<1>5. /\ rules[1][1] => FirstRule(rules) = rules[1][2]
      /\ ~ rules[1][1] /\ rules[2][1] => FirstRule(rules) = rules[2][2]
      /\ ~ rules[1][1] /\ ~ rules[2][1] /\ rules[3][1] => FirstRule(rules) = rules[3][2]
      /\ ~ rules[1][1] /\ ~ rules[2][1] /\ ~ rules[3][1] /\ rules[4][1]
           => FirstRule(rules) = rules[4][2]
      /\ ~ rules[1][1] /\ ~ rules[2][1] /\ ~ rules[3][1] /\ ~ rules[4][1] /\ rules[5][1]
           => FirstRule(rules) = rules[5][2]
  BY <1>2, FiveRules, Zenon
<1> QED BY <1>1, <1>3, <1>4, <1>5

LEMMA JsClassifyCases ==
  \A text, isError :
    LET kind == JsClassify(text, isError).kind
    IN  kind = IF ~ isError THEN "ok"
               ELSE IF text.says = <<>> THEN "unclassified"
               ELSE IF Says(text, "Tool x not found") \/ Says(text, "Tool x disabled")
               THEN "unknown_tool"
               ELSE IF Says(text, "Input validation error: Invalid arguments for tool")
               THEN "invalid_arguments"
               ELSE "tool_error"
<1> TAKE text, isError
<1> DEFINE unknown == Says(text, "Tool x not found") \/ Says(text, "Tool x disabled")
           invalid == Says(text, "Input validation error: Invalid arguments for tool")
           rules   == <<
             <<~ isError, [kind |-> "ok", source |-> "clean"]>>,
             <<text.says = <<>>, [kind |-> "unclassified", source |-> "unclassified"]>>,
             <<unknown, [kind |-> "unknown_tool", source |-> "sdk-dispatch"]>>,
             <<invalid, [kind |-> "invalid_arguments", source |-> "sdk-dispatch"]>>,
             <<TRUE, [kind |-> "tool_error", source |-> "is-error-flag"]>> >>
<1>1. JsClassify(text, isError) = FirstRule(rules)
  BY DEF JsClassify
<1>2. DOMAIN rules = 1 .. 5
  OBVIOUS
<1>3. /\ rules[1][1] <=> ~ isError
      /\ rules[2][1] <=> text.says = <<>>
      /\ rules[3][1] <=> unknown
      /\ rules[4][1] <=> invalid
      /\ rules[5][1]
  OBVIOUS
<1>4. /\ rules[1][2].kind = "ok" /\ rules[2][2].kind = "unclassified"
      /\ rules[3][2].kind = "unknown_tool" /\ rules[4][2].kind = "invalid_arguments"
      /\ rules[5][2].kind = "tool_error"
  OBVIOUS
<1> HIDE DEF rules
<1>5. /\ rules[1][1] => FirstRule(rules) = rules[1][2]
      /\ ~ rules[1][1] /\ rules[2][1] => FirstRule(rules) = rules[2][2]
      /\ ~ rules[1][1] /\ ~ rules[2][1] /\ rules[3][1] => FirstRule(rules) = rules[3][2]
      /\ ~ rules[1][1] /\ ~ rules[2][1] /\ ~ rules[3][1] /\ rules[4][1]
           => FirstRule(rules) = rules[4][2]
      /\ ~ rules[1][1] /\ ~ rules[2][1] /\ ~ rules[3][1] /\ ~ rules[4][1] /\ rules[5][1]
           => FirstRule(rules) = rules[5][2]
  BY <1>2, FiveRules, Zenon
<1> QED BY <1>1, <1>3, <1>4, <1>5

LEMMA FirstOfTwo ==
  \A s, keys :
    DOMAIN keys = 1 .. 2 =>
      FirstAttr(s, keys) = IF Attr(s, keys[1]) # "" THEN Attr(s, keys[1]) ELSE Attr(s, keys[2])
<1> TAKE s, keys
<1> HAVE DOMAIN keys = 1 .. 2
<1> DEFINE present == {i \in DOMAIN keys : Attr(s, keys[i]) # ""}
<1>1. present \subseteq 1 .. 2
  OBVIOUS
<1>2. /\ 1 \in present <=> Attr(s, keys[1]) # ""
      /\ 2 \in present <=> Attr(s, keys[2]) # ""
  <2>1. 1 \in DOMAIN keys /\ 2 \in DOMAIN keys
    OBVIOUS
  <2> QED BY <2>1, Zenon
<1> DEFINE least == CHOOSE i \in present : \A j \in present : i <= j
<1>3. FirstAttr(s, keys) = IF present = {} THEN "" ELSE Attr(s, keys[least])
  BY DEF FirstAttr
<1> HIDE DEF present
<1>4. CASE 1 \in present
  <2>1. \A j \in present : 1 <= j
    BY <1>1
  <2>2. least \in present /\ \A j \in present : least <= j
    BY <1>4, <2>1
  <2> HIDE DEF least
  <2>3. least = 1
    BY <1>1, <1>4, <2>2
  <2>4. Attr(s, keys[1]) # ""
    BY <1>2, <1>4, Zenon
  <2>5. FirstAttr(s, keys) = Attr(s, keys[1])
    BY <1>3, <1>4, <2>3
  <2> QED BY <2>4, <2>5
<1>5. CASE 1 \notin present /\ 2 \in present
  <2>1. \A j \in present : 2 <= j
    BY <1>1, <1>5
  <2>2. least \in present
    BY <1>5, <2>1
  <2> HIDE DEF least
  <2>3. least = 2
    BY <1>1, <1>5, <2>2
  <2>4. ~ (Attr(s, keys[1]) # "")
    BY <1>2, <1>5, Zenon
  <2>5. FirstAttr(s, keys) = Attr(s, keys[2])
    BY <1>3, <1>5, <2>3
  <2> QED BY <2>4, <2>5
<1>6. CASE 1 \notin present /\ 2 \notin present
  <2>1. present = {}
    BY <1>1, <1>6
  <2>2. ~ (Attr(s, keys[1]) # "") /\ ~ (Attr(s, keys[2]) # "")
    BY <1>2, <1>6, Zenon
  <2>3. FirstAttr(s, keys) = ""
    BY <1>3, <2>1
  <2> QED BY <2>2, <2>3
<1> QED BY <1>4, <1>5, <1>6

LEMMA ResultTypeCases ==
  \A s : ResultType(s) = IF Attr(s, "mcp.result.type") # "" THEN Attr(s, "mcp.result.type")
                         ELSE Attr(s, "mcpobs.result.type")
<1> TAKE s
<1> DEFINE keys == <<"mcp.result.type", "mcpobs.result.type">>
<1>1. DOMAIN keys = 1 .. 2 /\ keys[1] = "mcp.result.type" /\ keys[2] = "mcpobs.result.type"
  OBVIOUS
<1>2. ResultType(s) = FirstAttr(s, keys)
  BY DEF ResultType
<1> HIDE DEF keys
<1> QED BY <1>1, <1>2, FirstOfTwo

\* The taxonomy of the spans an MCP server leaves.
LEMMA ClassifyCases ==
  \A s :
    IsMcp(s) =>
      Classify(s) =
        IF ResultType(s) = "input_required" THEN "pending_input"
        ELSE IF Attr(s, "mcpobs.cancelled") # "" THEN "cancelled"
        ELSE IF Attr(s, "mcpobs.failure.kind") # "" THEN Attr(s, "mcpobs.failure.kind")
        ELSE IF Attr(s, "error.type") = "" /\ s.status # "ERROR" THEN "ok"
        ELSE IF Attr(s, "error.type") = "tool_error" THEN "tool_error"
        ELSE IF Attr(s, "error.type") \in NumericCodes
                  \/ Attr(s, "rpc.response.status_code") \in NumericCodes THEN "protocol_error"
        ELSE IF Attr(s, "error.type") # "" \/ s.exception THEN "server_exception"
        ELSE "unclassified"
<1> TAKE s
<1> HAVE IsMcp(s)
<1> DEFINE type    == Attr(s, "error.type")
           helper  == Attr(s, "mcpobs.failure.kind")
           numeric == type \in NumericCodes \/ Attr(s, "rpc.response.status_code") \in NumericCodes
           rules   == <<
             <<~ IsMcp(s), TransportAuth(s)>>,
             <<ResultType(s) = "input_required", "pending_input">>,
             <<Attr(s, "mcpobs.cancelled") # "", "cancelled">>,
             <<helper # "", helper>>,
             <<type = "" /\ ~ (s.status = "ERROR"), "ok">>,
             <<type = "tool_error", "tool_error">>,
             <<numeric, "protocol_error">>,
             <<type # "" \/ s.exception, "server_exception">>,
             <<TRUE, "unclassified">> >>
<1>1. Classify(s) = FirstRule(rules)
  BY DEF Classify
<1>2. DOMAIN rules = 1 .. 9
  OBVIOUS
<1>3. /\ rules[1][1] <=> ~ IsMcp(s)
      /\ rules[2][1] <=> ResultType(s) = "input_required"
      /\ rules[3][1] <=> Attr(s, "mcpobs.cancelled") # ""
      /\ rules[4][1] <=> helper # ""
      /\ rules[5][1] <=> type = "" /\ ~ (s.status = "ERROR")
      /\ rules[6][1] <=> type = "tool_error"
      /\ rules[7][1] <=> numeric
      /\ rules[8][1] <=> type # "" \/ s.exception
      /\ rules[9][1]
  OBVIOUS
<1>4. /\ rules[2][2] = "pending_input" /\ rules[3][2] = "cancelled" /\ rules[4][2] = helper
      /\ rules[5][2] = "ok" /\ rules[6][2] = "tool_error" /\ rules[7][2] = "protocol_error"
      /\ rules[8][2] = "server_exception" /\ rules[9][2] = "unclassified"
  OBVIOUS
<1> HIDE DEF rules
<1>5. /\ ~ rules[1][1] /\ rules[2][1] => FirstRule(rules) = rules[2][2]
      /\ ~ rules[1][1] /\ ~ rules[2][1] /\ rules[3][1] => FirstRule(rules) = rules[3][2]
      /\ ~ rules[1][1] /\ ~ rules[2][1] /\ ~ rules[3][1] /\ rules[4][1]
           => FirstRule(rules) = rules[4][2]
      /\ ~ rules[1][1] /\ ~ rules[2][1] /\ ~ rules[3][1] /\ ~ rules[4][1] /\ rules[5][1]
           => FirstRule(rules) = rules[5][2]
      /\ ~ rules[1][1] /\ ~ rules[2][1] /\ ~ rules[3][1] /\ ~ rules[4][1]
           /\ ~ rules[5][1] /\ rules[6][1]
           => FirstRule(rules) = rules[6][2]
      /\ ~ rules[1][1] /\ ~ rules[2][1] /\ ~ rules[3][1] /\ ~ rules[4][1]
           /\ ~ rules[5][1] /\ ~ rules[6][1] /\ rules[7][1]
           => FirstRule(rules) = rules[7][2]
      /\ ~ rules[1][1] /\ ~ rules[2][1] /\ ~ rules[3][1] /\ ~ rules[4][1]
           /\ ~ rules[5][1] /\ ~ rules[6][1] /\ ~ rules[7][1] /\ rules[8][1]
           => FirstRule(rules) = rules[8][2]
      /\ ~ rules[1][1] /\ ~ rules[2][1] /\ ~ rules[3][1] /\ ~ rules[4][1]
           /\ ~ rules[5][1] /\ ~ rules[6][1] /\ ~ rules[7][1] /\ ~ rules[8][1] /\ rules[9][1]
           => FirstRule(rules) = rules[9][2]
  BY <1>2, NineRules, Zenon
<1>6. ~ rules[1][1]
  BY <1>3
<1>7. CASE rules[2][1] \/ rules[3][1] \/ rules[4][1] \/ rules[5][1]
  <2>1. FirstRule(rules) = IF rules[2][1] THEN rules[2][2] ELSE IF rules[3][1] THEN rules[3][2]
                           ELSE IF rules[4][1] THEN rules[4][2] ELSE rules[5][2]
    BY <1>5, <1>6, <1>7
  <2> QED BY <1>1, <1>3, <1>4, <1>7, <2>1
<1>8. CASE ~ (rules[2][1] \/ rules[3][1] \/ rules[4][1] \/ rules[5][1])
  <2>1. FirstRule(rules) = IF rules[6][1] THEN rules[6][2] ELSE IF rules[7][1] THEN rules[7][2]
                           ELSE IF rules[8][1] THEN rules[8][2] ELSE rules[9][2]
    BY <1>3, <1>5, <1>6, <1>8
  <2> QED BY <1>1, <1>3, <1>4, <1>8, <2>1
<1> QED BY <1>7, <1>8

-----------------------------------------------------------------------------
\* A customer's key is none the verdict on a call is read from.
LEMMA CustomIsApart ==
  ASSUME NEW key \in CustomNames
  PROVE  key \notin SdkKeys \cup HelperKeys \cup
                      {"mcp.result.type", "rpc.response.status_code"}
BY RequestsAssumption DEF CustomNames

LEMMA PyOpens ==
  ASSUME sdk = "python", NEW ctx \in Contexts
  PROVE  Open(SdkOpened(ctx))
<1> DEFINE named == IF ctx.method = "prompts/get" THEN "gen_ai.prompt.name"
                                                   ELSE "gen_ai.tool.name"
           pairs == {<<"mcp.method.name", ctx.method>>, <<named, ctx.name>>}
           opened == SdkOpened(ctx)
<1>1. opened = Stamped(<<>>, pairs)
  BY DEF SdkOpened
<1>2. KeysOf(pairs) \subseteq {"mcp.method.name", "gen_ai.prompt.name", "gen_ai.tool.name"}
  <2>1. \A pair \in pairs :
          pair[1] \in {"mcp.method.name", "gen_ai.prompt.name", "gen_ai.tool.name"}
    OBVIOUS
  <2> HIDE DEF pairs
  <2> QED BY <2>1 DEF KeysOf
<1>3. ctx.method # ""
  BY RequestsAssumption
<1>4. Gives(pairs, "mcp.method.name", ctx.method)
  BY DEF Gives
<1> HIDE DEF pairs, opened
<1>5. Val(opened, "mcp.method.name") = ctx.method
  <2>1. Val(Stamped(<<>>, pairs), "mcp.method.name") = ctx.method
    BY <1>3, <1>4, StampedSets, Zenon
  <2> QED BY <1>1, <2>1
<1>6. DOMAIN opened \subseteq {"mcp.method.name", "gen_ai.prompt.name", "gen_ai.tool.name"}
  <2>1. DOMAIN opened \subseteq DOMAIN <<>> \cup KeysOf(pairs)
    BY <1>1, StampedDomain
  <2>2. DOMAIN <<>> = {}
    OBVIOUS
  <2> QED BY <1>2, <2>1, <2>2
<1>7. "mcp.method.name" \in DOMAIN opened
  BY <1>3, <1>5 DEF Val
<1>8. Open(opened)
  BY <1>6, <1>7 DEF Open, OpenKeys
<1> QED BY <1>8 DEF opened

LEMMA JsOpens ==
  ASSUME sdk = "javascript", NEW ctx \in Contexts
  PROVE  Open(JsOpened(options, transport.value, ctx))
<1> DEFINE previews == If(options.payloads,
                          JsPreviewStamps("gen_ai.tool.call.arguments", "mcpobs.request.size",
                                          ctx.payload))
           named    == NamedArg(ctx)
           pairs    == {<<"mcp.method.name", ctx.method>>, named,
                        <<"network.transport", transport.value>>} \cup previews
           opened   == JsOpened(options, transport.value, ctx)
<1>1. opened = Stamped(<<>>, pairs)
  BY DEF JsOpened
<1>2. \/ named[1] \in {"gen_ai.tool.name", "gen_ai.prompt.name", "mcp.resource.uri"}
      \/ named[1] = "" /\ named[2] = ""
  BY DEF NamedArg
<1>3. \A pair \in previews : pair[1] \in {"gen_ai.tool.call.arguments", "mcpobs.request.size"}
  BY DEF If, JsPreviewStamps, PreviewStamps
<1> HIDE DEF named, previews
<1>4. KeysOf(pairs) \subseteq OpenKeys
  <2>1. /\ named[2] = "" \/ named[1] \in OpenKeys
        /\ \A pair \in previews : pair[1] \in OpenKeys
        /\ <<"mcp.method.name", ctx.method>>[1] \in OpenKeys
        /\ <<"network.transport", transport.value>>[1] \in OpenKeys
    BY <1>2, <1>3 DEF OpenKeys
  <2>2. \A pair \in pairs : pair[2] = "" \/ pair[1] \in OpenKeys
    BY <2>1, Zenon
  <2> HIDE DEF pairs
  <2> QED BY <2>2 DEF KeysOf
<1>5. ctx.method # ""
  BY RequestsAssumption
<1>6. named[1] \notin {"mcp.method.name", "network.transport"}
  BY <1>2
<1>7. Gives(pairs, "mcp.method.name", ctx.method)
  BY <1>3, <1>6 DEF Gives
<1>8. Gives(pairs, "network.transport", transport.value)
  BY <1>3, <1>6 DEF Gives
<1> HIDE DEF pairs, opened
<1>9. Val(opened, "mcp.method.name") = ctx.method
  <2>1. Val(Stamped(<<>>, pairs), "mcp.method.name") = ctx.method
    BY <1>5, <1>7, StampedSets, Zenon
  <2> QED BY <1>1, <2>1
<1>10. Val(opened, "network.transport") = transport.value
  <2>1. Val(<<>>, "network.transport") = ""
    BY DEF Val
  <2>2. CASE transport.value = ""
    <3>1. Gives(pairs, "network.transport", "")
      BY <1>8, <2>2
    <3> QED BY <1>1, <2>1, <2>2, <3>1, StampedSkips, Zenon
  <2>3. CASE transport.value # ""
    <3>1. Val(Stamped(<<>>, pairs), "network.transport") = transport.value
      BY <1>8, <2>3, StampedSets, Zenon
    <3> QED BY <1>1, <3>1
  <2> QED BY <2>2, <2>3
<1>11. DOMAIN opened \subseteq OpenKeys
  <2>1. DOMAIN opened \subseteq DOMAIN <<>> \cup KeysOf(pairs)
    BY <1>1, StampedDomain
  <2>2. DOMAIN <<>> = {}
    OBVIOUS
  <2> QED BY <1>4, <2>1, <2>2
<1>12. "mcp.method.name" \in DOMAIN opened
  BY <1>5, <1>9 DEF Val
<1>13. Open(opened)
  BY <1>10, <1>11, <1>12 DEF Open, Val
<1> QED BY <1>13 DEF opened

LEMMA CustomLeavesOpen ==
  ASSUME NEW attributes, Open(attributes), NEW key \in CustomKeys
  PROVE  Open(Stamped(attributes, {<<CustomKey(key), "mine">>}))
<1> DEFINE pairs   == {<<CustomKey(key), "mine">>}
           stamped == Stamped(attributes, pairs)
<1>1. KeysOf(pairs) = {CustomKey(key)}
  <2>1. pairs = {<<CustomKey(key), "mine">>} /\ <<CustomKey(key), "mine">>[1] = CustomKey(key)
        /\ <<CustomKey(key), "mine">>[2] # ""
    OBVIOUS
  <2> QED BY <2>1, Zenon DEF KeysOf
<1>2. CustomKey(key) \in CustomNames
  BY DEF CustomNames
<1>3. "network.transport" \notin KeysOf(pairs) /\ "mcp.method.name" \notin KeysOf(pairs)
  BY <1>1, <1>2, CustomIsApart DEF SdkKeys
<1> HIDE DEF pairs
<1>4. DOMAIN stamped \subseteq OpenKeys \cup CustomNames
  BY <1>1, <1>2, StampedDomain DEF Open
<1>5. /\ "mcp.method.name" \in DOMAIN stamped
      /\ "network.transport" \in DOMAIN stamped <=> "network.transport" \in DOMAIN attributes
      /\ Val(stamped, "network.transport") = Val(attributes, "network.transport")
  BY <1>3, StampedKeeps DEF Open
<1> HIDE DEF stamped
<1>6. Open(stamped)
  BY <1>4, <1>5 DEF Open, Val
<1> QED BY <1>6 DEF stamped, pairs

-----------------------------------------------------------------------------
LEMMA FrozenSpans ==
  ASSUME SetupInv, [CaptureNext]_<<captureVars, streamVars>>, served # ""
  PROVE  /\ UNCHANGED <<sdk, served>>
         /\ \A attributes : Open(attributes) => Open(attributes)'
         /\ \A attributes, ctx, outcome :
              Closed(attributes, ctx, outcome)' = Closed(attributes, ctx, outcome)
<1>1. UNCHANGED <<sdk, options, served>>
  BY SetupFrozen
<1>2. CASE UNCHANGED <<attached, transport, told>>
  <2>1. \A attributes : Open(attributes) => Open(attributes)'
    BY <1>1, <1>2 DEF Open
  <2>2. ASSUME NEW attributes, NEW ctx, NEW outcome
        PROVE  Closed(attributes, ctx, outcome)' = Closed(attributes, ctx, outcome)
    <3>1. HelperAttributes(attributes, ctx, outcome)' = HelperAttributes(attributes, ctx, outcome)
      BY <1>1, <1>2 DEF HelperAttributes
    <3>2. PySpan(attributes, ctx, outcome)' = PySpan(attributes, ctx, outcome)
      BY <3>1 DEF PySpan
    <3>3. JsSpan(attributes, outcome)' = JsSpan(attributes, outcome)
      BY <1>1, <1>2 DEF JsSpan
    <3> QED BY <1>1, <3>2, <3>3 DEF Closed
  <2> QED BY <1>1, <2>1, <2>2
<1>3. CASE sdk = "javascript" /\ attached = "nothing" /\ attached' = "too late"
  BY <1>1, <1>3 DEF Open, Closed, JsSpan
<1> QED BY <1>1, <1>2, <1>3, SetupFrozen

LEMMA CallKept ==
  ASSUME SetupInv, [CaptureNext]_<<captureVars, streamVars>>, NEW call, CallInv(call)
  PROVE  CallInv(call)'
<1>1. CASE call.phase = "idle"
  BY <1>1 DEF CallInv
<1>2. CASE call.phase = "running"
  <2>1. served # "" /\ Open(call.attributes)
    BY <1>2 DEF CallInv
  <2>2. UNCHANGED <<sdk, served>> /\ Open(call.attributes)'
    BY <2>1, FrozenSpans
  <2> QED BY <1>2, <2>2 DEF CallInv
<1>3. CASE call.phase = "done"
  <2>1. served # "" /\ SpanIsClosed(call)
    BY <1>3 DEF CallInv
  <2>2. PICK attributes :
          Open(attributes) /\ call.span = Closed(attributes, call.ctx, call.outcome)
    BY <2>1 DEF SpanIsClosed
  <2>3. /\ UNCHANGED <<sdk, served>> /\ Open(attributes)'
        /\ Closed(attributes, call.ctx, call.outcome)'
             = Closed(attributes, call.ctx, call.outcome)
    BY <2>1, <2>2, FrozenSpans
  <2>4. SpanIsClosed(call)'
    BY <2>1, <2>2, <2>3 DEF SpanIsClosed
  <2> QED BY <1>3, <2>3, <2>4 DEF CallInv
<1> QED BY <1>1, <1>2, <1>3 DEF CallInv

LEMMA CallsInit == CaptureInit => CallsInv
<1> SUFFICES ASSUME CaptureInit, NEW c \in Parents PROVE CallInv(calls[c])
  BY DEF CaptureInit, CallsInv
<1>1. calls[c].phase = "idle"
  BY DEF CaptureInit
<1> QED BY <1>1 DEF CallInv

LEMMA CallsNext ==
  ASSUME SetupInv, CallsInv, [CaptureNext]_<<captureVars, streamVars>>
  PROVE  CallsInv'
<1>1. ASSUME NEW c \in Parents, NEW call, calls' = [calls EXCEPT ![c] = call], CallInv(call)'
      PROVE  CallsInv'
  <2>1. DOMAIN calls' = Parents /\ calls'[c] = call
    BY <1>1 DEF CallsInv
  <2>2. ASSUME NEW d \in Parents \ {c} PROVE CallInv(calls[d])' /\ calls'[d] = calls[d]
    BY <1>1, <2>2, CallKept DEF CallsInv
  <2> QED BY <1>1, <2>1, <2>2 DEF CallsInv
<1>2. ASSUME NEW c \in Parents, NEW ctx \in Contexts, Begin(c, ctx) PROVE CallsInv'
  <2>1. UNCHANGED <<sdk, options, attached, transport, served>> /\ served # ""
    BY <1>2 DEF Begin, setupVars
  <2>2. PICK attributes :
          /\ calls' = [calls EXCEPT ![c] = [phase |-> "running", ctx |-> ctx,
                                            attributes |-> attributes]]
          /\ Open(attributes)
    BY <1>2, PyOpens, JsOpens DEF Begin, SetupInv
  <2>3. Open(attributes)'
    BY <2>1, <2>2 DEF Open
  <2>4. CallInv([phase |-> "running", ctx |-> ctx, attributes |-> attributes])'
    BY <2>1, <2>3 DEF CallInv
  <2> QED BY <1>1, <2>2, <2>4
<1>3. ASSUME NEW c \in Parents, NEW key \in CustomKeys, SetCustom(c, key) PROVE CallsInv'
  <2>1. UNCHANGED <<sdk, options, attached, transport, served>>
    BY <1>3 DEF SetCustom, setupVars
  <2>2. /\ calls[c].phase = "running" /\ DOMAIN calls[c] = {"phase", "ctx", "attributes"}
        /\ served # "" /\ calls[c].ctx \in Contexts /\ Open(calls[c].attributes)
    BY <1>3 DEF SetCustom, CallsInv, CallInv
  <2>3. PICK stamped :
          /\ calls' = [calls EXCEPT ![c] = [calls[c] EXCEPT !.attributes = stamped]]
          /\ Open(stamped)
    BY <1>3, <2>2, CustomLeavesOpen DEF SetCustom
  <2>4. Open(stamped)'
    BY <2>1, <2>3 DEF Open
  <2>5. PICK call :
          /\ call = [calls[c] EXCEPT !.attributes = stamped]
          /\ calls' = [calls EXCEPT ![c] = call]
    BY <2>3
  <2>6. /\ call.phase = "running" /\ call.ctx \in Contexts /\ call.attributes = stamped
        /\ DOMAIN call = {"phase", "ctx", "attributes"}
    BY <2>2, <2>5
  <2>7. CallInv(call)'
    BY <2>1, <2>2, <2>4, <2>6 DEF CallInv
  <2> QED BY <1>1, <2>5, <2>7
<1>4. ASSUME NEW c \in Parents, NEW outcome \in Outcomes[sdk],
             PyEnds(c, outcome) \/ JsEnds(c, outcome)
      PROVE  CallsInv'
  <2>1. /\ calls[c].phase = "running" /\ served # ""
        /\ calls[c].ctx \in Contexts /\ Open(calls[c].attributes)
    BY <1>4 DEF PyEnds, JsEnds, CallsInv, CallInv
  <2>2. UNCHANGED <<sdk, options, attached, transport, served>>
    BY <1>4 DEF PyEnds, JsEnds, Ends, setupVars
  <2>3. PICK attributes, ctx, span :
          /\ Open(attributes) /\ ctx \in Contexts
          /\ span = Closed(attributes, ctx, outcome)
          /\ calls' = [calls EXCEPT ![c] = [phase |-> "done", ctx |-> ctx, outcome |-> outcome,
                                            span |-> span]]
    <3>1. calls' = [calls EXCEPT ![c] =
            [phase |-> "done", ctx |-> calls[c].ctx, outcome |-> outcome,
             span |-> Closed(calls[c].attributes, calls[c].ctx, outcome)]]
      <4>1. CASE PyEnds(c, outcome)
        BY <4>1 DEF PyEnds, Ends, Closed
      <4>2. CASE JsEnds(c, outcome)
        BY <4>2 DEF JsEnds, Ends, Closed
      <4> QED BY <1>4, <4>1, <4>2
    <3> QED BY <2>1, <3>1
  <2>4. Open(attributes)' /\ span = Closed(attributes, ctx, outcome)'
    BY <2>1, <2>3, FrozenSpans
  <2>5. PICK call : call = [phase |-> "done", ctx |-> ctx, outcome |-> outcome, span |-> span]
    OBVIOUS
  <2>6. /\ call.phase = "done" /\ call.ctx = ctx /\ call.outcome = outcome /\ call.span = span
        /\ calls' = [calls EXCEPT ![c] = call]
    BY <2>3, <2>5
  <2>7. SpanIsClosed(call)'
    BY <2>2, <2>4, <2>6 DEF SpanIsClosed
  <2>8. CallInv(call)'
    BY <2>1, <2>2, <2>3, <2>6, <2>7 DEF CallInv
  <2> QED BY <1>1, <2>6, <2>8
<1>5. CASE UNCHANGED calls
  <2>1. ASSUME NEW c \in Parents PROVE CallInv(calls[c])'
    <3>1. PICK call : call = calls[c] /\ call = calls'[c]
      BY <1>5
    <3>2. CallInv(call)'
      BY <3>1, CallKept DEF CallsInv
    <3> QED BY <3>1, <3>2
  <2> QED BY <1>5, <2>1 DEF CallsInv
<1>6. \/ \E c \in Parents :
           \/ \E ctx \in Contexts : Begin(c, ctx)
           \/ \E key \in CustomKeys : SetCustom(c, key)
           \/ \E outcome \in Outcomes[sdk] : PyEnds(c, outcome) \/ JsEnds(c, outcome)
      \/ UNCHANGED calls
  BY DEF CaptureNext, PyInstrument, JsInstrument, InstrumentAsgi, PyRun, ServeApp, JsRun, Progress,
         Publish, captureVars
<1> QED BY <1>2, <1>3, <1>4, <1>5, <1>6

-----------------------------------------------------------------------------
(***************************************************************************)
(* What the annotation of a Python call leaves on its span.                *)
(***************************************************************************)

LEMMA StampedGives ==
  \A attributes, pairs, key, value :
    Gives(pairs, key, value) /\ key \notin DOMAIN attributes =>
      Val(Stamped(attributes, pairs), key) = value
<1> TAKE attributes, pairs, key, value
<1> HAVE Gives(pairs, key, value) /\ key \notin DOMAIN attributes
<1>1. CASE value = ""
  <2>1. Val(Stamped(attributes, pairs), key) = Val(attributes, key)
    BY <1>1, StampedSkips
  <2> QED BY <1>1, <2>1 DEF Val
<1>2. CASE value # ""
  BY <1>2, StampedSets, Zenon
<1> QED BY <1>1, <1>2

LEMMA StampedLacks ==
  \A attributes, pairs, key :
    key \notin KeysOf(pairs) /\ key \notin DOMAIN attributes =>
      /\ key \notin DOMAIN Stamped(attributes, pairs)
      /\ Val(Stamped(attributes, pairs), key) = ""
BY StampedKeeps DEF Val

\* The keys a verdict is read from, none of them on an open span.
VerdictKeys ==
  {"error.type", "rpc.response.status_code", "mcp.result.type", "mcpobs.result.type",
   "mcpobs.cancelled", "mcpobs.failure.kind", "mcpobs.failure.detail"}

LEMMA OpenLacksVerdict ==
  ASSUME NEW attributes, Open(attributes)
  PROVE  \A key \in VerdictKeys : key \notin DOMAIN attributes
<1> SUFFICES ASSUME NEW key \in VerdictKeys, key \in DOMAIN attributes PROVE FALSE
  OBVIOUS
<1>1. key \in CustomNames
  BY DEF Open, OpenKeys, VerdictKeys
<1> QED BY <1>1, CustomIsApart DEF VerdictKeys, SdkKeys, HelperKeys

PreviewKeys == {"gen_ai.tool.call.arguments", "mcpobs.request.size",
                "gen_ai.tool.call.result", "mcpobs.response.size"}

IdentityKeys == {"mcpobs.client.name", "mcp.resource.uri", "mcpobs.mrtr.state.out",
                 "mcpobs.mrtr.state.in", "mcpobs.result.type"}

FailureKeys == {"mcpobs.failure.kind", "mcpobs.failure.kind.version", "mcpobs.failure.detail"}

LEMMA IdentityGives ==
  ASSUME NEW ctx, NEW result
  PROVE  /\ \A pair \in IdentityStamps(ctx, result) : pair[1] \in IdentityKeys
         /\ Gives(IdentityStamps(ctx, result), "mcpobs.result.type",
                  IF result.resultType = "complete" THEN "" ELSE result.resultType)
<1> DEFINE out  == MrtrState(result.state)
           in   == MrtrState(ctx.state)
           type == IF result.resultType = "complete" THEN "" ELSE result.resultType
<1>1. IdentityStamps(ctx, result) =
        {<<"mcpobs.client.name", ctx.client>>, <<"mcp.resource.uri", ctx.uri>>,
         <<"mcpobs.mrtr.state.out", out>>, <<"mcpobs.mrtr.state.in", in>>,
         <<"mcpobs.result.type", type>>}
  BY DEF IdentityStamps
<1> HIDE DEF out, in, type
<1>2. Gives(IdentityStamps(ctx, result), "mcpobs.result.type", type)
  BY <1>1 DEF Gives
<1>3. \A pair \in IdentityStamps(ctx, result) : pair[1] \in IdentityKeys
  BY <1>1 DEF IdentityKeys
<1> QED BY <1>2, <1>3 DEF type

LEMMA FailureGives ==
  ASSUME NEW on, NEW result
  PROVE  /\ \A pair \in FailureStamps(on, result) : pair[1] \in FailureKeys
         /\ Gives(FailureStamps(on, result), "mcpobs.failure.kind", KindOf(FirstText(result)))
         /\ ~ on.detail => Gives(FailureStamps(on, result), "mcpobs.failure.detail", "")
<1> DEFINE kind   == KindOf(FirstText(result))
           detail == IF on.detail THEN ErrorDetail(result) ELSE ""
<1>1. FailureStamps(on, result) =
        {<<"mcpobs.failure.kind", kind>>, <<"mcpobs.failure.kind.version", "2">>,
         <<"mcpobs.failure.detail", detail>>}
  BY DEF FailureStamps
<1>2. ~ on.detail => detail = ""
  OBVIOUS
<1> HIDE DEF kind, detail
<1>3. /\ Gives(FailureStamps(on, result), "mcpobs.failure.kind", kind)
      /\ Gives(FailureStamps(on, result), "mcpobs.failure.detail", detail)
  BY <1>1 DEF Gives
<1>4. \A pair \in FailureStamps(on, result) : pair[1] \in FailureKeys
  BY <1>1 DEF FailureKeys
<1> QED BY <1>2, <1>3, <1>4 DEF kind

\* What the annotation of a result leaves of those keys.
AnnotationLeaves(verdict, attributes, on, value, ctx, result) ==
  /\ "mcp.method.name" \in DOMAIN verdict
  /\ \A key \in {"error.type", "rpc.response.status_code", "mcp.result.type",
                 "mcpobs.cancelled"} : key \notin DOMAIN verdict
  /\ Val(verdict, "mcpobs.result.type") =
       IF Renders(on, ctx, result) /\ result.resultType # "complete"
       THEN result.resultType ELSE ""
  /\ Val(verdict, "mcpobs.failure.kind") =
       IF Classifies(on, ctx, result) THEN KindOf(FirstText(result)) ELSE ""
  /\ "mcpobs.failure.detail" \in DOMAIN verdict => Classifies(on, ctx, result) /\ on.detail
  /\ "network.transport" \notin DOMAIN attributes => Val(verdict, "network.transport") = value

LEMMA AnnotatedKeys ==
  ASSUME NEW attributes, Open(attributes), NEW on, NEW value, NEW ctx, NEW result
  PROVE  AnnotationLeaves(Annotated(attributes, on, value, ctx, result),
                          attributes, on, value, ctx, result)
<1> DEFINE requests  == If(on.payloads /\ RendersRequest(on, ctx),
                          PreviewStamps("gen_ai.tool.call.arguments", "mcpobs.request.size",
                                        ctx.payload))
           responses == If(on.payloads /\ Renders(on, ctx, result),
                          PreviewStamps("gen_ai.tool.call.result", "mcpobs.response.size",
                                        result.payload))
           identity  == If(Renders(on, ctx, result), IdentityStamps(ctx, result))
           failure   == If(Classifies(on, ctx, result), FailureStamps(on, result))
           pairs     == {<<"network.transport", value>>} \cup requests \cup responses
                          \cup identity \cup failure
           verdict   == Annotated(attributes, on, value, ctx, result)
           type      == IF result.resultType = "complete" THEN "" ELSE result.resultType
           kind      == KindOf(FirstText(result))
<1>1. verdict = Stamped(attributes, pairs)
  BY DEF Annotated
<1>2. \A pair \in requests \cup responses : pair[1] \in PreviewKeys
  BY DEF If, PreviewStamps, PreviewKeys
<1>3. /\ \A pair \in identity : pair[1] \in IdentityKeys
      /\ ~ Renders(on, ctx, result) => identity = {}
      /\ Renders(on, ctx, result) => Gives(identity, "mcpobs.result.type", type)
  BY IdentityGives DEF If
<1>4. /\ \A pair \in failure : pair[1] \in FailureKeys
      /\ ~ Classifies(on, ctx, result) => failure = {}
      /\ Classifies(on, ctx, result) => Gives(failure, "mcpobs.failure.kind", kind)
      /\ ~ on.detail => failure = {} \/ Gives(failure, "mcpobs.failure.detail", "")
  BY FailureGives DEF If
<1>5. type = IF result.resultType # "complete" THEN result.resultType ELSE ""
  OBVIOUS
<1>6. \A key \in VerdictKeys : key \notin DOMAIN attributes
  BY OpenLacksVerdict
<1> HIDE DEF requests, responses, identity, failure, verdict, type, kind
<1>7. ASSUME NEW pair \in pairs
      PROVE  \/ pair[1] = "network.transport" /\ pair[2] = value
             \/ pair[1] \in PreviewKeys
             \/ pair \in identity /\ pair[1] \in IdentityKeys
             \/ pair \in failure /\ pair[1] \in FailureKeys
  <2>1. \/ pair[1] = "network.transport" /\ pair[2] = value
        \/ pair \in requests \cup responses \/ pair \in identity \/ pair \in failure
    OBVIOUS
  <2> HIDE DEF pairs
  <2> QED BY <1>2, <1>3, <1>4, <2>1
<1>8. "mcp.method.name" \in DOMAIN verdict
  BY <1>1, StampedGrows DEF Open
<1>9. ASSUME NEW key \in {"error.type", "rpc.response.status_code", "mcp.result.type",
                           "mcpobs.cancelled"}
       PROVE  key \notin DOMAIN verdict
  <2>1. \A pair \in pairs : pair[1] # key
    BY <1>7 DEF PreviewKeys, IdentityKeys, FailureKeys
  <2> HIDE DEF pairs
  <2>2. key \notin KeysOf(pairs)
    BY <2>1 DEF KeysOf
  <2>3. key \notin DOMAIN attributes
    BY <1>6 DEF VerdictKeys
  <2> QED BY <1>1, <2>2, <2>3, StampedLacks
<1>10. "network.transport" \notin DOMAIN attributes =>
         Val(verdict, "network.transport") = value
  <2>1. Gives(pairs, "network.transport", value)
    BY <1>7, <1>3, <1>4 DEF PreviewKeys, IdentityKeys, FailureKeys, Gives
  <2> HIDE DEF pairs
  <2> QED BY <1>1, <2>1, StampedGives
<1>11. Val(verdict, "mcpobs.result.type") = IF Renders(on, ctx, result) THEN type ELSE ""
  <2>1. "mcpobs.result.type" \notin DOMAIN attributes
    BY <1>6 DEF VerdictKeys
  <2>2. CASE Renders(on, ctx, result)
    <3>1. Gives(pairs, "mcpobs.result.type", type)
      BY <1>7, <1>3, <1>4, <2>2 DEF PreviewKeys, IdentityKeys, FailureKeys,
             Gives
    <3> HIDE DEF pairs
    <3> QED BY <1>1, <2>1, <2>2, <3>1, StampedGives
  <2>3. CASE ~ Renders(on, ctx, result)
    <3>1. \A pair \in pairs : pair[1] # "mcpobs.result.type"
      BY <1>7, <1>3, <1>4, <2>3 DEF PreviewKeys, IdentityKeys, FailureKeys
    <3> HIDE DEF pairs
    <3>2. "mcpobs.result.type" \notin KeysOf(pairs)
      BY <3>1 DEF KeysOf
    <3> QED BY <1>1, <2>1, <2>3, <3>2, StampedLacks
  <2> QED BY <2>2, <2>3
<1>12. Val(verdict, "mcpobs.failure.kind") = IF Classifies(on, ctx, result) THEN kind ELSE ""
  <2>1. "mcpobs.failure.kind" \notin DOMAIN attributes
    BY <1>6 DEF VerdictKeys
  <2>2. CASE Classifies(on, ctx, result)
    <3>1. Gives(pairs, "mcpobs.failure.kind", kind)
      BY <1>7, <1>3, <1>4, <2>2 DEF PreviewKeys, IdentityKeys, FailureKeys,
             Gives
    <3> HIDE DEF pairs
    <3> QED BY <1>1, <2>1, <2>2, <3>1, StampedGives
  <2>3. CASE ~ Classifies(on, ctx, result)
    <3>1. \A pair \in pairs : pair[1] # "mcpobs.failure.kind"
      BY <1>7, <1>3, <1>4, <2>3 DEF PreviewKeys, IdentityKeys, FailureKeys
    <3> HIDE DEF pairs
    <3>2. "mcpobs.failure.kind" \notin KeysOf(pairs)
      BY <3>1 DEF KeysOf
    <3> QED BY <1>1, <2>1, <2>3, <3>2, StampedLacks
  <2> QED BY <2>2, <2>3
<1>13. "mcpobs.failure.detail" \in DOMAIN verdict => Classifies(on, ctx, result) /\ on.detail
  <2> SUFFICES ASSUME ~ (Classifies(on, ctx, result) /\ on.detail)
               PROVE  "mcpobs.failure.detail" \notin DOMAIN verdict
    OBVIOUS
  <2>1. \A pair \in pairs : pair[1] = "mcpobs.failure.detail" => pair[2] = ""
    BY <1>7, <1>3, <1>4 DEF PreviewKeys, IdentityKeys, FailureKeys, Gives
  <2> HIDE DEF pairs
  <2>2. "mcpobs.failure.detail" \notin KeysOf(pairs)
    BY <2>1 DEF KeysOf
  <2>3. "mcpobs.failure.detail" \notin DOMAIN attributes
    BY <1>6 DEF VerdictKeys
  <2> QED BY <1>1, <2>2, <2>3, StampedLacks
<1> QED BY <1>5, <1>8, <1>9, <1>10, <1>11, <1>12, <1>13 DEF AnnotationLeaves, verdict, kind

\* The middleware's part of a Python call's span.
Annotates(outcome) == attached = "calls" /\ outcome.ends = "returns"

\* What it leaves of the keys a verdict is read from.
HelperLeaves(verdict, attributes, ctx, outcome) ==
  LET result == outcome.result
  IN  /\ "mcp.method.name" \in DOMAIN verdict
      /\ \A key \in {"error.type", "rpc.response.status_code", "mcp.result.type"} :
           key \notin DOMAIN verdict
      /\ Val(verdict, "mcpobs.cancelled") =
           IF attached = "calls" /\ outcome.ends = "cancelled" THEN "true" ELSE ""
      /\ Val(verdict, "mcpobs.result.type") =
           IF Annotates(outcome) /\ Renders(options, ctx, result)
                /\ result.resultType # "complete"
           THEN result.resultType ELSE ""
      /\ Val(verdict, "mcpobs.failure.kind") =
           IF Annotates(outcome) /\ Classifies(options, ctx, result)
           THEN KindOf(FirstText(result)) ELSE ""
      /\ "mcpobs.failure.detail" \in DOMAIN verdict =>
           Annotates(outcome) /\ Classifies(options, ctx, result) /\ options.detail
      /\ "network.transport" \notin DOMAIN attributes =>
           Val(verdict, "network.transport") \in
             IF attached = "calls" THEN {"", transport.value} ELSE {""}

LEMMA HelperVerdict ==
  ASSUME NEW attributes, Open(attributes), NEW ctx, NEW outcome, PythonOutcome(outcome)
  PROVE  HelperLeaves(HelperAttributes(attributes, ctx, outcome), attributes, ctx, outcome)
<1> DEFINE verdict == HelperAttributes(attributes, ctx, outcome)
<1>1. \A key \in VerdictKeys : key \notin DOMAIN attributes
  BY OpenLacksVerdict
<1>2. CASE attached # "calls" \/ outcome.ends = "raises"
  <2>1. verdict = attributes
    BY <1>2 DEF HelperAttributes
  <2> HIDE DEF verdict
  <2>2. ~ Annotates(outcome) /\ ~ (attached = "calls" /\ outcome.ends = "cancelled")
    BY <1>2 DEF Annotates
  <2>3. "mcp.method.name" \in DOMAIN verdict
    BY <2>1 DEF Open
  <2>4. \A key \in VerdictKeys : key \notin DOMAIN verdict /\ Val(verdict, key) = ""
    BY <1>1, <2>1 DEF Val
  <2>5. "network.transport" \notin DOMAIN attributes => Val(verdict, "network.transport") = ""
    BY <2>1 DEF Val
  <2> QED BY <2>2, <2>3, <2>4, <2>5 DEF HelperLeaves, VerdictKeys, verdict
<1>3. CASE attached = "calls" /\ outcome.ends = "cancelled"
  <2> DEFINE pairs == {<<"mcpobs.cancelled", "true">>, <<"network.transport", transport.value>>}
  <2>1. verdict = Stamped(attributes, pairs)
    BY <1>3 DEF HelperAttributes, MarkedCancelled
  <2> HIDE DEF verdict
  <2>2. ~ Annotates(outcome)
    BY <1>3 DEF Annotates
  <2>3. "mcp.method.name" \in DOMAIN verdict
    BY <2>1, StampedGrows DEF Open
  <2>4. /\ Gives(pairs, "mcpobs.cancelled", "true")
        /\ Gives(pairs, "network.transport", transport.value)
        /\ \A pair \in pairs : pair[1] \in {"mcpobs.cancelled", "network.transport"}
    BY DEF Gives
  <2> HIDE DEF pairs
  <2>5. KeysOf(pairs) \subseteq {"mcpobs.cancelled", "network.transport"}
    BY <2>4 DEF KeysOf
  <2>6. \A key \in VerdictKeys \ {"mcpobs.cancelled"} :
          key \notin DOMAIN verdict /\ Val(verdict, key) = ""
    BY <1>1, <2>1, <2>5, StampedLacks DEF VerdictKeys
  <2>7. Val(verdict, "mcpobs.cancelled") = "true"
    BY <1>1, <2>1, <2>4, StampedGives DEF VerdictKeys
  <2>8. "network.transport" \notin DOMAIN attributes =>
          Val(verdict, "network.transport") = transport.value
    BY <2>1, <2>4, StampedGives
  <2> QED BY <1>3, <2>2, <2>3, <2>6, <2>7, <2>8 DEF HelperLeaves, VerdictKeys, verdict
<1>4. CASE attached = "calls" /\ outcome.ends = "returns"
  <2> DEFINE stamped == Annotated(attributes, options, transport.value, ctx, outcome.result)
  <2>1. verdict = stamped
    BY <1>4 DEF HelperAttributes
  <2>2. Annotates(outcome) /\ ~ (attached = "calls" /\ outcome.ends = "cancelled")
    BY <1>4 DEF Annotates
  <2>3. AnnotationLeaves(stamped, attributes, options, transport.value, ctx, outcome.result)
    BY AnnotatedKeys
  <2> HIDE DEF verdict, stamped
  <2>4. Val(stamped, "mcpobs.cancelled") = ""
    BY <2>3 DEF AnnotationLeaves, Val
  <2> QED BY <1>4, <2>1, <2>2, <2>3, <2>4 DEF AnnotationLeaves, HelperLeaves, verdict
<1> QED BY <1>2, <1>3, <1>4 DEF PythonOutcome

\* What a Python call's span tells the taxonomy.
PySpanTells(span, attributes, ctx, outcome) ==
  LET result == outcome.result
  IN  /\ IsMcp(span)
      /\ span.status = IF outcome.ends # "cancelled" /\ result.isError THEN "ERROR" ELSE "UNSET"
      /\ Attr(span, "error.type") = ErrorType(outcome)
      /\ Attr(span, "rpc.response.status_code") = ""
      /\ Attr(span, "mcp.result.type") = ""
      /\ Attr(span, "mcpobs.cancelled") =
           IF attached = "calls" /\ outcome.ends = "cancelled" THEN "true" ELSE ""
      /\ Attr(span, "mcpobs.result.type") =
           IF Annotates(outcome) /\ Renders(options, ctx, result)
                /\ result.resultType # "complete"
           THEN result.resultType ELSE ""
      /\ Attr(span, "mcpobs.failure.kind") =
           IF Annotates(outcome) /\ Classifies(options, ctx, result)
           THEN KindOf(FirstText(result)) ELSE ""
      /\ "mcpobs.failure.detail" \in DOMAIN span.attributes =>
           Annotates(outcome) /\ Classifies(options, ctx, result) /\ options.detail
      /\ "network.transport" \notin DOMAIN attributes =>
           Attr(span, "network.transport") \in
             IF attached = "calls" THEN {"", transport.value} ELSE {""}

LEMMA PyVerdict ==
  ASSUME NEW attributes, Open(attributes), NEW ctx, NEW outcome, PythonOutcome(outcome)
  PROVE  PySpanTells(PySpan(attributes, ctx, outcome), attributes, ctx, outcome)
<1> DEFINE verdict == HelperAttributes(attributes, ctx, outcome)
           pairs   == {<<"error.type", ErrorType(outcome)>>}
           raised  == outcome.ends = "raises"
           span    == PySpan(attributes, ctx, outcome)
           status  == IF outcome.ends # "cancelled" /\ outcome.result.isError
                      THEN "ERROR" ELSE "UNSET"
<1>1. span = [kind |-> "SERVER", status |-> status, exception |-> raised,
              attributes |-> Stamped(verdict, pairs)]
  BY DEF PySpan, SdkClosed
<1>2. HelperLeaves(verdict, attributes, ctx, outcome)
  BY HelperVerdict
<1>3. Gives(pairs, "error.type", ErrorType(outcome)) /\ \A pair \in pairs : pair[1] = "error.type"
  BY DEF Gives
<1> HIDE DEF verdict, pairs, raised, status
<1>4. span.status = status /\ span.attributes = Stamped(verdict, pairs)
  BY <1>1
<1> HIDE DEF span
<1>5. IsMcp(span)
  BY <1>2, <1>4, StampedGrows DEF HelperLeaves, IsMcp
<1>6. \A key : Attr(span, key) = Val(Stamped(verdict, pairs), key)
  BY <1>4 DEF Attr, Val
<1>7. Attr(span, "error.type") = ErrorType(outcome)
  BY <1>2, <1>3, <1>6, StampedGives DEF HelperLeaves
<1>8. KeysOf(pairs) \subseteq {"error.type"}
  BY <1>3 DEF KeysOf
<1>9. \A key : key # "error.type" =>
        /\ Attr(span, key) = Val(verdict, key)
        /\ key \in DOMAIN span.attributes <=> key \in DOMAIN verdict
  BY <1>4, <1>6, <1>8, StampedKeeps
<1>10. \A key \in {"rpc.response.status_code", "mcp.result.type"} : Val(verdict, key) = ""
  BY <1>2 DEF HelperLeaves, Val
<1> QED BY <1>2, <1>4, <1>5, <1>7, <1>9, <1>10 DEF HelperLeaves, PySpanTells, span, status

\* What a JavaScript call's span tells the taxonomy.
JsSpanTells(span, attributes, outcome) ==
  LET kind == JsClassifyResult(outcome).kind
  IN  /\ IsMcp(span)
      /\ \A key \in {"error.type", "rpc.response.status_code", "mcp.result.type",
                     "mcpobs.result.type", "mcpobs.cancelled"} : Attr(span, key) = ""
      /\ Attr(span, "mcpobs.failure.kind") = kind
      /\ "mcpobs.failure.detail" \in DOMAIN span.attributes => kind # "ok" /\ options.detail
      /\ Attr(span, "network.transport") = Val(attributes, "network.transport")

LEMMA JsVerdict ==
  ASSUME NEW attributes, Open(attributes), NEW outcome
  PROVE  JsSpanTells(JsFinished(attributes, options, outcome), attributes, outcome)
<1> DEFINE classification == JsClassifyResult(outcome)
           kind     == classification.kind
           source   == classification.source
           failing   == kind # "ok"
           status   == IF failing THEN "ERROR" ELSE "OK"
           detail   == Detail(JsFirstText(outcome.result))
           previews == If(options.payloads,
                          JsPreviewStamps("gen_ai.tool.call.result", "mcpobs.response.size",
                                          outcome.result.payload))
           details  == If(failing /\ options.detail, {<<"mcpobs.failure.detail", detail>>})
           pairs    == {<<"mcpobs.failure.kind", kind>>, <<"mcpobs.failure.kind.version", "1">>,
                        <<"mcpobs.failure.kind_source", source>>} \cup previews \cup details
           span     == JsFinished(attributes, options, outcome)
<1>1. span = [kind |-> "INTERNAL", status |-> status, exception |-> FALSE,
              attributes |-> Stamped(attributes, pairs)]
  BY DEF JsFinished
<1>2. \A pair \in previews : pair[1] \in PreviewKeys
  BY DEF If, JsPreviewStamps, PreviewStamps, PreviewKeys
<1>3. /\ ~ (failing /\ options.detail) => details = {}
      /\ \A pair \in details : pair[1] = "mcpobs.failure.detail"
  BY DEF If
<1>4. failing <=> kind # "ok"
  OBVIOUS
<1> HIDE DEF kind, source, failing, status, detail, previews, details
<1>5. ASSUME NEW pair \in pairs
      PROVE  \/ pair[1] = "mcpobs.failure.kind" /\ pair[2] = kind
             \/ pair[1] \in {"mcpobs.failure.kind.version", "mcpobs.failure.kind_source"}
             \/ pair[1] \in PreviewKeys
             \/ pair \in details /\ pair[1] = "mcpobs.failure.detail"
  <2>1. \/ pair[1] = "mcpobs.failure.kind" /\ pair[2] = kind
        \/ pair[1] \in {"mcpobs.failure.kind.version", "mcpobs.failure.kind_source"}
        \/ pair \in previews \/ pair \in details
    OBVIOUS
  <2> HIDE DEF pairs
  <2> QED BY <1>2, <1>3, <2>1
<1>6. Gives(pairs, "mcpobs.failure.kind", kind)
  BY <1>5 DEF Gives, PreviewKeys
<1> HIDE DEF pairs, span
<1>7. span.attributes = Stamped(attributes, pairs)
  BY <1>1
<1>8. \A key : Attr(span, key) = Val(Stamped(attributes, pairs), key)
  BY <1>7 DEF Attr, Val
<1>9. \A key \in VerdictKeys : key \notin DOMAIN attributes
  BY OpenLacksVerdict
<1>10. IsMcp(span)
  BY <1>7, StampedGrows DEF IsMcp, Open
<1>11. ASSUME NEW key \in {"error.type", "rpc.response.status_code", "mcp.result.type",
                          "mcpobs.result.type", "mcpobs.cancelled"}
       PROVE  Attr(span, key) = ""
  <2>1. \A pair \in pairs : pair[1] # key
    BY <1>5 DEF PreviewKeys
  <2>2. key \notin KeysOf(pairs)
    BY <2>1 DEF KeysOf
  <2>3. key \notin DOMAIN attributes
    BY <1>9 DEF VerdictKeys
  <2> QED BY <1>8, <2>2, <2>3, StampedLacks
<1>12. Attr(span, "mcpobs.failure.kind") = kind
  BY <1>6, <1>8, <1>9, StampedGives DEF VerdictKeys
<1>13. "mcpobs.failure.detail" \in DOMAIN span.attributes => failing /\ options.detail
  <2> SUFFICES ASSUME ~ (failing /\ options.detail)
               PROVE  "mcpobs.failure.detail" \notin DOMAIN span.attributes
    OBVIOUS
  <2>1. \A pair \in pairs : pair[1] # "mcpobs.failure.detail"
    BY <1>3, <1>5 DEF PreviewKeys
  <2>2. "mcpobs.failure.detail" \notin KeysOf(pairs)
    BY <2>1 DEF KeysOf
  <2>3. "mcpobs.failure.detail" \notin DOMAIN attributes
    BY <1>9 DEF VerdictKeys
  <2> QED BY <1>7, <2>2, <2>3, StampedLacks
<1>14. Attr(span, "network.transport") = Val(attributes, "network.transport")
  <2>1. \A pair \in pairs : pair[1] # "network.transport"
    BY <1>5 DEF PreviewKeys
  <2>2. "network.transport" \notin KeysOf(pairs)
    BY <2>1 DEF KeysOf
  <2> QED BY <1>8, <2>2, StampedKeeps
<1> QED BY <1>4, <1>10, <1>11, <1>12, <1>13, <1>14 DEF JsSpanTells, span, kind

-----------------------------------------------------------------------------
(***************************************************************************)
(* The verdict is the truth.                                               *)
(***************************************************************************)

Failed(truth) == truth \notin {"ok", "cancelled", "pending_input"}

LEMMA FailureKindsAreErrors ==
  \A kind \in FailureKind \cup {"protocol_error"} :
    kind # "" /\ IsError(kind) /\ Failed(kind)
BY DEF FailureKind, IsError, NotAFailure, Failed

LEMMA OtherCategories ==
  \A category \in {"ok", "cancelled", "pending_input"} :
    ~ IsError(category) /\ category \notin FailureKind /\ ~ Failed(category)
BY DEF FailureKind, IsError, NotAFailure, Failed

LEMMA KindIsTrue ==
  ASSUME NEW outcome, PythonOutcome(outcome), outcome.ends = "returns", outcome.result.isError
  PROVE  LET text == FirstText(outcome.result)
         IN  /\ KindOf(text) \in FailureKind
             /\ outcome.result.contentIsList
                  /\ ~ (outcome.truth = "server_exception"
                          /\ Says(text, "1 validation error for "))
                  => KindOf(text) = outcome.truth
<1> DEFINE text == FirstText(outcome.result)
<1>1. KindOf(text) = IF text.says = <<>> THEN "unclassified"
                     ELSE IF StartsWith(text, "Unknown tool:") THEN "unknown_tool"
                     ELSE IF ~ StartsWith(text, "Error executing tool ") THEN "tool_error"
                     ELSE IF Says(text, "1 validation error for ") THEN "invalid_arguments"
                     ELSE "server_exception"
  BY KindOfCases
<1>2. outcome.truth \in FailureKind
        /\ (outcome.result.contentIsList =>
              /\ outcome.truth = "unclassified" <=> text.says = <<>>
              /\ outcome.truth = "unknown_tool" <=> StartsWith(text, "Unknown tool:")
              /\ outcome.truth \in {"invalid_arguments", "server_exception"}
                   <=> StartsWith(text, "Error executing tool ")
              /\ outcome.truth = "invalid_arguments" => Says(text, "1 validation error for "))
  BY DEF PythonOutcome
<1> HIDE DEF text
<1>3. KindOf(text) \in FailureKind
  BY <1>1 DEF FailureKind
<1>4. outcome.result.contentIsList
        /\ ~ (outcome.truth = "server_exception" /\ Says(text, "1 validation error for "))
        => KindOf(text) = outcome.truth
  BY <1>1, <1>2 DEF FailureKind
<1> QED BY <1>3, <1>4 DEF text

\* What the normalizer makes of a Python call's span.
LEMMA PyCategory ==
  ASSUME NEW span, NEW attributes, NEW ctx, NEW outcome, PythonOutcome(outcome),
         PySpanTells(span, attributes, ctx, outcome)
  PROVE  /\ IsError(Classify(span)) <=> Failed(outcome.truth)
         /\ attached = "calls" /\ Renders(options, ctx, outcome.result)
              /\ outcome.result.contentIsList
              /\ ~ (outcome.truth = "server_exception"
                      /\ Says(FirstText(outcome.result), "1 validation error for "))
              => Classify(span) = outcome.truth
<1> DEFINE result == outcome.result
           kind   == KindOf(FirstText(result))
           given  == Renders(options, ctx, result) /\ Annotates(outcome)
<1>1. ResultType(span) = IF given /\ result.resultType # "complete" THEN result.resultType ELSE ""
  BY ResultTypeCases DEF PySpanTells
<1>2. Classify(span) =
        IF ResultType(span) = "input_required" THEN "pending_input"
        ELSE IF Attr(span, "mcpobs.cancelled") # "" THEN "cancelled"
        ELSE IF Attr(span, "mcpobs.failure.kind") # "" THEN Attr(span, "mcpobs.failure.kind")
        ELSE IF Attr(span, "error.type") = "" /\ span.status # "ERROR" THEN "ok"
        ELSE IF Attr(span, "error.type") = "tool_error" THEN "tool_error"
        ELSE IF Attr(span, "error.type") \in NumericCodes
                  \/ Attr(span, "rpc.response.status_code") \in NumericCodes THEN "protocol_error"
        ELSE IF Attr(span, "error.type") # "" \/ span.exception THEN "server_exception"
        ELSE "unclassified"
  BY ClassifyCases DEF PySpanTells
<1>3. CASE outcome.ends = "cancelled"
  <2>1. outcome.truth = "cancelled" /\ ~ Annotates(outcome)
    BY <1>3 DEF PythonOutcome, Annotates
  <2>2. /\ Attr(span, "mcpobs.cancelled") = (IF attached = "calls" THEN "true" ELSE "")
        /\ Attr(span, "mcpobs.failure.kind") = ""
        /\ Attr(span, "error.type") = "" /\ span.status = "UNSET"
    BY <1>3, <2>1 DEF PySpanTells, ErrorType
  <2>3. ResultType(span) = ""
    BY <1>1, <2>1
  <2>4. Classify(span) = IF attached = "calls" THEN "cancelled" ELSE "ok"
    BY <1>2, <2>2, <2>3
  <2> QED BY <2>1, <2>4, OtherCategories
<1>4. CASE outcome.ends = "raises"
  <2>1. /\ outcome.truth = IF outcome.code \in NumericCodes THEN "protocol_error"
                                                            ELSE "server_exception"
        /\ outcome.code \notin {"", "tool_error"} /\ outcome.result.isError
        /\ ~ Annotates(outcome)
    BY <1>4 DEF PythonOutcome, Annotates
  <2>2. /\ Attr(span, "mcpobs.cancelled") = ""
        /\ Attr(span, "mcpobs.failure.kind") = ""
        /\ Attr(span, "rpc.response.status_code") = ""
        /\ Attr(span, "error.type") = outcome.code
    BY <1>4, <2>1 DEF PySpanTells, ErrorType
  <2>3. ResultType(span) = "" /\ "" \notin NumericCodes
    BY <1>1, <2>1 DEF NumericCodes
  <2>4. Classify(span) = outcome.truth
    BY <1>2, <2>1, <2>2, <2>3
  <2>5. outcome.truth \in FailureKind \cup {"protocol_error"}
    BY <2>1 DEF FailureKind
  <2> QED BY <2>4, <2>5, FailureKindsAreErrors
<1>5. CASE outcome.ends = "returns"
  <2>1. /\ outcome.truth \in FailureKind \cup {"ok", "pending_input"}
        /\ outcome.truth \in FailureKind <=> result.isError
        /\ outcome.truth = "pending_input" <=> result.resultType = "input_required"
    BY <1>5 DEF PythonOutcome
  <2>2. /\ Attr(span, "mcpobs.cancelled") = ""
        /\ Attr(span, "rpc.response.status_code") = ""
        /\ Attr(span, "mcpobs.failure.kind") =
             IF Annotates(outcome) /\ Classifies(options, ctx, result) THEN kind ELSE ""
        /\ Attr(span, "error.type") = (IF result.isError THEN "tool_error" ELSE "")
        /\ span.status = IF result.isError THEN "ERROR" ELSE "UNSET"
    BY <1>5 DEF PySpanTells, ErrorType
  <2>3. attached = "calls" <=> Annotates(outcome)
    BY <1>5 DEF Annotates
  <2>4. CASE result.isError
    <3>1. outcome.truth \in FailureKind /\ result.resultType # "input_required"
      BY <2>1, <2>4, OtherCategories
    <3>2. kind \in FailureKind /\ kind # ""
      BY <1>5, <2>4, KindIsTrue, FailureKindsAreErrors
    <3>3. ResultType(span) # "input_required"
      BY <1>1, <3>1
    <3>4. Classify(span) =
            IF Annotates(outcome) /\ Classifies(options, ctx, result) THEN kind ELSE "tool_error"
      BY <1>2, <2>2, <2>4, <3>2, <3>3
    <3>5. Classify(span) \in FailureKind
      BY <3>2, <3>4 DEF FailureKind
    <3>6. attached = "calls" /\ Renders(options, ctx, result) /\ result.contentIsList
            => Classify(span) = kind
      BY <2>3, <2>4, <3>1, <3>4 DEF Classifies
    <3> QED BY <1>5, <2>4, <3>1, <3>5, <3>6, KindIsTrue, FailureKindsAreErrors
  <2>5. CASE ~ result.isError
    <3>1. outcome.truth \in {"ok", "pending_input"}
      BY <2>1, <2>5
    <3>2. ~ Classifies(options, ctx, result)
      BY <2>5 DEF Classifies
    <3>3. Classify(span) = IF ResultType(span) = "input_required" THEN "pending_input" ELSE "ok"
      BY <1>2, <2>2, <2>5, <3>2
    <3>4. attached = "calls" /\ Renders(options, ctx, result) => Classify(span) = outcome.truth
      BY <1>1, <2>1, <2>3, <3>1, <3>3
    <3> QED BY <3>1, <3>3, <3>4, OtherCategories
  <2> QED BY <2>4, <2>5
<1> QED BY <1>3, <1>4, <1>5 DEF PythonOutcome

\* ... and of a JavaScript call's.
LEMMA JsCategory ==
  ASSUME NEW span, NEW attributes, NEW outcome, JsOutcome(outcome),
         JsSpanTells(span, attributes, outcome)
  PROVE  /\ outcome.truth # "cancelled" => (IsError(Classify(span)) <=> Failed(outcome.truth))
         /\ outcome.truth \notin {"cancelled", "server_exception", "protocol_error"}
              /\ JsFirstText(outcome.result) = FirstText(outcome.result)
              => Classify(span) = outcome.truth
<1> DEFINE text   == JsFirstText(outcome.result)
           failing == outcome.ends = "raises" \/ outcome.result.isError
           kind   == JsClassifyResult(outcome).kind
<1>1. kind = IF ~ failing THEN "ok"
             ELSE IF text.says = <<>> THEN "unclassified"
             ELSE IF Says(text, "Tool x not found") \/ Says(text, "Tool x disabled")
             THEN "unknown_tool"
             ELSE IF Says(text, "Input validation error: Invalid arguments for tool")
             THEN "invalid_arguments"
             ELSE "tool_error"
  BY JsClassifyCases DEF JsClassifyResult
<1>2. failing <=> outcome.result.isError
  BY DEF JsOutcome
<1> HIDE DEF failing, kind
<1>3. /\ failing => kind \in FailureKind
      /\ ~ failing => kind = "ok"
  <2> HIDE DEF text
  <2>1. CASE failing
    BY <1>1, <2>1 DEF FailureKind
  <2>2. CASE ~ failing
    BY <1>1, <2>2
  <2> QED BY <2>1, <2>2
<1>4. kind # ""
  BY <1>3, FailureKindsAreErrors
<1>5. ResultType(span) = ""
  BY ResultTypeCases DEF JsSpanTells
<1>6. Classify(span) = kind
  BY <1>4, <1>5, ClassifyCases DEF JsSpanTells, kind
<1>7. outcome.truth # "cancelled" => (Failed(outcome.truth) <=> failing)
  BY <1>2, FailureKindsAreErrors, OtherCategories DEF JsOutcome
<1>8. ASSUME outcome.truth \notin {"cancelled", "server_exception", "protocol_error"},
             JsFirstText(outcome.result) = FirstText(outcome.result)
      PROVE  kind = outcome.truth
  <2>1. CASE outcome.truth = "ok"
    BY <1>2, <1>3, <2>1, OtherCategories DEF JsOutcome
  <2>2. CASE outcome.truth # "ok"
    <3>1. outcome.truth \in FailureKind \ {"server_exception"} /\ failing
      BY <1>2, <1>8, <2>2 DEF JsOutcome
    <3>2. /\ outcome.truth = "unclassified" <=> text.says = <<>>
          /\ outcome.truth = "unknown_tool"
               <=> Says(text, "Tool x not found") \/ Says(text, "Tool x disabled")
          /\ outcome.truth = "invalid_arguments"
               <=> Says(text, "Input validation error: Invalid arguments for tool")
      BY <1>8, <3>1 DEF JsOutcome
    <3> HIDE DEF text
    <3> QED BY <1>1, <3>1, <3>2 DEF FailureKind
  <2> QED BY <2>1, <2>2
<1> QED BY <1>3, <1>6, <1>7, <1>8, FailureKindsAreErrors, OtherCategories

\* The kind the JavaScript SDK stamps, and that it is "ok" for what did not fail.
LEMMA JsKindTells ==
  ASSUME NEW outcome, JsOutcome(outcome)
  PROVE  LET kind == JsClassifyResult(outcome).kind
         IN  kind \in JsKinds /\ (kind # "ok" => outcome.result.isError)
<1> DEFINE text   == JsFirstText(outcome.result)
           failing == outcome.ends = "raises" \/ outcome.result.isError
           kind   == JsClassifyResult(outcome).kind
<1>1. kind = IF ~ failing THEN "ok"
             ELSE IF text.says = <<>> THEN "unclassified"
             ELSE IF Says(text, "Tool x not found") \/ Says(text, "Tool x disabled")
             THEN "unknown_tool"
             ELSE IF Says(text, "Input validation error: Invalid arguments for tool")
             THEN "invalid_arguments"
             ELSE "tool_error"
  BY JsClassifyCases DEF JsClassifyResult
<1>2. failing => outcome.result.isError
  BY DEF JsOutcome
<1> HIDE DEF text, failing, kind
<1>3. kind \in JsKinds
  BY <1>1 DEF JsKinds
<1>4. kind # "ok" => outcome.result.isError
  BY <1>1, <1>2
<1> QED BY <1>3, <1>4 DEF kind

\* What the span of a call that has one tells, and of which outcome.
SpanTells(span, attributes, ctx, outcome) ==
  /\ Open(attributes)
  /\ \/ /\ sdk = "python" /\ PythonOutcome(outcome)
        /\ PySpanTells(span, attributes, ctx, outcome)
     \/ /\ sdk = "javascript" /\ attached = "calls" /\ JsOutcome(outcome)
        /\ JsSpanTells(span, attributes, outcome)

LEMMA SpansTell ==
  ASSUME SetupInv, CallsInv, NEW c \in WithSpan
  PROVE  /\ served # ""
         /\ \E attributes :
              SpanTells(calls[c].span, attributes, calls[c].ctx, calls[c].outcome)
<1> DEFINE span    == calls[c].span
           ctx     == calls[c].ctx
           outcome == calls[c].outcome
<1>1. served # "" /\ SpanIsClosed(calls[c]) /\ span # NoSpan
  BY DEF WithSpan, Done, CallsInv, CallInv
<1>2. PICK attributes : Open(attributes) /\ span = Closed(attributes, ctx, outcome)
  BY <1>1 DEF SpanIsClosed
<1>3. outcome \in Outcomes[sdk] /\ sdk \in {"python", "javascript"}
  BY <1>1 DEF SpanIsClosed, SetupInv
<1> HIDE DEF span, ctx, outcome
<1>4. CASE sdk = "python"
  <2>1. PythonOutcome(outcome) /\ span = PySpan(attributes, ctx, outcome)
    BY <1>2, <1>3, <1>4, OutcomesAssumption DEF Closed
  <2>2. PySpanTells(span, attributes, ctx, outcome)
    BY <1>2, <2>1, PyVerdict
  <2>3. SpanTells(span, attributes, ctx, outcome)
    BY <1>2, <1>4, <2>1, <2>2 DEF SpanTells
  <2> QED BY <1>1, <2>3 DEF span, ctx, outcome
<1>5. CASE sdk = "javascript"
  <2>1. JsOutcome(outcome) /\ span = JsSpan(attributes, outcome)
    BY <1>2, <1>3, <1>5, OutcomesAssumption DEF Closed
  <2>2. attached = "calls" /\ span = JsFinished(attributes, options, outcome)
    BY <1>1, <2>1 DEF JsSpan
  <2>3. JsSpanTells(span, attributes, outcome)
    BY <1>2, <2>2, JsVerdict
  <2>4. SpanTells(span, attributes, ctx, outcome)
    BY <1>2, <1>5, <2>1, <2>2, <2>3 DEF SpanTells
  <2> QED BY <1>1, <2>4 DEF span, ctx, outcome
<1> QED BY <1>3, <1>4, <1>5

LEMMA SpansCarryTheTransport ==
  ASSUME SetupInv, CallsInv
  PROVE  OnlyGuessesAreWrong
<1> SUFFICES ASSUME NEW c \in WithSpan, Attr(calls[c].span, "network.transport") # ""
             PROVE  LET stamped == Attr(calls[c].span, "network.transport")
                    IN  /\ told # "" => stamped = told
                        /\ told = "" => stamped = served \/ IsGuess(stamped)
  BY DEF OnlyGuessesAreWrong
<1> DEFINE stamped == Attr(calls[c].span, "network.transport")
<1>1. PICK attributes : SpanTells(calls[c].span, attributes, calls[c].ctx, calls[c].outcome)
  BY SpansTell
<1>2. stamped # ""
  OBVIOUS
<1>3. CASE sdk = "python"
  <2>1. "network.transport" \notin DOMAIN attributes
    BY <1>1, <1>3 DEF SpanTells, Open
  <2>2. stamped = transport.value /\ attached = "calls"
    BY <1>1, <1>3, <2>1 DEF SpanTells, PySpanTells
  <2> HIDE DEF stamped
  <2>3. /\ told # "" => stamped = told
        /\ told = "" => stamped = served \/ IsGuess(stamped)
    BY <1>2, <1>3, <2>2 DEF SetupInv, NamedOrGuessed, IsGuess
  <2> QED BY <2>3 DEF stamped
<1>4. CASE sdk = "javascript"
  <2>1. attached = "calls" /\ stamped = Val(attributes, "network.transport")
    BY <1>1, <1>4 DEF SpanTells, JsSpanTells
  <2>2. stamped = transport.value
    BY <1>1, <2>1 DEF SpanTells, Open, Val
  <2> HIDE DEF stamped
  <2>3. /\ told # "" => stamped = told
        /\ told = "" => stamped = served \/ IsGuess(stamped)
    BY <1>2, <1>4, <2>2 DEF SetupInv, NamedOrGuessed, IsGuess
  <2> QED BY <2>3 DEF stamped
<1> QED BY <1>3, <1>4 DEF SetupInv

LEMMA SpansSampleWholeCalls ==
  ASSUME SetupInv, CallsInv
  PROVE  SamplesAreWholeCalls
<1> SUFFICES ASSUME NEW c \in WithSpan, attached = "calls", sdk = "python", ~ Unrendered(c),
                    Truth(c) \in {"cancelled", "pending_input"}
             PROVE  ~ IsLatencyEligible(calls[c].span)
  BY DEF SamplesAreWholeCalls
<1> DEFINE span    == calls[c].span
           ctx     == calls[c].ctx
           outcome == calls[c].outcome
<1>1. PICK attributes : PythonOutcome(outcome) /\ PySpanTells(span, attributes, ctx, outcome)
  BY SpansTell DEF SpanTells
<1>2. Renders(options, ctx, outcome.result)
  BY DEF Unrendered, Result, Renders, RendersRequest
<1>3. outcome.truth \in {"cancelled", "pending_input"}
  BY DEF Truth
<1> HIDE DEF span, ctx, outcome
<1>4. CASE outcome.ends = "cancelled"
  BY <1>1, <1>4 DEF PySpanTells, IsLatencyEligible, span
<1>5. CASE outcome.ends = "returns"
  <2>1. outcome.truth = "pending_input"
    BY <1>1, <1>3, <1>5 DEF PythonOutcome
  <2>2. outcome.result.resultType = "input_required"
    BY <1>1, <1>5, <2>1 DEF PythonOutcome
  <2>3. Attr(span, "mcp.result.type") = "" /\ Attr(span, "mcpobs.result.type") = "input_required"
    BY <1>1, <1>2, <1>5, <2>2 DEF PySpanTells, Annotates
  <2>4. ResultType(span) = "input_required"
    BY <2>3, ResultTypeCases
  <2> QED BY <2>4 DEF IsLatencyEligible, span
<1>6. outcome.ends # "raises"
  BY <1>1, <1>3 DEF PythonOutcome
<1> QED BY <1>1, <1>4, <1>5, <1>6 DEF PythonOutcome

LEMMA SpansTellFailures ==
  ASSUME SetupInv, CallsInv
  PROVE  ErrorMeansFailed /\ CategoryIsTrue
<1> SUFFICES
      ASSUME NEW c \in WithSpan
      PROVE  /\ sdk = "python" \/ Truth(c) # "cancelled" =>
                  (IsError(Category(c)) <=> Truth(c) \notin {"ok", "cancelled", "pending_input"})
             /\ \/ attached # "calls"
                \/ sdk = "python" /\ (Unrendered(c) \/ ~ Result(c).contentIsList)
                \/ /\ Truth(c) = "server_exception"
                   /\ Says(FirstText(Result(c)), "1 validation error for ")
                \/ /\ sdk = "javascript"
                   /\ Truth(c) \in {"cancelled", "server_exception", "protocol_error"}
                \/ sdk = "javascript" /\ JsFirstText(Result(c)) # FirstText(Result(c))
                \/ Category(c) = Truth(c)
  BY DEF ErrorMeansFailed, CategoryIsTrue
<1> DEFINE span    == calls[c].span
           ctx     == calls[c].ctx
           outcome == calls[c].outcome
<1>1. PICK attributes : SpanTells(span, attributes, ctx, outcome)
  BY SpansTell
<1>2. Truth(c) = outcome.truth /\ Result(c) = outcome.result /\ Category(c) = Classify(span)
  BY DEF Truth, Result, Category
<1>3. ~ Unrendered(c) <=> Renders(options, ctx, outcome.result)
  BY DEF Unrendered, Result, Renders, RendersRequest
<1> HIDE DEF span, ctx, outcome
<1>4. CASE sdk = "python"
  <2>1. PythonOutcome(outcome) /\ PySpanTells(span, attributes, ctx, outcome)
    BY <1>1, <1>4 DEF SpanTells
  <2>2. IsError(Classify(span)) <=> Failed(outcome.truth)
    BY <2>1, PyCategory
  <2>3. attached = "calls" /\ Renders(options, ctx, outcome.result)
          /\ outcome.result.contentIsList
          /\ ~ (outcome.truth = "server_exception"
                  /\ Says(FirstText(outcome.result), "1 validation error for "))
          => Classify(span) = outcome.truth
    BY <2>1, PyCategory
  <2> QED BY <1>2, <1>3, <1>4, <2>2, <2>3 DEF Failed
<1>5. CASE sdk = "javascript"
  <2>1. JsOutcome(outcome) /\ JsSpanTells(span, attributes, outcome)
    BY <1>1, <1>5 DEF SpanTells
  <2>2. outcome.truth # "cancelled" => (IsError(Classify(span)) <=> Failed(outcome.truth))
    BY <2>1, JsCategory
  <2>3. outcome.truth \notin {"cancelled", "server_exception", "protocol_error"}
          /\ JsFirstText(outcome.result) = FirstText(outcome.result)
          => Classify(span) = outcome.truth
    BY <2>1, JsCategory
  <2> QED BY <1>2, <1>5, <2>2, <2>3 DEF Failed
<1> QED BY <1>1, <1>4, <1>5 DEF SpanTells

LEMMA SpansKeepDetails ==
  ASSUME SetupInv, CallsInv
  PROVE  /\ DetailOnFailureOnly
         /\ \A c \in WithSpan :
              Attr(calls[c].span, "mcpobs.failure.kind") \in FailureKind \cup JsKinds \cup {""}
<1> SUFFICES
      ASSUME NEW c \in WithSpan
      PROVE  /\ "mcpobs.failure.detail" \in DOMAIN calls[c].span.attributes =>
                  options.detail /\ Result(c).isError
             /\ Attr(calls[c].span, "mcpobs.failure.kind") \in FailureKind \cup JsKinds \cup {""}
  BY DEF DetailOnFailureOnly
<1> DEFINE span    == calls[c].span
           ctx     == calls[c].ctx
           outcome == calls[c].outcome
<1>1. PICK attributes : SpanTells(span, attributes, ctx, outcome)
  BY SpansTell
<1>2. Result(c) = outcome.result
  BY DEF Result
<1> HIDE DEF span, ctx, outcome
<1>3. CASE sdk = "python"
  <2>1. PythonOutcome(outcome) /\ PySpanTells(span, attributes, ctx, outcome)
    BY <1>1, <1>3 DEF SpanTells
  <2>2. Classifies(options, ctx, outcome.result) => outcome.result.isError
    BY DEF Classifies
  <2>3. "mcpobs.failure.detail" \in DOMAIN span.attributes =>
          options.detail /\ outcome.result.isError
    BY <2>1, <2>2 DEF PySpanTells
  <2>4. Annotates(outcome) /\ Classifies(options, ctx, outcome.result)
          => KindOf(FirstText(outcome.result)) \in FailureKind
    BY <2>1, <2>2, KindIsTrue DEF Annotates
  <2>5. Attr(span, "mcpobs.failure.kind") \in FailureKind \cup {""}
    BY <2>1, <2>4 DEF PySpanTells
  <2> QED BY <1>2, <2>3, <2>5 DEF span
<1>4. CASE sdk = "javascript"
  <2>1. JsOutcome(outcome) /\ JsSpanTells(span, attributes, outcome)
    BY <1>1, <1>4 DEF SpanTells
  <2> QED BY <1>2, <2>1, JsKindTells DEF JsSpanTells, span
<1> QED BY <1>1, <1>3, <1>4 DEF SpanTells

-----------------------------------------------------------------------------
(***************************************************************************)
(* The theorems.                                                           *)
(***************************************************************************)

\* SetupAlways: the transport in use is the one somebody named, else the one run() was
\* called with, else a guess, whatever order the server is instrumented, wrapped and
\* run in.
THEOREM SetupAlways == CaptureSpec => []SetupInv
<1>1. SetupInv /\ [CaptureNext]_<<captureVars, streamVars>> => SetupInv'
  BY SetupNext
<1> QED BY <1>1, SetupInit, PTL DEF CaptureSpec

\* CallsAlways: what is on a span while its call runs is no verdict, and what is on it
\* at the end is what its SDK makes of that and of the outcome.
THEOREM CallsAlways == CaptureSpec => []CallsInv
<1>1. SetupInv /\ CallsInv /\ [CaptureNext]_<<captureVars, streamVars>> => CallsInv'
  BY CallsNext
<1> QED BY <1>1, SetupAlways, CallsInit, PTL DEF CaptureSpec

\* TransportNamed: for any order of startup and any transport the server turns out to
\* run on, a span carries the transport somebody named, else the one run() was called
\* with; a wrong one is one of the SDKs' two guesses, where there was neither.
THEOREM TransportNamed == CaptureSpec => []OnlyGuessesAreWrong
<1>1. SetupInv /\ CallsInv => OnlyGuessesAreWrong
  BY SpansCarryTheTransport
<1> QED BY <1>1, SetupAlways, CallsAlways, PTL

\* SamplesWhole: no cancelled call and no interim round is a latency sample.
THEOREM SamplesWhole == CaptureSpec => []SamplesAreWholeCalls
<1>1. SetupInv /\ CallsInv => SamplesAreWholeCalls
  BY SpansSampleWholeCalls
<1> QED BY <1>1, SetupAlways, CallsAlways, PTL

\* FailuresTrue: whether a stored call failed is never in doubt, its category is the
\* one an observer inside the server would give it, and no text of a call that did
\* not fail is captured.
THEOREM FailuresTrue == CaptureSpec => []FailuresAreTrue
<1>1. CaptureSpec => []StreamTypeOK
  BY CaptureStreams, StreamTypeCorrect, PTL
<1>2. SetupInv /\ CallsInv /\ StreamTypeOK => FailuresAreTrue
  <2> SUFFICES ASSUME SetupInv, CallsInv, StreamTypeOK PROVE FailuresAreTrue
    OBVIOUS
  <2>1. ASSUME NEW c \in Running
        PROVE  DOMAIN calls[c].attributes \subseteq
                 SdkKeys \cup HelperKeys \cup {CustomKey(key) : key \in CustomKeys}
    <3>1. DOMAIN calls[c].attributes \subseteq OpenKeys \cup CustomNames
      BY <2>1 DEF Running, CallsInv, CallInv, Open
    <3>2. OpenKeys \subseteq SdkKeys \cup HelperKeys
      BY DEF OpenKeys, SdkKeys, HelperKeys
    <3> QED BY <3>1, <3>2 DEF CustomNames
  <2>2. CaptureTypeOK
    BY <2>1, SpansKeepDetails DEF CaptureTypeOK, SetupInv
  <2> QED BY <2>2, SpansKeepDetails, SpansTellFailures DEF FailuresAreTrue
<1> QED BY <1>1, <1>2, SetupAlways, CallsAlways, PTL
=============================================================================
