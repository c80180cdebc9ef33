---------------------------- MODULE IntakeProofs ----------------------------
(***************************************************************************)
(* Theorems about Intake, for any number of gateway processes, bodies,     *)
(* posts and faults, any limits and both ways of storing: types, that what *)
(* is acknowledged is stored, that a retry stores nothing again unless a   *)
(* soft limit was passed, and that the counters hold their limits.         *)
(***************************************************************************)
EXTENDS Intake, FiniteSetTheorems, NaturalsInduction, WellFoundedInduction, TLAPS

(* Windows, the payloads and the limits are numbers.                       *)
LEMMA LimitType == ASSUME NEW w \in Windows PROVE LimitOf(w) \in Nat
BY LimitsAssumption DEF LimitOf

LEMMA CountType ==
    ASSUME TypeOK, NEW g \in Gateways, call[g].pc # "idle"
    PROVE  /\ Payload(g) \in [parses : BOOLEAN, good : Nat, bad : Nat]
           /\ SpanCount(Payload(g)) \in Nat
           /\ call[g].body \in 1 .. Len(bodies) /\ call[g].body \in 1 .. MaxBodies
<1>1. call[g].body \in 1 .. Len(bodies) /\ Len(bodies) <= MaxBodies
    BY DEF TypeOK
<1>2. bodies[call[g].body] \in Payloads
    BY <1>1 DEF TypeOK
<1>3. call[g].body \in 1 .. MaxBodies
    BY <1>1, BoundsAssumption
<1> QED BY <1>1, <1>2, <1>3, PayloadsAssumption DEF Payload, SpanCount

LEMMA WindowType ==
    ASSUME TypeOK, NEW g \in Gateways
    PROVE  MinuteOf(g) \in Windows /\ DayOf(g) \in Windows
<1>1. call[g].at \in Clock
    BY DEF TypeOK, Call
<1> QED BY <1>1 DEF MinuteOf, DayOf, Windows, Clock

(* Counting only adds, and what incr returns is in a counter.              *)
LEMMA PlusType ==
    ASSUME NEW counters \in [Counters -> [Windows -> Nat]],
           NEW c \in Counters, NEW w \in Windows, NEW n \in Nat
    PROVE  /\ Plus(counters, c, w, n) \in [Counters -> [Windows -> Nat]]
           /\ \A e \in Counters, v \in Windows :
                counters[e][v] <= Plus(counters, c, w, n)[e][v]
           /\ Plus(counters, c, w, n)[c][w] = counters[c][w] + n
BY DEF Plus

LEMMA CountInType ==
    ASSUME TypeOK, NEW g \in Gateways, call[g].pc # "idle", NEW w \in Windows,
           NEW c \in {Shared, g}, CountIn(c, g, w)
    PROVE  /\ used' \in [Counters -> [Windows -> Nat]]
           /\ \A e \in Counters, v \in Windows : used[e][v] <= used'[e][v]
           /\ c \in Counters
           /\ Total(used[c][w], SpanCount(Payload(g))) \in Nat
           /\ Total(used[c][w], SpanCount(Payload(g))) <= used'[c][w]
           /\ faults' \in Nat
<1> DEFINE n == SpanCount(Payload(g))
<1>0. /\ n \in Nat /\ c \in Counters /\ Shared \in Counters
      /\ used \in [Counters -> [Windows -> Nat]] /\ faults \in Nat
    BY CountType DEF TypeOK, Counters
<1>1. \E reached \in {used, Plus(used, Shared, w, n)} :
        \/ used' = Plus(reached, c, w, n)
        \/ c = Shared /\ used' = Plus(used, c, w, n)
    BY DEF CountIn
<1>2. PICK reached \in {used, Plus(used, Shared, w, n)} : used' = Plus(reached, c, w, n)
    BY <1>1
<1> HIDE DEF n
<1>3. /\ reached \in [Counters -> [Windows -> Nat]]
      /\ \A e \in Counters, v \in Windows : used[e][v] <= reached[e][v]
  <2>1. CASE reached = used
    BY <2>1, <1>0
  <2>2. CASE reached = Plus(used, Shared, w, n)
    BY <2>2, <1>0, PlusType
  <2> QED BY <2>1, <2>2
<1>4. /\ used' \in [Counters -> [Windows -> Nat]]
      /\ \A e \in Counters, v \in Windows : reached[e][v] <= used'[e][v]
      /\ used'[c][w] = reached[c][w] + n
    BY <1>2, <1>3, <1>0, PlusType
<1>5. \A e \in Counters, v \in Windows : used[e][v] <= used'[e][v]
  <2>1. ASSUME NEW e \in Counters, NEW v \in Windows
        PROVE used[e][v] <= used'[e][v]
    <3>1. used[e][v] \in Nat /\ reached[e][v] \in Nat /\ used'[e][v] \in Nat
        BY <1>0, <1>3, <1>4
    <3>2. used[e][v] <= reached[e][v] /\ reached[e][v] <= used'[e][v]
        BY <1>3, <1>4
    <3> QED BY <3>1, <3>2
  <2> QED BY <2>1
<1>6. Total(used[c][w], n) \in Nat /\ Total(used[c][w], n) <= used'[c][w]
  <2>1. used[c][w] \in Nat /\ reached[c][w] \in Nat /\ used[c][w] <= reached[c][w]
      BY <1>0, <1>3
  <2> QED BY <2>1, <1>4, <1>0 DEF Total
<1>7. faults' \in Nat
    BY <1>0 DEF CountIn, Fails
<1> QED BY <1>0, <1>4, <1>5, <1>6, <1>7 DEF n

LEMMA ChargeType ==
    ASSUME NEW counts \in [Windows -> Nat], NEW v \in Windows, NEW w \in Windows, NEW n \in Nat
    PROVE  [counts EXCEPT ![v] = @ + n, ![w] = @ + n] \in [Windows -> Nat]
<1>1. [counts EXCEPT ![v] = @ + n] \in [Windows -> Nat]
    OBVIOUS
<1> QED BY <1>1

(* What an answer leaves behind.                                           *)
LEMMA AnswerType ==
    ASSUME TypeOK, NEW g \in Gateways, call[g].pc # "idle", NEW final, Answer(g, final)
    PROVE  /\ call' = [call EXCEPT ![g] = NoCall]
           /\ call' \in [Gateways -> Call]
           /\ settled' \in SUBSET (1 .. MaxBodies)
<1>1. NoCall \in Call
    BY BoundsAssumption DEF NoCall, Call, Phase, Clock
<1>2. call' = [call EXCEPT ![g] = NoCall]
    BY DEF Answer
<1>3. call' \in [Gateways -> Call]
    BY <1>1, <1>2 DEF TypeOK
<1>4. settled \cup {call[g].body} \in SUBSET (1 .. MaxBodies)
    BY CountType DEF TypeOK
<1>5. settled' \in SUBSET (1 .. MaxBodies)
    BY <1>4 DEF Answer, TypeOK
<1> QED BY <1>2, <1>3, <1>5

(* A body that has been handled in lite mode: the rows are in, or nothing  *)
(* has changed.                                                            *)
LEMMA InsertedType ==
    ASSUME copies \in [Stamped -> Nat], NEW s \in Stamped
    PROVE  /\ Inserted(s) \in [Stamped -> Nat]
           /\ \A e \in Stamped : copies[e] <= Inserted(s)[e]
           /\ Inserted(s)[s] > 0
           /\ \A e \in Stamped : e # s => Inserted(s)[e] = copies[e]
           /\ copies[s] <= 1 => Inserted(s)[s] <= 1
<1>1. CASE copies[s] > 0
    BY <1>1 DEF Inserted
<1>2. CASE ~(copies[s] > 0)
    BY <1>2 DEF Inserted
<1> QED BY <1>1, <1>2

LEMMA ForwardedType ==
    ASSUME forwarded \in [1 .. MaxBodies -> Nat], NEW g, call[g].body \in 1 .. MaxBodies
    PROVE  /\ Forwarded(g) \in [1 .. MaxBodies -> Nat]
           /\ \A r \in 1 .. MaxBodies : forwarded[r] <= Forwarded(g)[r]
           /\ Forwarded(g)[call[g].body] > 0
<1> DEFINE r == call[g].body
<1>1. Forwarded(g) = [forwarded EXCEPT ![r] = forwarded[r] + 1] /\ forwarded[r] \in Nat
    BY DEF Forwarded
<1>2. r \in 1 .. MaxBodies
    OBVIOUS
<1> HIDE DEF r
<1>3. Forwarded(g) \in [1 .. MaxBodies -> Nat] /\ Forwarded(g)[r] = forwarded[r] + 1
    BY <1>1, <1>2
<1>4. \A q \in 1 .. MaxBodies : q # r => Forwarded(g)[q] = forwarded[q]
    BY <1>1
<1>5. ASSUME NEW q \in 1 .. MaxBodies PROVE forwarded[q] <= Forwarded(g)[q]
  <2>1. forwarded[q] \in Nat /\ forwarded[r] \in Nat
      BY <1>2
  <2> QED BY <1>3, <1>4, <2>1
<1>6. Forwarded(g)[r] > 0
    BY <1>1, <1>3
<1> QED BY <1>3, <1>5, <1>6 DEF r

LEMMA StampedType ==
    ASSUME TypeOK, NEW g \in Gateways, call[g].pc # "idle"
    PROVE  <<call[g].body, call[g].soft>> \in Stamped
<1>1. call[g].soft \in BOOLEAN
    BY DEF TypeOK, Call
<1> QED BY <1>1, CountType DEF Stamped
-----------------------------------------------------------------------------
(* The handlers that are busy keep what TypeOK says of them.               *)
HandlersOK ==
    \A g \in Gateways :
        /\ call[g].pc # "idle" => call[g].body \in 1 .. Len(bodies)
        /\ call[g].pc = "store" => lite
        /\ call[g].pc = "collector" => ~lite

LEMMA AnswerKeepsHandlers ==
    ASSUME TypeOK, NEW g \in Gateways, call' = [call EXCEPT ![g] = NoCall],
           bodies' = bodies, lite' = lite
    PROVE  HandlersOK'
BY DEF HandlersOK, TypeOK, NoCall

(* TypeCorrect: every variable has its type, and a handler is where its    *)
(* mode sends it, for all constants.                                       *)
THEOREM TypeCorrect == Spec => []TypeOK
<1>1. Init => TypeOK
  <2> SUFFICES ASSUME Init PROVE TypeOK
    OBVIOUS
  <2> USE DEF Init
  <2>1. NoCall \in Call /\ NoCall.pc = "idle"
      BY BoundsAssumption DEF NoCall, Call, Phase, Clock
  <2>2. call \in [Gateways -> Call]
      BY <2>1
  <2>3. /\ now \in Clock /\ now.d <= now.m
        /\ settled \in SUBSET (1 .. MaxBodies) /\ acked \in SUBSET (1 .. Len(bodies))
      BY BoundsAssumption DEF Clock
  <2>4. bodies \in Seq(Payloads) /\ Len(bodies) <= MaxBodies
      BY BoundsAssumption
  <2>5. /\ used \in [Counters -> [Windows -> Nat]]
        /\ checked \in [Windows -> Nat] /\ allowed \in [Windows -> Nat]
      BY DEF NoCounts
  <2>6. copies \in [Stamped -> Nat] /\ forwarded \in [1 .. MaxBodies -> Nat]
      OBVIOUS
  <2>7. \A g \in Gateways : call[g].pc = "idle"
      BY <2>1
  <2> QED BY <2>2, <2>3, <2>4, <2>5, <2>6, <2>7 DEF TypeOK
<1>2. TypeOK /\ [Next]_vars => TypeOK'
  <2> SUFFICES ASSUME TypeOK, [Next]_vars PROVE TypeOK'
    OBVIOUS
  <2>0. HandlersOK
      BY DEF TypeOK, HandlersOK
  <2>1. CASE NewBody
    <3>1. PICK m \in Payloads : bodies' = Append(bodies, m)
        BY <2>1 DEF NewBody
    <3>2. /\ bodies' \in Seq(Payloads) /\ Len(bodies') = Len(bodies) + 1
          /\ Len(bodies') <= MaxBodies
        BY <3>1, <2>1, BoundsAssumption DEF NewBody, TypeOK
    <3>3. 1 .. Len(bodies) \subseteq 1 .. Len(bodies')
        BY <3>2 DEF TypeOK
    <3> QED BY <2>1, <3>2, <3>3 DEF NewBody, TypeOK, quotaVars, storeVars
  <2>2. CASE MinuteTurns
    <3>1. now' \in Clock /\ now'.d <= now'.m
        BY <2>2, BoundsAssumption DEF MinuteTurns, TypeOK, Clock
    <3> QED BY <2>2, <3>1 DEF MinuteTurns, TypeOK, clientVars, quotaVars, storeVars
  <2>3. ASSUME NEW g \in Gateways, Post(g) PROVE TypeOK'
    <3>1. PICK r \in DOMAIN bodies \ settled :
            IF bodies[r].parses
            THEN /\ call' = [call EXCEPT ![g] = [pc |-> FirstPhase(bodies[r]), body |-> r,
                                              at |-> now, inMinute |-> 0, soft |-> FALSE]]
                 /\ UNCHANGED settled
            ELSE UNCHANGED call /\ settled' \in {settled, settled \cup {r}}
        BY <2>3 DEF Post
    <3>2. r \in 1 .. Len(bodies) /\ r \in 1 .. MaxBodies
        BY BoundsAssumption DEF TypeOK
    <3>3. settled' \in SUBSET (1 .. MaxBodies)
        BY <3>1, <3>2 DEF TypeOK
    <3>4. DEFINE pc == FirstPhase(bodies[r])
                 new == [pc |-> pc, body |-> r, at |-> now, inMinute |-> 0, soft |-> FALSE]
    <3>5. pc \in Phase /\ (pc = "store" => lite) /\ (pc = "collector" => ~lite)
        BY DEF FirstPhase, AfterQuota, Phase
    <3> HIDE DEF pc
    <3>6. new \in Call /\ new.pc = pc /\ new.body = r
      <4>1. now \in Clock
          BY DEF TypeOK
      <4>2. r \in 0 .. MaxBodies
          BY <3>2, BoundsAssumption
      <4> QED BY <4>1, <4>2, <3>5 DEF Call
    <3>7. call' = call \/ call' = [call EXCEPT ![g] = new]
        BY <3>1 DEF pc
    <3> HIDE DEF new
    <3>8. call' \in [Gateways -> Call]
        BY <3>6, <3>7 DEF TypeOK
    <3>9. \A h \in Gateways : call'[h] = call[h] \/ call'[h] = new
        BY <3>7 DEF TypeOK
    <3>10. HandlersOK'
        BY <3>9, <3>5, <3>6, <3>2, <2>0, <2>3 DEF HandlersOK, Post
    <3>11. posts' \in Nat
        BY <2>3 DEF Post, TypeOK
    <3> QED BY <2>3, <3>3, <3>8, <3>10, <3>11
            DEF Post, TypeOK, HandlersOK, quotaVars, storeVars
  <2>4. ASSUME NEW g \in Gateways, CountMinute(g) PROVE TypeOK'
    <3>1. PICK c \in {Shared, g} :
            /\ CountIn(c, g, MinuteOf(g))
            /\ call' = [call EXCEPT ![g].pc = "day",
                         ![g].inMinute = Total(used[c][MinuteOf(g)], SpanCount(Payload(g)))]
        BY <2>4 DEF CountMinute
    <3>2. call[g].pc = "minute" /\ call[g].pc # "idle"
        BY <2>4 DEF CountMinute
    <3>3. /\ used' \in [Counters -> [Windows -> Nat]] /\ faults' \in Nat
          /\ Total(used[c][MinuteOf(g)], SpanCount(Payload(g))) \in Nat
        BY <3>1, <3>2, CountInType, WindowType
    <3> DEFINE total == Total(used[c][MinuteOf(g)], SpanCount(Payload(g)))
    <3>C. call' = [call EXCEPT ![g].pc = "day", ![g].inMinute = total]
        BY <3>1
    <3>T. total \in Nat
        BY <3>3
    <3> HIDE DEF total
    <3>4. call' \in [Gateways -> Call]
        BY ZenonT(30), <3>C, <3>T DEF TypeOK, Call, Phase
    <3>5. \A h \in Gateways : \/ call'[h] = call[h]
                              \/ call'[h].pc = "day" /\ call'[h].body = call[h].body /\ h = g
        BY <3>C DEF TypeOK, Call
    <3>6. HandlersOK'
        BY <3>2, <3>5, <2>0, <2>4 DEF HandlersOK, CountMinute, clientVars
    <3> QED BY <2>4, <3>3, <3>4, <3>6
            DEF CountMinute, TypeOK, HandlersOK, clientVars, storeVars
  <2>5. ASSUME NEW g \in Gateways, CountDay(g) PROVE TypeOK'
    <3> DEFINE n == SpanCount(Payload(g))
               Charge(counts) == [counts EXCEPT ![MinuteOf(g)] = @ + n, ![DayOf(g)] = @ + n]
    <3>1. call[g].pc = "day" /\ call[g].pc # "idle"
        BY <2>5 DEF CountDay
    <3>2. n \in Nat
        BY <3>1, CountType
    <3>3. checked' = Charge(checked) /\ allowed' \in {allowed, Charge(allowed)}
        BY <2>5 DEF CountDay
    <3>4. checked' \in [Windows -> Nat] /\ allowed' \in [Windows -> Nat]
      <4>1. checked \in [Windows -> Nat] /\ allowed \in [Windows -> Nat]
          BY DEF TypeOK
      <4>2. Charge(checked) \in [Windows -> Nat] /\ Charge(allowed) \in [Windows -> Nat]
          BY <4>1, <3>2, WindowType, ChargeType
      <4> QED BY <3>3, <4>1, <4>2
    <3>5. PICK c \in {Shared, g} :
            /\ CountIn(c, g, DayOf(g))
            /\ \/ Answer(g, FALSE)
               \/ /\ call' = [call EXCEPT ![g].pc = AfterQuota,
                                ![g].soft = \/ Soft(call[g].inMinute, LimitMinute)
                                            \/ Soft(Total(used[c][DayOf(g)], n), LimitDay)]
                  /\ UNCHANGED settled
        BY <2>5 DEF CountDay
    <3>6. used' \in [Counters -> [Windows -> Nat]] /\ faults' \in Nat
        BY <3>5, <3>1, CountInType, WindowType
    <3>7. call' \in [Gateways -> Call] /\ settled' \in SUBSET (1 .. MaxBodies) /\ HandlersOK'
      <4>0. bodies' = bodies /\ lite' = lite
          BY <2>5 DEF CountDay
      <4>1. CASE Answer(g, FALSE)
        BY <4>0, <4>1, <3>1, AnswerType, AnswerKeepsHandlers
      <4>2. CASE /\ call' = [call EXCEPT ![g].pc = AfterQuota,
                                ![g].soft = \/ Soft(call[g].inMinute, LimitMinute)
                                            \/ Soft(Total(used[c][DayOf(g)], n), LimitDay)]
                 /\ UNCHANGED settled
        <5> DEFINE soft == \/ Soft(call[g].inMinute, LimitMinute)
                           \/ Soft(Total(used[c][DayOf(g)], n), LimitDay)
        <5>1. soft \in BOOLEAN
            BY DEF Soft
        <5>2. call' = [call EXCEPT ![g].pc = AfterQuota, ![g].soft = soft]
            BY <4>2
        <5> HIDE DEF soft
        <5>3. AfterQuota \in Phase
            BY DEF AfterQuota, Phase
        <5>4. call' \in [Gateways -> Call]
            BY ZenonT(30), <5>1, <5>2, <5>3 DEF TypeOK, Call
        <5>5. \A h \in Gateways :
                \/ call'[h] = call[h]
                \/ call'[h].pc = AfterQuota /\ call'[h].body = call[h].body /\ h = g
            BY <5>2 DEF TypeOK, Call
        <5>6. HandlersOK'
            BY <5>5, <3>1, <2>0, <4>0 DEF HandlersOK, AfterQuota
        <5> QED BY <4>2, <5>4, <5>6 DEF TypeOK
      <4> QED BY <3>5, <4>1, <4>2
    <3> QED BY <2>5, <3>4, <3>6, <3>7 DEF CountDay, TypeOK, HandlersOK, storeVars
  <2>6. ASSUME NEW g \in Gateways, Store(g) \/ StoreError(g) PROVE TypeOK'
    <3>1. call[g].pc = "store" /\ call[g].pc # "idle"
        BY <2>6 DEF Store, StoreError
    <3>2. call' = [call EXCEPT ![g] = NoCall] /\ call' \in [Gateways -> Call]
          /\ settled' \in SUBSET (1 .. MaxBodies)
        BY <2>6, <3>1, AnswerType DEF Store, StoreError
    <3>3. copies' \in [Stamped -> Nat]
      <4>1. copies' \in {copies, Inserted(<<call[g].body, call[g].soft>>)}
          BY <2>6 DEF Store, StoreError
      <4>2. Inserted(<<call[g].body, call[g].soft>>) \in [Stamped -> Nat]
          BY <3>1, StampedType, InsertedType DEF TypeOK
      <4> QED BY <4>1, <4>2 DEF TypeOK
    <3>4. acked' \in SUBSET (1 .. Len(bodies))
      <4>1. acked' \in {acked, acked \cup {call[g].body}}
          BY <2>6 DEF Store, StoreError, AckedAfterError
      <4>2. acked \in SUBSET (1 .. Len(bodies)) /\ bodies' = bodies
          BY <2>6 DEF Store, StoreError, TypeOK
      <4>3. call[g].body \in 1 .. Len(bodies)
          BY <3>1, CountType
      <4> QED BY <4>1, <4>2, <4>3
    <3>5. dead' \in Nat /\ faults' \in Nat
      <4>1. Payload(g).bad \in Nat /\ dead \in Nat /\ faults \in Nat
          BY <3>1, CountType DEF TypeOK
      <4>2. CASE Store(g)
        BY <4>1, <4>2 DEF Store, DeadLetter, Fails
      <4>3. CASE StoreError(g)
        BY <4>1, <4>3 DEF StoreError, Fails
      <4> QED BY <2>6, <4>2, <4>3
    <3>6. UNCHANGED <<lite, now, bodies, posts, quotaVars, forwarded, crashes>>
        BY <2>6 DEF Store, StoreError
    <3>7. HandlersOK'
        BY <3>2, <3>6, AnswerKeepsHandlers
    <3> QED BY <3>2, <3>3, <3>4, <3>5, <3>6, <3>7 DEF TypeOK, HandlersOK, quotaVars
  <2>7. ASSUME NEW g \in Gateways, Forward(g) \/ ForwardError(g) PROVE TypeOK'
    <3>1. call[g].pc # "idle"
        BY <2>7 DEF Forward, ForwardError
    <3>2. call' = [call EXCEPT ![g] = NoCall] /\ call' \in [Gateways -> Call]
          /\ settled' \in SUBSET (1 .. MaxBodies)
        BY <2>7, <3>1, AnswerType DEF Forward, ForwardError
    <3>3. forwarded' \in [1 .. MaxBodies -> Nat]
      <4>1. forwarded' \in {forwarded, Forwarded(g)}
          BY <2>7 DEF Forward, ForwardError
      <4>2. forwarded \in [1 .. MaxBodies -> Nat]
          BY DEF TypeOK
      <4> QED BY <4>1, <4>2, <3>1, CountType, ForwardedType
    <3>4. acked' \in SUBSET (1 .. Len(bodies))
      <4>1. CASE Forward(g)
        BY <4>1, <3>1, CountType DEF Forward, TypeOK
      <4>2. CASE ForwardError(g)
        BY <4>2 DEF ForwardError, AckedAfterError, TypeOK
      <4> QED BY <2>7, <4>1, <4>2
    <3>5. faults' \in Nat
      <4>1. faults' \in {faults, faults + 1}
          BY <2>7 DEF Forward, ForwardError, Fails
      <4> QED BY <4>1 DEF TypeOK
    <3>6. UNCHANGED <<lite, now, bodies, posts, quotaVars, copies, dead, crashes>>
        BY <2>7 DEF Forward, ForwardError
    <3>7. HandlersOK'
        BY <3>2, <3>6, AnswerKeepsHandlers
    <3> QED BY <3>2, <3>3, <3>4, <3>5, <3>6, <3>7 DEF TypeOK, HandlersOK, quotaVars
  <2>8. ASSUME NEW g \in Gateways, Crash(g) PROVE TypeOK'
    <3>1. call' = [call EXCEPT ![g] = NoCall] /\ bodies' = bodies /\ lite' = lite
        BY <2>8 DEF Crash, clientVars
    <3>2. NoCall \in Call
        BY BoundsAssumption DEF NoCall, Call, Phase, Clock
    <3>3. call' \in [Gateways -> Call]
        BY <3>1, <3>2 DEF TypeOK
    <3>4. used' \in [Counters -> [Windows -> Nat]]
        BY <2>8 DEF Crash, NoCounts, TypeOK
    <3>5. crashes' \in Nat /\ faults' \in Nat
        BY <2>8 DEF Crash, Fails, TypeOK
    <3>6. HandlersOK'
        BY <3>1, AnswerKeepsHandlers
    <3> QED BY <2>8, <3>3, <3>4, <3>5, <3>6
            DEF Crash, TypeOK, HandlersOK, clientVars, storeVars
  <2>9. CASE UNCHANGED vars
    BY <2>9 DEF vars, clientVars, quotaVars, storeVars, TypeOK
  <2> QED BY <2>1, <2>2, <2>3, <2>4, <2>5, <2>6, <2>7, <2>8, <2>9 DEF Next
<1> QED BY <1>1, <1>2, PTL DEF Spec
-----------------------------------------------------------------------------
(* No step takes a body, a stored row or a forwarded body back.            *)
LEMMA NothingIsUndone ==
    ASSUME TypeOK, [Next]_vars
    PROVE  /\ lite' = lite
           /\ \A r \in 1 .. Len(bodies) : bodies'[r] = bodies[r]
           /\ \A s \in Stamped : copies[s] <= copies'[s]
           /\ \A r \in 1 .. MaxBodies : forwarded[r] <= forwarded'[r]
<1>0. /\ copies \in [Stamped -> Nat] /\ forwarded \in [1 .. MaxBodies -> Nat]
      /\ \A s \in Stamped : copies[s] <= copies[s]
      /\ \A r \in 1 .. MaxBodies : forwarded[r] <= forwarded[r]
  <2>1. copies \in [Stamped -> Nat] /\ forwarded \in [1 .. MaxBodies -> Nat]
      BY DEF TypeOK
  <2> QED BY <2>1
<1>1. CASE NewBody
  <2>1. PICK m \in Payloads : bodies' = Append(bodies, m)
      BY <1>1 DEF NewBody
  <2>2. \A r \in 1 .. Len(bodies) : bodies'[r] = bodies[r]
      BY <2>1 DEF TypeOK
  <2> QED BY <1>0, <1>1, <2>2 DEF NewBody, storeVars
<1>2. ASSUME NEW g \in Gateways, Store(g) \/ StoreError(g) PROVE copies' \in [Stamped -> Nat]
        /\ \A s \in Stamped : copies[s] <= copies'[s]
  <2>1. copies' \in {copies, Inserted(<<call[g].body, call[g].soft>>)}
      BY <1>2 DEF Store, StoreError
  <2>2. <<call[g].body, call[g].soft>> \in Stamped
      BY <1>2, StampedType DEF Store, StoreError
  <2> QED BY <1>0, <2>1, <2>2, InsertedType
<1>3. ASSUME NEW g \in Gateways, Store(g) \/ StoreError(g)
      PROVE lite' = lite /\ bodies' = bodies /\ forwarded' = forwarded
    BY <1>3 DEF Store, StoreError
<1>4. ASSUME NEW g \in Gateways, Forward(g) \/ ForwardError(g)
      PROVE /\ lite' = lite /\ bodies' = bodies /\ copies' = copies
            /\ \A r \in 1 .. MaxBodies : forwarded[r] <= forwarded'[r]
  <2>1. forwarded' \in {forwarded, Forwarded(g)}
      BY <1>4 DEF Forward, ForwardError
  <2>2. call[g].body \in 1 .. MaxBodies
      BY <1>4, CountType DEF Forward, ForwardError
  <2>3. \A r \in 1 .. MaxBodies : forwarded[r] <= forwarded'[r]
      BY <1>0, <2>1, <2>2, ForwardedType
  <2> QED BY <1>4, <2>3 DEF Forward, ForwardError
<1>5. ASSUME \/ MinuteTurns \/ UNCHANGED vars
             \/ \E g \in Gateways : Post(g) \/ CountMinute(g) \/ CountDay(g) \/ Crash(g)
      PROVE lite' = lite /\ bodies' = bodies /\ copies' = copies /\ forwarded' = forwarded
    BY <1>5 DEF MinuteTurns, Post, CountMinute, CountDay, Crash, vars, clientVars, storeVars
<1>6. CASE \E g \in Gateways : Store(g) \/ StoreError(g)
    BY <1>0, <1>2, <1>3, <1>6
<1>7. CASE \E g \in Gateways : Forward(g) \/ ForwardError(g)
    BY <1>0, <1>4, <1>7
<1>8. CASE \/ MinuteTurns \/ UNCHANGED vars
           \/ \E g \in Gateways : Post(g) \/ CountMinute(g) \/ CountDay(g) \/ Crash(g)
    BY <1>0, <1>5, <1>8
<1>9. \/ NewBody \/ MinuteTurns \/ UNCHANGED vars
      \/ \E g \in Gateways : Store(g) \/ StoreError(g)
      \/ \E g \in Gateways : Forward(g) \/ ForwardError(g)
      \/ \E g \in Gateways : Post(g) \/ CountMinute(g) \/ CountDay(g) \/ Crash(g)
    BY DEF Next
<1> QED BY <1>1, <1>6, <1>7, <1>8, <1>9

StoredBody(r) ==
    IF lite THEN bodies[r].good > 0 => \E b \in BOOLEAN : copies[<<r, b>>] > 0
    ELSE forwarded[r] > 0

LEMMA StoredStays ==
    ASSUME TypeOK, TypeOK', [Next]_vars, NEW r \in 1 .. Len(bodies), StoredBody(r)
    PROVE  StoredBody(r)'
<1>1. r \in 1 .. MaxBodies
    BY BoundsAssumption DEF TypeOK
<1>2. lite' = lite /\ bodies'[r] = bodies[r]
    BY NothingIsUndone
<1>3. CASE lite
  <2>1. ASSUME NEW b \in BOOLEAN, copies[<<r, b>>] > 0 PROVE copies'[<<r, b>>] > 0
    <3>1. <<r, b>> \in Stamped
        BY <1>1 DEF Stamped
    <3>2. /\ copies[<<r, b>>] \in Nat /\ copies'[<<r, b>>] \in Nat
          /\ copies[<<r, b>>] <= copies'[<<r, b>>]
        BY <3>1, NothingIsUndone DEF TypeOK
    <3> QED BY <2>1, <3>2
  <2> QED BY <1>2, <1>3, <2>1 DEF StoredBody
<1>4. CASE ~lite
  <2>1. /\ forwarded[r] \in Nat /\ forwarded'[r] \in Nat /\ forwarded[r] <= forwarded'[r]
      BY <1>1, NothingIsUndone DEF TypeOK
  <2> QED BY <1>2, <1>4, <2>1 DEF StoredBody
<1> QED BY <1>3, <1>4

(* AckedIsStored: what is answered 200 is stored, or the Collector has it, *)
(* for all constants (AckedStored).                                        *)
THEOREM AckedIsStored == Spec => []AckedStored
<1>1. Init => AckedStored
    BY DEF Init, AckedStored
<1>2. TypeOK /\ TypeOK' /\ AckedStored /\ [Next]_vars => AckedStored'
  <2> SUFFICES ASSUME TypeOK, TypeOK', AckedStored, [Next]_vars, NEW r \in acked'
               PROVE  StoredBody(r)'
    BY DEF AckedStored, StoredBody
  <2>1. CASE r \in acked
    <3>1. r \in 1 .. Len(bodies) /\ StoredBody(r)
        BY <2>1 DEF TypeOK, AckedStored, StoredBody
    <3> QED BY <3>1, StoredStays
  <2>2. ASSUME NEW g \in Gateways, Store(g), r = call[g].body PROVE StoredBody(r)'
    <3> DEFINE s == <<call[g].body, call[g].soft>>
    <3>1. call[g].pc = "store" /\ lite /\ lite' = lite /\ bodies' = bodies
        BY <2>2 DEF Store, TypeOK
    <3>2. s \in Stamped /\ call[g].soft \in BOOLEAN
        BY <3>1, StampedType DEF TypeOK, Call
    <3>3. ASSUME bodies[r].good > 0 PROVE copies'[s] > 0
      <4>1. ~(Payload(g).good = 0)
          BY <2>2, <3>1, <3>3, CountType DEF Payload
      <4>2. copies' = Inserted(s)
          BY <2>2, <4>1 DEF Store
      <4> QED BY <3>2, <4>2, InsertedType DEF TypeOK
    <3> QED BY <2>2, <3>1, <3>2, <3>3 DEF StoredBody
  <2>3. ASSUME NEW g \in Gateways, Forward(g), r = call[g].body PROVE StoredBody(r)'
    <3>1. call[g].pc = "collector" /\ ~lite /\ lite' = lite
        BY <2>3 DEF Forward, TypeOK
    <3>2. forwarded' = Forwarded(g)
        BY <2>3 DEF Forward
    <3>3. forwarded'[r] > 0
        BY <2>3, <3>1, <3>2, CountType, ForwardedType DEF TypeOK
    <3> QED BY <3>1, <3>3 DEF StoredBody
  <2>4. \/ r \in acked
        \/ \E g \in Gateways : (Store(g) \/ Forward(g)) /\ r = call[g].body
    <3>1. ASSUME NEW g \in Gateways, Store(g) \/ Forward(g)
          PROVE r \in acked \/ r = call[g].body
        BY <3>1 DEF Store, Forward
    <3>2. ASSUME \/ NewBody \/ MinuteTurns \/ UNCHANGED vars
                 \/ \E g \in Gateways :
                        \/ Post(g) \/ CountMinute(g) \/ CountDay(g)
                        \/ StoreError(g) \/ ForwardError(g) \/ Crash(g)
          PROVE acked' = acked
        BY <3>2 DEF NewBody, MinuteTurns, vars, Post, CountMinute, CountDay,
                    StoreError, ForwardError, AckedAfterError, Crash
    <3> QED BY <3>1, <3>2 DEF Next
  <2> QED BY <2>1, <2>2, <2>3, <2>4
<1> QED BY <1>1, <1>2, TypeCorrect, PTL DEF Spec
-----------------------------------------------------------------------------
(* Unless a process crashes, the counters only grow, so a limit that some  *)
(* counter passed stays passed.                                            *)
LEMMA CountersGrow ==
    ASSUME TypeOK, [Next]_vars, crashes' = crashes
    PROVE  \A c \in Counters, w \in Windows : used[c][w] <= used'[c][w]
<1>0. used \in [Counters -> [Windows -> Nat]] /\ crashes \in Nat
    BY DEF TypeOK
<1>1. CASE used' = used
    BY <1>0, <1>1
<1>2. ASSUME NEW g \in Gateways, CountMinute(g) \/ CountDay(g)
      PROVE  \A c \in Counters, w \in Windows : used[c][w] <= used'[c][w]
  <2>1. call[g].pc # "idle"
      BY <1>2 DEF CountMinute, CountDay
  <2>2. CASE CountMinute(g)
    <3>1. PICK c \in {Shared, g} : CountIn(c, g, MinuteOf(g))
        BY <2>2 DEF CountMinute
    <3> QED BY <2>1, <3>1, CountInType, WindowType
  <2>3. CASE CountDay(g)
    <3>1. PICK c \in {Shared, g} : CountIn(c, g, DayOf(g))
        BY <2>3 DEF CountDay
    <3> QED BY <2>1, <3>1, CountInType, WindowType
  <2> QED BY <1>2, <2>2, <2>3
<1>3. \/ used' = used
      \/ \E g \in Gateways : CountMinute(g) \/ CountDay(g)
  <2>1. ASSUME NEW g \in Gateways PROVE ~Crash(g)
      BY <1>0 DEF Crash
  <2>2. ASSUME \/ NewBody \/ MinuteTurns \/ UNCHANGED vars
               \/ \E g \in Gateways :
                      \/ Post(g) \/ Store(g) \/ StoreError(g)
                      \/ Forward(g) \/ ForwardError(g)
        PROVE used' = used
      BY <2>2 DEF NewBody, MinuteTurns, vars, Post, Store, StoreError, Forward,
                  ForwardError, quotaVars
  <2> QED BY <2>1, <2>2 DEF Next
<1> QED BY <1>1, <1>2, <1>3

LEMMA SoftStays ==
    ASSUME TypeOK, TypeOK', SoftSomewhere,
           \A c \in Counters, w \in Windows : used[c][w] <= used'[c][w]
    PROVE  SoftSomewhere'
<1>1. PICK c \in Counters, w \in Windows : Soft(used[c][w], LimitOf(w))
    BY DEF SoftSomewhere
<1>2. used[c][w] \in Nat /\ used'[c][w] \in Nat /\ LimitOf(w) \in Nat
    BY LimitType DEF TypeOK
<1>3. Soft(used'[c][w], LimitOf(w))
    BY <1>1, <1>2 DEF Soft
<1> QED BY <1>3 DEF SoftSomewhere

(* A total above the soft fraction, once returned by a counter, is there.  *)
LEMMA SoftWitness ==
    ASSUME used \in [Counters -> [Windows -> Nat]], NEW c \in Counters, NEW w \in Windows,
           NEW n \in Nat, n <= used[c][w], Soft(n, LimitOf(w))
    PROVE  SoftSomewhere
<1>1. used[c][w] \in Nat /\ LimitOf(w) \in Nat
    BY LimitType
<1>2. Soft(used[c][w], LimitOf(w))
    BY <1>1 DEF Soft
<1> QED BY <1>2 DEF SoftSomewhere

(* Only CountMinute sends a handler to the day, only CountDay sets its flag.*)
LEMMA OtherPhases ==
    ASSUME TypeOK, [Next]_vars, NEW h \in Gateways
    PROVE  /\ call'[h].pc = "day" => call'[h] = call[h] \/ CountMinute(h)
           /\ call'[h].soft => call[h].soft \/ CountDay(h)
<1>0. call \in [Gateways -> Call]
    BY DEF TypeOK
<1>1. CASE call'[h] = call[h]
    BY <1>1
<1>2. CASE CountMinute(h)
  <2>1. call'[h].soft = call[h].soft
      BY <1>0, <1>2 DEF CountMinute, Call
  <2> QED BY <1>2, <2>1
<1>3. CASE CountDay(h)
  <2>1. call'[h].pc # "day"
      BY <1>0, <1>3 DEF CountDay, Answer, NoCall, AfterQuota, Call
  <2> QED BY <1>3, <2>1
<1>4. CASE call'[h] = NoCall
    BY <1>4 DEF NoCall
<1>5. CASE Post(h)
  <2>1. \/ call' = call
        \/ \E r \in DOMAIN bodies :
            call' = [call EXCEPT ![h] = [pc |-> FirstPhase(bodies[r]), body |-> r, at |-> now,
                                         inMinute |-> 0, soft |-> FALSE]]
      BY <1>5 DEF Post
  <2>2. \/ call' = call
        \/ call'[h].pc # "day" /\ ~call'[h].soft
      BY <1>0, <2>1 DEF FirstPhase, AfterQuota
  <2> QED BY <1>1, <2>2
<1>6. \/ call'[h] = call[h] \/ call'[h] = NoCall
      \/ Post(h) \/ CountMinute(h) \/ CountDay(h)
  <2>1. ASSUME NEW g \in Gateways,
               Store(g) \/ StoreError(g) \/ Forward(g) \/ ForwardError(g) \/ Crash(g)
        PROVE  call'[h] = call[h] \/ call'[h] = NoCall
      BY <1>0, <2>1 DEF Store, StoreError, Forward, ForwardError, Crash, Answer
  <2>2. ASSUME NEW g \in Gateways, g # h, Post(g) \/ CountMinute(g) \/ CountDay(g)
        PROVE  call'[h] = call[h]
    <3>1. CASE Post(g)
        BY <1>0, <2>2, <3>1 DEF Post
    <3>2. CASE CountMinute(g)
        BY <1>0, <2>2, <3>2 DEF CountMinute
    <3>3. CASE CountDay(g)
        BY <1>0, <2>2, <3>3 DEF CountDay, Answer
    <3> QED BY <2>2, <3>1, <3>2, <3>3
  <2>3. CASE NewBody \/ MinuteTurns \/ UNCHANGED vars
      BY <2>3 DEF NewBody, MinuteTurns, vars
  <2> QED BY <2>1, <2>2, <2>3 DEF Next
<1> QED BY <1>1, <1>2, <1>3, <1>4, <1>5, <1>6

(* What makes it inductive: the total a handler remembers is covered by a  *)
(* counter, and its soft flag tells of one that passed the fraction.       *)
SoftIsCounted ==
    crashes = 0 =>
        /\ \A g \in Gateways :
            /\ call[g].pc = "day" => \E c \in Counters : call[g].inMinute <= used[c][MinuteOf(g)]
            /\ call[g].soft => SoftSomewhere
        /\ \A r \in 1 .. MaxBodies : copies[<<r, TRUE>>] > 0 => SoftSomewhere

OnceEach == \A s \in Stamped : copies[s] <= 1

(* RetryStoresOnce: a body is stored once per stamp, and with the soft     *)
(* stamp only if a counter passed the soft fraction (TwiceOnlyAcrossSoft). *)
THEOREM RetryStoresOnce == Spec => []TwiceOnlyAcrossSoft
<1>1. Init => OnceEach /\ SoftIsCounted
  <2>1. Init => OnceEach
      BY DEF Init, OnceEach
  <2>2. ASSUME Init PROVE SoftIsCounted
    <3>1. \A g \in Gateways : call[g].pc = "idle" /\ ~call[g].soft
        BY <2>2 DEF Init, NoCall
    <3>2. \A r \in 1 .. MaxBodies : <<r, TRUE>> \in Stamped
        BY DEF Stamped
    <3>3. \A r \in 1 .. MaxBodies : copies[<<r, TRUE>>] = 0
        BY <2>2, <3>2 DEF Init
    <3>4. ASSUME NEW r \in 1 .. MaxBodies PROVE ~(copies[<<r, TRUE>>] > 0)
      <4>1. copies[<<r, TRUE>>] = 0
          BY <3>3
      <4>2. \A n \in Nat : n = 0 => ~(n > 0)
          OBVIOUS
      <4> QED BY <4>1, <4>2
    <3>5. \A g \in Gateways : call[g].pc # "day" /\ ~call[g].soft
        BY <3>1
    <3> QED BY <3>4, <3>5, Zenon DEF SoftIsCounted
  <2> QED BY <2>1, <2>2
<1>2. TypeOK /\ OnceEach /\ [Next]_vars => OnceEach'
  <2> SUFFICES ASSUME TypeOK, OnceEach, [Next]_vars PROVE OnceEach'
    OBVIOUS
  <2>1. ASSUME NEW g \in Gateways, Store(g) \/ StoreError(g) PROVE OnceEach'
    <3> DEFINE s == <<call[g].body, call[g].soft>>
    <3>1. copies' \in {copies, Inserted(s)}
        BY <2>1 DEF Store, StoreError
    <3>2. s \in Stamped
        BY <2>1, StampedType DEF Store, StoreError
    <3>3. \A e \in Stamped : Inserted(s)[e] <= 1
        BY <3>2, InsertedType DEF OnceEach, TypeOK
    <3> QED BY <3>1, <3>3 DEF OnceEach
  <2>2. ASSUME \/ NewBody \/ MinuteTurns \/ UNCHANGED vars
               \/ \E g \in Gateways :
                      \/ Post(g) \/ CountMinute(g) \/ CountDay(g)
                      \/ Forward(g) \/ ForwardError(g) \/ Crash(g)
        PROVE copies' = copies
      BY <2>2 DEF NewBody, MinuteTurns, vars, Post, CountMinute, CountDay, Forward,
                  ForwardError, Crash, storeVars
  <2>3. CASE copies' = copies
      BY <2>3 DEF OnceEach
  <2> QED BY <2>1, <2>2, <2>3 DEF Next
<1>3. TypeOK /\ TypeOK' /\ SoftIsCounted /\ [Next]_vars => SoftIsCounted'
  <2> SUFFICES ASSUME TypeOK, TypeOK', SoftIsCounted, [Next]_vars, crashes' = 0
               PROVE  /\ \A h \in Gateways :
                          /\ call'[h].pc = "day" =>
                                \E c \in Counters : call'[h].inMinute <= used'[c][MinuteOf(h)']
                          /\ call'[h].soft => SoftSomewhere'
                      /\ \A r \in 1 .. MaxBodies : copies'[<<r, TRUE>>] > 0 => SoftSomewhere'
    BY DEF SoftIsCounted
  <2>1. crashes' = crashes /\ \A g \in Gateways : ~Crash(g)
    <3>1. \A g \in Gateways : ~Crash(g)
        BY DEF Crash, TypeOK
    <3>2. crashes' = crashes
        BY <3>1 DEF Next, NewBody, MinuteTurns, vars, Post, CountMinute, CountDay, Store,
                    StoreError, Forward, ForwardError
    <3> QED BY <3>1, <3>2
  <2>2. /\ \A c \in Counters, w \in Windows : used[c][w] <= used'[c][w]
        /\ SoftSomewhere => SoftSomewhere'
      BY <2>1, CountersGrow, SoftStays
  <2>3. /\ \A g \in Gateways :
            /\ call[g].pc = "day" => \E c \in Counters : call[g].inMinute <= used[c][MinuteOf(g)]
            /\ call[g].soft => SoftSomewhere'
        /\ \A r \in 1 .. MaxBodies : copies[<<r, TRUE>>] > 0 => SoftSomewhere'
      BY <2>1, <2>2 DEF SoftIsCounted
  <2>4. ASSUME NEW h \in Gateways, call'[h].pc = "day"
        PROVE  \E c \in Counters : call'[h].inMinute <= used'[c][MinuteOf(h)']
    <3>1. CASE call'[h] = call[h]
      <4>1. PICK c \in Counters : call[h].inMinute <= used[c][MinuteOf(h)]
          BY <2>3, <2>4, <3>1
      <4>2. MinuteOf(h)' = MinuteOf(h) /\ MinuteOf(h) \in Windows
          BY <3>1, WindowType DEF MinuteOf
      <4>3. call[h].inMinute \in Nat
          BY DEF TypeOK, Call
      <4>4. /\ used[c][MinuteOf(h)] \in Nat /\ used'[c][MinuteOf(h)] \in Nat
            /\ used[c][MinuteOf(h)] <= used'[c][MinuteOf(h)]
          BY <2>2, <4>2 DEF TypeOK
      <4> QED BY <3>1, <4>1, <4>2, <4>3, <4>4
    <3>2. CASE CountMinute(h)
      <4>1. PICK c \in {Shared, h} :
              /\ CountIn(c, h, MinuteOf(h))
              /\ call' = [call EXCEPT ![h].pc = "day",
                           ![h].inMinute = Total(used[c][MinuteOf(h)], SpanCount(Payload(h)))]
          BY <3>2 DEF CountMinute
      <4>2. call[h].pc # "idle"
          BY <3>2 DEF CountMinute
      <4>3. /\ c \in Counters
            /\ Total(used[c][MinuteOf(h)], SpanCount(Payload(h))) <= used'[c][MinuteOf(h)]
          BY <4>1, <4>2, CountInType, WindowType
      <4>4. /\ call'[h].inMinute = Total(used[c][MinuteOf(h)], SpanCount(Payload(h)))
            /\ call'[h].at = call[h].at
          BY <4>1 DEF TypeOK, Call
      <4>5. MinuteOf(h)' = MinuteOf(h)
          BY <4>4 DEF MinuteOf
      <4> QED BY <4>3, <4>4, <4>5
    <3>3. call'[h] = call[h] \/ CountMinute(h)
        BY <2>4, OtherPhases
    <3> QED BY <3>1, <3>2, <3>3
  <2>5. ASSUME NEW h \in Gateways, call'[h].soft PROVE SoftSomewhere'
    <3>1. CASE call[h].soft
        BY <3>1, <2>3
    <3>2. CASE CountDay(h)
      <4> DEFINE n == SpanCount(Payload(h))
                 soft(c) == \/ Soft(call[h].inMinute, LimitMinute)
                            \/ Soft(Total(used[c][DayOf(h)], n), LimitDay)
      <4>1. call[h].pc = "day" /\ call[h].pc # "idle"
          BY <3>2 DEF CountDay
      <4>2. PICK c \in {Shared, h} :
              /\ CountIn(c, h, DayOf(h))
              /\ \/ Answer(h, FALSE)
                 \/ call' = [call EXCEPT ![h].pc = AfterQuota, ![h].soft = soft(c)]
          BY <3>2 DEF CountDay
      <4>3. ~Answer(h, FALSE)
          BY <2>5 DEF Answer, NoCall, TypeOK
      <4>4. soft(c)
        <5> HIDE DEF soft
        <5>1. call' = [call EXCEPT ![h].pc = AfterQuota, ![h].soft = soft(c)]
            BY <4>2, <4>3
        <5>2. call'[h].soft = soft(c)
            BY <5>1 DEF TypeOK, Call
        <5> QED BY <5>2, <2>5
      <4>5. /\ used' \in [Counters -> [Windows -> Nat]] /\ c \in Counters
            /\ Total(used[c][DayOf(h)], n) \in Nat
            /\ Total(used[c][DayOf(h)], n) <= used'[c][DayOf(h)]
          BY <4>1, <4>2, CountInType, WindowType
      <4>6. LimitOf(MinuteOf(h)) = LimitMinute /\ LimitOf(DayOf(h)) = LimitDay
          BY DEF LimitOf, MinuteOf, DayOf
      <4>7. CASE Soft(call[h].inMinute, LimitMinute)
        <5>1. PICK e \in Counters : call[h].inMinute <= used[e][MinuteOf(h)]
            BY <4>1, <2>3
        <5>2. used \in [Counters -> [Windows -> Nat]] /\ call[h].inMinute \in Nat
            BY DEF TypeOK, Call
        <5>3. SoftSomewhere
            BY <4>6, <4>7, <5>1, <5>2, WindowType, SoftWitness
        <5> QED BY <5>3, <2>2
      <4>8. CASE Soft(Total(used[c][DayOf(h)], n), LimitDay)
        <5>1. Soft(Total(used[c][DayOf(h)], n), LimitOf(DayOf(h)))
            BY <4>6, <4>8
        <5>2. Soft(used'[c][DayOf(h)], LimitOf(DayOf(h)))
          <6>1. used'[c][DayOf(h)] \in Nat /\ LimitOf(DayOf(h)) \in Nat
              BY <4>5, WindowType, LimitType
          <6> QED BY <5>1, <6>1, <4>5 DEF Soft
        <5> QED BY <5>2, <4>5, WindowType DEF SoftSomewhere
      <4> QED BY <4>4, <4>7, <4>8
    <3>3. call[h].soft \/ CountDay(h)
        BY <2>5, OtherPhases
    <3> QED BY <3>1, <3>2, <3>3
  <2>6. ASSUME NEW r \in 1 .. MaxBodies, copies'[<<r, TRUE>>] > 0 PROVE SoftSomewhere'
    <3>1. CASE copies'[<<r, TRUE>>] = copies[<<r, TRUE>>]
        BY <2>6, <3>1, <2>3
    <3>2. ASSUME NEW g \in Gateways, Store(g) \/ StoreError(g),
                 copies'[<<r, TRUE>>] # copies[<<r, TRUE>>]
          PROVE  SoftSomewhere'
      <4> DEFINE s == <<call[g].body, call[g].soft>>
      <4>1. copies' = copies \/ copies' = Inserted(s)
          BY <3>2 DEF Store, StoreError
      <4>2. s \in Stamped /\ <<r, TRUE>> \in Stamped
          BY <3>2, StampedType DEF Store, StoreError, Stamped
      <4>3. s = <<r, TRUE>>
          BY <3>2, <4>1, <4>2, InsertedType DEF TypeOK
      <4>4. call[g].soft
          BY <4>3
      <4> QED BY <4>4, <2>3
    <3>3. \/ copies' = copies
          \/ \E g \in Gateways : Store(g) \/ StoreError(g)
        BY DEF Next, NewBody, MinuteTurns, vars, Post, CountMinute, CountDay, Forward,
               ForwardError, Crash, storeVars
    <3> QED BY <3>1, <3>2, <3>3
  <2> QED BY <2>4, <2>5, <2>6
<1>4. OnceEach /\ SoftIsCounted => TwiceOnlyAcrossSoft
    BY DEF OnceEach, SoftIsCounted, TwiceOnlyAcrossSoft, Stamped
<1> QED BY <1>1, <1>2, <1>3, <1>4, TypeCorrect, PTL DEF Spec
-----------------------------------------------------------------------------

(* A sum of naturals counts its units: the pairs of an element and a number *)
(* from 1 up to what it contributes.                                        *)
Units(f, s) == {p \in s \X Nat : 1 <= p[2] /\ p[2] <= f[p[1]]}

Column(f, x) == {x} \X (1 .. f[x])

(* SumFunction, as its definition builds it up from the empty set.          *)
Pick(s) == CHOOSE x \in s : TRUE

IsSum(it, f, S) ==
    it = [s \in SUBSET S |-> IF s = {} THEN 0 ELSE f[Pick(s)] + it[s \ {Pick(s)}]]

LEMMA SumIs ==
    ASSUME NEW f
    PROVE  SumFunction(f) = (CHOOSE it : IsSum(it, f, DOMAIN f))[DOMAIN f]
BY DEF SumFunction, SumFunctionOnSet, FoldFunctionOnSet, MapThenFoldSet, IsSum, Pick

LEMMA ColumnSize ==
    ASSUME NEW x, NEW f, f[x] \in Nat
    PROVE  IsFiniteSet(Column(f, x)) /\ Cardinality(Column(f, x)) = f[x]
<1>1. IsFiniteSet({x}) /\ Cardinality({x}) = 1
    BY FS_Singleton
<1>2. IsFiniteSet(1 .. f[x]) /\ Cardinality(1 .. f[x]) = f[x]
  <2>1. 1 \in Int /\ f[x] \in Int
      OBVIOUS
  <2>2. /\ IsFiniteSet(1 .. f[x])
        /\ Cardinality(1 .. f[x]) = IF 1 > f[x] THEN 0 ELSE f[x] - 1 + 1
      BY <2>1, FS_Interval
  <2> QED BY <2>2
<1>3. /\ IsFiniteSet({x} \X (1 .. f[x]))
      /\ Cardinality({x} \X (1 .. f[x])) = Cardinality({x}) * Cardinality(1 .. f[x])
    BY <1>1, <1>2, FS_Product
<1>4. 1 * f[x] = f[x]
    OBVIOUS
<1> QED BY <1>1, <1>2, <1>3, <1>4 DEF Column

(* Finitely many elements contribute finitely many units.                   *)
LEMMA UnitsFinite ==
    ASSUME NEW D, IsFiniteSet(D), NEW f \in [D -> Nat], NEW s \in SUBSET D
    PROVE  IsFiniteSet(Units(f, s)) /\ Cardinality(Units(f, s)) \in Nat
<1> DEFINE C == [x \in D |-> Column(f, x)]
           T == {C[x] : x \in D}
<1>1. C \in Surjection(D, T)
    BY DEF Surjection
<1>2. IsFiniteSet(T)
    BY <1>1, FS_Surjection
<1>3. \A t \in T : IsFiniteSet(t)
    BY ColumnSize
<1>4. IsFiniteSet(UNION T)
    BY <1>2, <1>3, FS_UNION
<1>5. Units(f, s) \subseteq UNION T
  <2>1. ASSUME NEW p \in Units(f, s) PROVE p \in Column(f, p[1]) /\ p[1] \in D
      BY <2>1 DEF Units, Column
  <2> QED BY <2>1
<1>6. IsFiniteSet(Units(f, s))
    BY <1>4, <1>5, FS_Subset
<1> QED BY <1>6, FS_CardinalityType

LEMMA UnitsSplit ==
    ASSUME NEW D, IsFiniteSet(D), NEW f \in [D -> Nat], NEW s \in SUBSET D, NEW x \in s
    PROVE  Cardinality(Units(f, s)) = f[x] + Cardinality(Units(f, s \ {x}))
<1>1. Units(f, s) = Units(f, s \ {x}) \cup Column(f, x)
  <2>1. ASSUME NEW p \in Units(f, s) PROVE p \in Units(f, s \ {x}) \cup Column(f, x)
      BY <2>1 DEF Units, Column
  <2>2. ASSUME NEW p \in Column(f, x) PROVE p \in Units(f, s)
      BY <2>2 DEF Units, Column
  <2>3. Units(f, s \ {x}) \subseteq Units(f, s)
      BY DEF Units
  <2> QED BY <2>1, <2>2, <2>3
<1>2. Units(f, s \ {x}) \cap Column(f, x) = {}
    BY DEF Units, Column
<1>3. IsFiniteSet(Units(f, s \ {x})) /\ Cardinality(Units(f, s \ {x})) \in Nat
    BY UnitsFinite
<1>4. IsFiniteSet(Column(f, x)) /\ Cardinality(Column(f, x)) = f[x] /\ f[x] \in Nat
    BY ColumnSize
<1> DEFINE U == Units(f, s \ {x})
           C == Column(f, x)
<1>5. Cardinality(U \cap C) = 0
    BY <1>2, FS_EmptySet
<1>6. Cardinality(U \cup C) = Cardinality(U) + Cardinality(C) - Cardinality(U \cap C)
  <2> HIDE DEF U, C
  <2> QED BY <1>3, <1>4, FS_Union DEF U, C
<1> HIDE DEF U, C
<1>7. Cardinality(U) \in Nat /\ Cardinality(C) = f[x] /\ f[x] \in Nat
    BY <1>3, <1>4 DEF U, C
<1>8. Cardinality(U \cup C) = f[x] + Cardinality(U)
    BY <1>5, <1>6, <1>7
<1> QED BY <1>1, <1>8 DEF U, C

LEMMA NoUnits == ASSUME NEW f PROVE Units(f, {}) = {} /\ Cardinality(Units(f, {})) = 0
BY FS_EmptySet DEF Units

(* Counting the units satisfies that equation, and nothing else does: the   *)
(* smallest set on which another solution differed would be a counterexample.*)
LEMMA UnitsAreSum ==
    ASSUME NEW D, IsFiniteSet(D), NEW f \in [D -> Nat]
    PROVE  IsSum([s \in SUBSET D |-> Cardinality(Units(f, s))], f, D)
<1> DEFINE W == [s \in SUBSET D |-> Cardinality(Units(f, s))]
<1>1. ASSUME NEW s \in SUBSET D
      PROVE  W[s] = IF s = {} THEN 0 ELSE f[Pick(s)] + W[s \ {Pick(s)}]
  <2>1. CASE s = {}
      BY <2>1, NoUnits
  <2>2. CASE s # {}
    <3>1. Pick(s) \in s
        BY <2>2 DEF Pick
    <3>2. s \ {Pick(s)} \in SUBSET D
        OBVIOUS
    <3>3. Cardinality(Units(f, s)) = f[Pick(s)] + Cardinality(Units(f, s \ {Pick(s)}))
        BY <3>1, UnitsSplit
    <3> QED BY <2>2, <3>2, <3>3
  <2> QED BY <2>1, <2>2
<1>2. W = [s \in SUBSET D |-> W[s]]
    OBVIOUS
<1> HIDE DEF W
<1>3. W = [s \in SUBSET D |-> IF s = {} THEN 0 ELSE f[Pick(s)] + W[s \ {Pick(s)}]]
    BY <1>1, <1>2
<1>4. IsSum(W, f, D)
    BY <1>3 DEF IsSum
<1> QED BY <1>4 DEF W

LEMMA OnlySum ==
    ASSUME NEW D, IsFiniteSet(D), NEW f \in [D -> Nat], NEW it, IsSum(it, f, D)
    PROVE  it[D] = Cardinality(Units(f, D))
<1> DEFINE Differs == {s \in SUBSET D : it[s] # Cardinality(Units(f, s))}
           Sizes == {Cardinality(s) : s \in Differs}
           R == {p \in Nat \X Nat : p[1] < p[2]}
<1>1. \A s \in SUBSET D : IsFiniteSet(s) /\ Cardinality(s) \in Nat
    BY FS_Subset, FS_CardinalityType
<1>2. Sizes \subseteq Nat
    BY <1>1
<1>3. SUFFICES ASSUME Differs # {} PROVE FALSE
    OBVIOUS
<1>4. IsWellFoundedOn(R, Nat)
    BY NatLessThanWellFounded DEF OpToRel
<1>5. \E n \in Sizes : \A k \in Sizes : ~ (<<k, n>> \in R)
  <2>1. Sizes # {}
      BY <1>3
  <2> HIDE DEF Sizes, R
  <2> QED BY <1>2, <1>4, <2>1, WFMin
<1>6. PICK s \in Differs : \A k \in Sizes : ~ (<<k, Cardinality(s)>> \in R)
    BY <1>5
<1>7. \A t \in SUBSET D : it[t] = IF t = {} THEN 0 ELSE f[Pick(t)] + it[t \ {Pick(t)}]
    BY DEF IsSum
<1>8. s # {}
    BY <1>6, <1>7, NoUnits
<1> DEFINE x == Pick(s)
           t == s \ {x}
<1>9. x \in s /\ t \in SUBSET D
    BY <1>8 DEF Pick
<1>10. Cardinality(t) = Cardinality(s) - 1
    BY <1>1, <1>9, FS_RemoveElement
<1>11. t \notin Differs
  <2> SUFFICES ASSUME t \in Differs PROVE FALSE
      OBVIOUS
  <2>1. Cardinality(t) \in Sizes
      OBVIOUS
  <2>2. Cardinality(s) \in Nat /\ Cardinality(t) \in Nat
      BY <1>1, <1>9
  <2>3. <<Cardinality(t), Cardinality(s)>> \in R
    <3> HIDE DEF t
    <3> QED BY <1>10, <2>2
  <2> QED BY <1>6, <2>1, <2>3
<1>12. it[t] = Cardinality(Units(f, t))
    BY <1>9, <1>11
<1>13. it[s] = f[x] + it[t]
    BY <1>7, <1>8
<1>14. Cardinality(Units(f, s)) = f[x] + Cardinality(Units(f, t))
    BY <1>9, UnitsSplit
<1> QED BY <1>6, <1>12, <1>13, <1>14

(* What the library's sum is.                                               *)
LEMMA SumCounts ==
    ASSUME NEW D, IsFiniteSet(D), NEW f \in [D -> Nat]
    PROVE  SumFunction(f) = Cardinality(Units(f, D)) /\ SumFunction(f) \in Nat
<1> DEFINE it == CHOOSE e : IsSum(e, f, D)
<1>1. IsSum(it, f, D)
  <2>1. \E e : IsSum(e, f, D)
      BY UnitsAreSum
  <2> QED BY <2>1
<1>2. SumFunction(f) = it[D]
    BY SumIs
<1> HIDE DEF it
<1> QED BY <1>1, <1>2, OnlySum, UnitsFinite

(* Contributions that do not fall make a sum that does not fall.            *)
LEMMA SumMonotone ==
    ASSUME NEW D, IsFiniteSet(D), NEW f \in [D -> Nat], NEW g \in [D -> Nat],
           \A y \in D : f[y] <= g[y]
    PROVE  SumFunction(f) <= SumFunction(g)
<1>1. Units(f, D) \subseteq Units(g, D)
    BY DEF Units
<1> QED BY <1>1, SumCounts, UnitsFinite, FS_Subset

LEMMA SumZero ==
    ASSUME NEW D, IsFiniteSet(D), NEW f \in [D -> Nat], \A y \in D : f[y] = 0
    PROVE  SumFunction(f) = 0
<1>1. Units(f, D) = {}
    BY DEF Units
<1> QED BY <1>1, SumCounts, FS_EmptySet

(* No contribution above the limit: no more than the limit for each of those*)
(* that contribute at all.                                                  *)
LEMMA SumBound ==
    ASSUME NEW D, IsFiniteSet(D), NEW f \in [D -> Nat], NEW L \in Nat, \A y \in D : f[y] <= L,
           NEW S \in SUBSET D, \A y \in D \ S : f[y] = 0
    PROVE  SumFunction(f) <= L * Cardinality(S)
<1>1. Units(f, D) \subseteq S \X (1 .. L)
    BY DEF Units
<1>2. IsFiniteSet(S) /\ Cardinality(S) \in Nat
    BY FS_Subset, FS_CardinalityType
<1>3. IsFiniteSet(1 .. L) /\ Cardinality(1 .. L) = L
    BY FS_Interval
<1>4. IsFiniteSet(S \X (1 .. L)) /\ Cardinality(S \X (1 .. L)) = Cardinality(S) * L
    BY <1>2, <1>3, FS_Product
<1>5. Cardinality(Units(f, D)) <= Cardinality(S) * L
    BY <1>1, <1>4, FS_Subset
<1>6. Cardinality(S) * L = L * Cardinality(S)
    BY <1>2
<1> QED BY <1>5, <1>6, SumCounts
(* One contribution rises and the others do not: the sum rises by no more.  *)
LEMMA SumRise ==
    ASSUME NEW D, IsFiniteSet(D), NEW f \in [D -> Nat], NEW g \in [D -> Nat], NEW x \in D,
           \A y \in D \ {x} : g[y] <= f[y]
    PROVE  SumFunction(g) + f[x] <= SumFunction(f) + g[x]
<1>1. Units(g, D \ {x}) \subseteq Units(f, D \ {x})
    BY DEF Units
<1>2. /\ SumFunction(f) = f[x] + Cardinality(Units(f, D \ {x}))
      /\ SumFunction(g) = g[x] + Cardinality(Units(g, D \ {x}))
    BY UnitsSplit, SumCounts
<1>3. /\ IsFiniteSet(Units(f, D \ {x}))
      /\ Cardinality(Units(f, D \ {x})) \in Nat /\ Cardinality(Units(g, D \ {x})) \in Nat
    BY UnitsFinite
<1>4. Cardinality(Units(g, D \ {x})) <= Cardinality(Units(f, D \ {x}))
    BY <1>1, <1>3, FS_Subset
<1> QED BY <1>2, <1>3, <1>4
-----------------------------------------------------------------------------
(* Of a handler between its two counters: the spans that the minute has     *)
(* counted and check has not ruled upon; those it may still let through.    *)
Undecided(g, w) ==
    IF call[g].pc = "day" /\ MinuteOf(g) = w THEN SpanCount(Payload(g)) ELSE 0

Passing(g, w) == IF Over(call[g].inMinute, LimitMinute) THEN 0 ELSE Undecided(g, w)

(* What a counter has let through at most.                                  *)
Capped(c, w) == IF used[c][w] < LimitOf(w) THEN used[c][w] ELSE LimitOf(w)

UndecidedIn(w) == [g \in Gateways |-> Undecided(g, w)]
PassingIn(w) == [g \in Gateways |-> Passing(g, w)]
CappedIn(w) == [c \in Counters |-> Capped(c, w)]
SeenIn(w) == [c \in Counters |-> used[c][w]]

(* What makes CountersHold inductive.  What was ruled upon, or is about to  *)
(* be, is in the counters; what was let through, or still may be, is within *)
(* what the counters stood at below the limit.                              *)
AllSeen(w) == checked[w] + SumFunction(UndecidedIn(w)) <= SumFunction(SeenIn(w))

AllWithin(w) ==
    allowed[w] + SumFunction(PassingIn(w)) <= SumFunction(CappedIn(w)) + LimitOf(w) * crashes

QuotaInv ==
    \A w \in Windows : /\ crashes = 0 => AllSeen(w)
                       /\ LimitOf(w) > 0 => AllWithin(w)

LEMMA FiniteProcesses == IsFiniteSet(Gateways) /\ IsFiniteSet(Counters)
BY GatewaysAssumption, FS_AddElement DEF Counters

PartsOK ==
    \A w \in Windows :
        /\ UndecidedIn(w) \in [Gateways -> Nat] /\ PassingIn(w) \in [Gateways -> Nat]
        /\ CappedIn(w) \in [Counters -> Nat] /\ SeenIn(w) \in [Counters -> Nat]

SumsOK ==
    \A w \in Windows :
        /\ SumFunction(UndecidedIn(w)) \in Nat /\ SumFunction(PassingIn(w)) \in Nat
        /\ SumFunction(CappedIn(w)) \in Nat /\ SumFunction(SeenIn(w)) \in Nat

LEMMA PartsType == TypeOK => PartsOK
<1> SUFFICES ASSUME TypeOK, NEW w \in Windows
    PROVE  /\ UndecidedIn(w) \in [Gateways -> Nat] /\ PassingIn(w) \in [Gateways -> Nat]
           /\ CappedIn(w) \in [Counters -> Nat] /\ SeenIn(w) \in [Counters -> Nat]
    BY DEF PartsOK
<1>1. \A g \in Gateways : Undecided(g, w) \in Nat
    BY CountType DEF Undecided
<1>2. \A g \in Gateways : Passing(g, w) \in Nat
    BY <1>1 DEF Passing
<1>3. \A c \in Counters : used[c][w] \in Nat
    BY DEF TypeOK
<1>4. \A c \in Counters : Capped(c, w) \in Nat
    BY <1>3, LimitType DEF Capped
<1> QED BY <1>1, <1>2, <1>3, <1>4 DEF UndecidedIn, PassingIn, CappedIn, SeenIn

(* The four sums are natural numbers.                                       *)
LEMMA SumsType == TypeOK => SumsOK
<1> SUFFICES ASSUME TypeOK PROVE SumsOK
    OBVIOUS
<1> QED BY PartsType, FiniteProcesses, SumCounts DEF PartsOK, SumsOK

LEMMA NextTypes ==
    ASSUME TypeOK, TypeOK'
    PROVE  PartsOK /\ PartsOK' /\ SumsOK /\ SumsOK'
<1>1. PartsOK /\ SumsOK
    BY PartsType, SumsType
<1>2. PartsOK' /\ SumsOK'
    BY PartsType, SumsType, PTL
<1> QED BY <1>1, <1>2

(* Only counting the minute adds to what a handler has undecided.           *)
LEMMA UndecidedFalls ==
    ASSUME TypeOK, TypeOK', [Next]_vars, NEW h \in Gateways, ~CountMinute(h), NEW w \in Windows
    PROVE  /\ UndecidedIn(w)'[h] <= UndecidedIn(w)[h]
           /\ PassingIn(w)'[h] <= PassingIn(w)[h]
<1>1. /\ UndecidedIn(w)[h] = Undecided(h, w) /\ UndecidedIn(w)'[h] = Undecided(h, w)'
      /\ PassingIn(w)[h] = Passing(h, w) /\ PassingIn(w)'[h] = Passing(h, w)'
    BY DEF UndecidedIn, PassingIn
<1>2. Undecided(h, w) \in Nat /\ Passing(h, w) \in Nat
    BY <1>1, PartsType DEF PartsOK
<1>3. CASE call'[h].pc # "day"
  <2>1. Undecided(h, w)' = 0 /\ Passing(h, w)' = 0
      BY <1>3 DEF Undecided, Passing
  <2> QED BY <1>1, <1>2, <2>1
<1>4. CASE call'[h].pc = "day"
  <2>1. call'[h] = call[h]
      BY <1>4, OtherPhases
  <2>2. call[h].body \in 1 .. Len(bodies)
      BY <1>4, <2>1, CountType
  <2>3. bodies'[call[h].body] = bodies[call[h].body]
      BY <2>2, NothingIsUndone
  <2>4. Undecided(h, w)' = Undecided(h, w) /\ Passing(h, w)' = Passing(h, w)
      BY <2>1, <2>3 DEF Undecided, Passing, MinuteOf, Payload
  <2> QED BY <1>1, <1>2, <2>4
<1> QED BY <1>3, <1>4

(* So, of a handler that alone may have added to it, the sum knows.         *)
LEMMA UndecidedSum ==
    ASSUME TypeOK, TypeOK', [Next]_vars, NEW g \in Gateways, NEW w \in Windows,
           \A h \in Gateways \ {g} : ~CountMinute(h)
    PROVE  /\ SumFunction(UndecidedIn(w)') + Undecided(g, w)
                <= SumFunction(UndecidedIn(w)) + Undecided(g, w)'
           /\ SumFunction(PassingIn(w)') + Passing(g, w)
                <= SumFunction(PassingIn(w)) + Passing(g, w)'
<1>1. /\ UndecidedIn(w)[g] = Undecided(g, w) /\ UndecidedIn(w)'[g] = Undecided(g, w)'
      /\ PassingIn(w)[g] = Passing(g, w) /\ PassingIn(w)'[g] = Passing(g, w)'
    BY DEF UndecidedIn, PassingIn
<1>2. \A h \in Gateways \ {g} : /\ UndecidedIn(w)'[h] <= UndecidedIn(w)[h]
                                /\ PassingIn(w)'[h] <= PassingIn(w)[h]
    BY UndecidedFalls
<1>3. /\ UndecidedIn(w)' \in [Gateways -> Nat] /\ PassingIn(w)' \in [Gateways -> Nat]
      /\ UndecidedIn(w) \in [Gateways -> Nat] /\ PassingIn(w) \in [Gateways -> Nat]
    BY NextTypes DEF PartsOK
<1> QED BY <1>1, <1>2, <1>3, FiniteProcesses, SumRise
(* What a counter rises by, its sum rises by; below the limit, so does what *)
(* it has let through at most.                                              *)
LEMMA CountersRise ==
    ASSUME TypeOK, TypeOK', NEW c \in Counters, NEW v \in Windows, NEW n \in Nat,
           \A e \in Counters, w \in Windows : used[e][w] <= used'[e][w],
           used[c][v] + n <= used'[c][v], NEW w \in Windows
    PROVE  /\ SumFunction(SeenIn(w)) + (IF w = v THEN n ELSE 0) <= SumFunction(SeenIn(w)')
           /\ SumFunction(CappedIn(w))
                    + (IF w = v /\ used[c][v] + n <= LimitOf(v) THEN n ELSE 0)
                <= SumFunction(CappedIn(w)')
<1>1. /\ \A e \in Counters : /\ SeenIn(w)[e] = used[e][w] /\ SeenIn(w)'[e] = used'[e][w]
                             /\ CappedIn(w)[e] = Capped(e, w)
                             /\ CappedIn(w)'[e] = Capped(e, w)'
      /\ SeenIn(w) \in [Counters -> Nat] /\ SeenIn(w)' \in [Counters -> Nat]
      /\ CappedIn(w) \in [Counters -> Nat] /\ CappedIn(w)' \in [Counters -> Nat]
      /\ SumFunction(SeenIn(w)) \in Nat /\ SumFunction(SeenIn(w)') \in Nat
      /\ SumFunction(CappedIn(w)) \in Nat /\ SumFunction(CappedIn(w)') \in Nat
    BY NextTypes DEF PartsOK, SumsOK, SeenIn, CappedIn
<1>2. /\ LimitOf(w) \in Nat
      /\ \A e \in Counters : used[e][w] \in Nat /\ used'[e][w] \in Nat
    BY LimitType DEF TypeOK
<1>3. \A e \in Counters : Capped(e, w) <= Capped(e, w)'
  <2> SUFFICES ASSUME NEW e \in Counters PROVE Capped(e, w) <= Capped(e, w)'
      OBVIOUS
  <2>1. used[e][w] <= used'[e][w]
      OBVIOUS
  <2>2. Capped(e, w)' = IF used'[e][w] < LimitOf(w) THEN used'[e][w] ELSE LimitOf(w)
      BY DEF Capped, LimitOf
  <2> QED BY <1>2, <2>1, <2>2 DEF Capped
<1>4. SumFunction(SeenIn(w)) + SeenIn(w)'[c] <= SumFunction(SeenIn(w)') + SeenIn(w)[c]
  <2>1. \A e \in Counters \ {c} : SeenIn(w)[e] <= SeenIn(w)'[e]
      BY <1>1
  <2> QED BY <1>1, <2>1, FiniteProcesses, SumRise
<1>5. SumFunction(CappedIn(w)) + CappedIn(w)'[c] <= SumFunction(CappedIn(w)') + CappedIn(w)[c]
  <2>1. \A e \in Counters \ {c} : CappedIn(w)[e] <= CappedIn(w)'[e]
      BY <1>1, <1>3
  <2> QED BY <1>1, <2>1, FiniteProcesses, SumRise
<1>6. SumFunction(SeenIn(w)) + (IF w = v THEN n ELSE 0) <= SumFunction(SeenIn(w)')
  <2>1. used[c][w] + (IF w = v THEN n ELSE 0) <= used'[c][w]
      BY <1>2
  <2>2. SumFunction(SeenIn(w)) + used'[c][w] <= SumFunction(SeenIn(w)') + used[c][w]
      BY <1>1, <1>4
  <2> QED BY <1>1, <1>2, <2>1, <2>2
<1>7. SumFunction(CappedIn(w)) + (IF w = v /\ used[c][v] + n <= LimitOf(v) THEN n ELSE 0)
        <= SumFunction(CappedIn(w)')
  <2> DEFINE d == IF w = v /\ used[c][v] + n <= LimitOf(v) THEN n ELSE 0
  <2>1. Capped(c, w) + d <= Capped(c, w)'
    <3>1. CASE w = v /\ used[c][v] + n <= LimitOf(v)
      <4>1. d = n /\ used[c][w] + n <= LimitOf(w) /\ used[c][w] + n <= used'[c][w]
          BY <3>1
      <4>2. Capped(c, w) = used[c][w]
          BY <1>2, <4>1 DEF Capped
      <4>3. Capped(c, w)' = IF used'[c][w] < LimitOf(w) THEN used'[c][w] ELSE LimitOf(w)
          BY DEF Capped, LimitOf
      <4> HIDE DEF d
      <4> QED BY <1>2, <4>1, <4>2, <4>3
    <3>2. CASE ~(w = v /\ used[c][v] + n <= LimitOf(v))
      <4>1. d = 0
          BY <3>2
      <4>2. Capped(c, w) \in Nat
          BY <1>2 DEF Capped
      <4> HIDE DEF d
      <4> QED BY <1>3, <4>1, <4>2
    <3> QED BY <3>1, <3>2
  <2>2. SumFunction(CappedIn(w)) + Capped(c, w)' <= SumFunction(CappedIn(w)') + Capped(c, w)
      BY <1>1, <1>5
  <2>3. Capped(c, w) \in Nat /\ Capped(c, w)' \in Nat /\ d \in Nat
      BY <1>1
  <2> HIDE DEF d
  <2>4. SumFunction(CappedIn(w)) + d <= SumFunction(CappedIn(w)')
      BY <1>1, <2>1, <2>2, <2>3
  <2> QED BY <2>4 DEF d
<1> QED BY <1>6, <1>7

(* The invariant of the next state, in the terms of its parts.              *)
LEMMA QuotaInvNext ==
    ASSUME \A w \in Windows :
              /\ crashes' = 0 =>
                    checked'[w] + SumFunction(UndecidedIn(w)') <= SumFunction(SeenIn(w)')
              /\ LimitOf(w) > 0 =>
                    allowed'[w] + SumFunction(PassingIn(w)')
                        <= SumFunction(CappedIn(w)') + LimitOf(w) * crashes'
    PROVE  QuotaInv'
BY DEF QuotaInv, AllSeen, AllWithin, LimitOf

(* A handler that counts its minute moves on to the day, alone.             *)
LEMMA MinuteStep ==
    ASSUME TypeOK, TypeOK', QuotaInv, [Next]_vars, NEW g \in Gateways, CountMinute(g)
    PROVE  QuotaInv'
<1> DEFINE n == SpanCount(Payload(g))
           v == MinuteOf(g)
<1>1. call[g].pc = "minute" /\ call[g].pc # "idle" /\ call[g].pc # "day"
    BY DEF CountMinute
<1>2. n \in Nat /\ v \in Windows
    BY <1>1, CountType, WindowType
<1>3. PICK c \in {Shared, g} :
        /\ CountIn(c, g, v)
        /\ call' = [call EXCEPT ![g].pc = "day", ![g].inMinute = Total(used[c][v], n)]
    BY DEF CountMinute
<1>4. /\ c \in Counters
      /\ \A e \in Counters, w \in Windows : used[e][w] <= used'[e][w]
      /\ used[c][v] + n <= used'[c][v]
    BY <1>1, <1>2, <1>3, CountInType DEF Total
<1>5. /\ call'[g].pc = "day" /\ call'[g].at = call[g].at /\ call'[g].body = call[g].body
      /\ call'[g].inMinute = used[c][v] + n
      /\ \A h \in Gateways \ {g} : call'[h] = call[h]
    BY <1>3 DEF TypeOK, Call, Total
<1>6. UNCHANGED <<bodies, checked, allowed, crashes>>
    BY DEF CountMinute, clientVars
<1>7. \A h \in Gateways \ {g} : ~CountMinute(h)
  <2> SUFFICES ASSUME NEW h \in Gateways \ {g}, CountMinute(h) PROVE FALSE
      OBVIOUS
  <2>1. call'[g] = call[g]
      BY DEF CountMinute, TypeOK
  <2> QED BY <1>1, <1>5, <2>1
<1>8. \A w \in Windows :
        /\ Undecided(g, w) = 0 /\ Passing(g, w) = 0
        /\ Undecided(g, w)' = IF w = v THEN n ELSE 0
        /\ Passing(g, w)' = IF w # v \/ Over(used[c][v] + n, LimitMinute) THEN 0 ELSE n
  <2>1. \A w \in Windows : Undecided(g, w)' = IF w = v THEN n ELSE 0
      BY <1>5, <1>6 DEF Undecided, MinuteOf, Payload
  <2>2. \A w \in Windows : Undecided(g, w) = 0 /\ Passing(g, w) = 0
      BY <1>1 DEF Undecided, Passing
  <2>3. \A w \in Windows :
          Passing(g, w)' = IF Over(used[c][v] + n, LimitMinute) THEN 0 ELSE Undecided(g, w)'
      BY <1>5 DEF Passing
  <2> HIDE DEF n, v
  <2> QED BY <2>1, <2>2, <2>3
<1>9. LimitOf(v) = LimitMinute
    BY DEF LimitOf, MinuteOf
<1> HIDE DEF n, v
<1>10. ASSUME NEW w \in Windows
       PROVE  /\ crashes' = 0 =>
                    checked'[w] + SumFunction(UndecidedIn(w)') <= SumFunction(SeenIn(w)')
              /\ LimitOf(w) > 0 =>
                    allowed'[w] + SumFunction(PassingIn(w)')
                        <= SumFunction(CappedIn(w)') + LimitOf(w) * crashes'
  <2>1. /\ SumFunction(UndecidedIn(w)') + Undecided(g, w)
            <= SumFunction(UndecidedIn(w)) + Undecided(g, w)'
        /\ SumFunction(PassingIn(w)') + Passing(g, w)
            <= SumFunction(PassingIn(w)) + Passing(g, w)'
      BY <1>7, UndecidedSum
  <2>2. /\ SumFunction(SeenIn(w)) + (IF w = v THEN n ELSE 0) <= SumFunction(SeenIn(w)')
        /\ SumFunction(CappedIn(w)) + (IF w = v /\ used[c][v] + n <= LimitOf(v) THEN n ELSE 0)
            <= SumFunction(CappedIn(w)')
      BY <1>2, <1>4, CountersRise
  <2>3. /\ SumFunction(UndecidedIn(w)) \in Nat /\ SumFunction(UndecidedIn(w)') \in Nat
        /\ SumFunction(PassingIn(w)) \in Nat /\ SumFunction(PassingIn(w)') \in Nat
        /\ SumFunction(SeenIn(w)) \in Nat /\ SumFunction(SeenIn(w)') \in Nat
        /\ SumFunction(CappedIn(w)) \in Nat /\ SumFunction(CappedIn(w)') \in Nat
      BY NextTypes DEF SumsOK
  <2>4. /\ checked[w] \in Nat /\ allowed[w] \in Nat /\ LimitOf(w) \in Nat /\ crashes \in Nat
        /\ used[c][v] \in Nat
      BY <1>2, <1>4, LimitType DEF TypeOK
  <2>5. crashes' = 0 => checked'[w] + SumFunction(UndecidedIn(w)') <= SumFunction(SeenIn(w)')
    <3>1. crashes = 0 => checked[w] + SumFunction(UndecidedIn(w)) <= SumFunction(SeenIn(w))
        BY DEF QuotaInv, AllSeen
    <3>2. SumFunction(UndecidedIn(w)') <= SumFunction(UndecidedIn(w)) + (IF w = v THEN n ELSE 0)
        BY <1>8, <2>1, <2>3
    <3> QED BY <1>2, <1>6, <2>2, <2>3, <2>4, <3>1, <3>2
  <2>6. ASSUME LimitOf(w) > 0
        PROVE  allowed'[w] + SumFunction(PassingIn(w)')
                  <= SumFunction(CappedIn(w)') + LimitOf(w) * crashes'
    <3> DEFINE d == IF w # v \/ Over(used[c][v] + n, LimitMinute) THEN 0 ELSE n
               most == LimitOf(w) * crashes
    <3>1. allowed[w] + SumFunction(PassingIn(w)) <= SumFunction(CappedIn(w)) + most
        BY <2>6 DEF QuotaInv, AllWithin
    <3>2. SumFunction(PassingIn(w)') <= SumFunction(PassingIn(w)) + d
        BY <1>2, <1>8, <2>1, <2>3
    <3>3. SumFunction(CappedIn(w)) + d <= SumFunction(CappedIn(w)')
        BY <1>2, <1>9, <2>2, <2>3, <2>4, <2>6 DEF Over
    <3>4. most \in Nat /\ most = LimitOf(w) * crashes' /\ d \in Nat
        BY <1>2, <1>6, <2>4
    <3> HIDE DEF most, d
    <3>5. allowed[w] + SumFunction(PassingIn(w)') <= SumFunction(CappedIn(w)') + most
        BY <2>3, <2>4, <3>1, <3>2, <3>3, <3>4
    <3> QED BY <1>6, <3>4, <3>5
  <2> QED BY <2>5, <2>6
<1> QED BY <1>10, QuotaInvNext

(* A handler that counts its day decides: what it had undecided is charged. *)
LEMMA DayStep ==
    ASSUME TypeOK, TypeOK', QuotaInv, [Next]_vars, NEW g \in Gateways, CountDay(g),
           \A h \in Gateways : ~CountMinute(h)
    PROVE  QuotaInv'
<1> DEFINE n == SpanCount(Payload(g))
           v == MinuteOf(g)
           u == DayOf(g)
<1>1. call[g].pc = "day" /\ call[g].pc # "idle"
    BY DEF CountDay
<1>2. n \in Nat /\ v \in Windows /\ u \in Windows
    BY <1>1, CountType, WindowType
<1>3. v # u /\ LimitOf(v) = LimitMinute /\ LimitOf(u) = LimitDay
    BY DEF MinuteOf, DayOf, LimitOf
<1>4. PICK c \in {Shared, g} :
        /\ CountIn(c, g, u)
        /\ \/ allowed' = allowed
           \/ /\ ~Rejected(call[g].inMinute, Total(used[c][u], n))
              /\ allowed' = [allowed EXCEPT ![v] = @ + n, ![u] = @ + n]
    BY DEF CountDay
<1>5. /\ c \in Counters
      /\ \A e \in Counters, w \in Windows : used[e][w] <= used'[e][w]
      /\ used[c][u] + n <= used'[c][u]
    BY <1>1, <1>2, <1>4, CountInType DEF Total
<1>6. checked' = [checked EXCEPT ![v] = @ + n, ![u] = @ + n] /\ crashes' = crashes
    BY DEF CountDay
<1>7. call'[g].pc # "day"
  <2>1. \/ call' = [call EXCEPT ![g] = NoCall]
        \/ \E s : call' = [call EXCEPT ![g].pc = AfterQuota, ![g].soft = s]
      BY DEF CountDay, Answer
  <2>2. call \in [Gateways -> Call] /\ NoCall.pc # "day" /\ AfterQuota # "day"
      BY DEF TypeOK, NoCall, AfterQuota
  <2>3. CASE call' = [call EXCEPT ![g] = NoCall]
      BY <2>2, <2>3
  <2>4. ASSUME NEW s, call' = [call EXCEPT ![g].pc = AfterQuota, ![g].soft = s]
        PROVE  call'[g].pc # "day"
      BY <2>2, <2>4 DEF Call
  <2> QED BY <2>1, <2>3, <2>4
<1>8. \A w \in Windows :
        /\ Undecided(g, w)' = 0 /\ Passing(g, w)' = 0
        /\ Undecided(g, w) = IF w = v THEN n ELSE 0
        /\ Passing(g, w) = IF w # v \/ Over(call[g].inMinute, LimitMinute) THEN 0 ELSE n
    BY <1>1, <1>7 DEF Undecided, Passing
<1>9. call[g].inMinute \in Nat
    BY DEF TypeOK, Call
<1> HIDE DEF n, v, u
<1>10. ASSUME NEW w \in Windows
       PROVE  /\ crashes' = 0 =>
                    checked'[w] + SumFunction(UndecidedIn(w)') <= SumFunction(SeenIn(w)')
              /\ LimitOf(w) > 0 =>
                    allowed'[w] + SumFunction(PassingIn(w)')
                        <= SumFunction(CappedIn(w)') + LimitOf(w) * crashes'
  <2>1. /\ SumFunction(UndecidedIn(w)') + Undecided(g, w)
            <= SumFunction(UndecidedIn(w)) + Undecided(g, w)'
        /\ SumFunction(PassingIn(w)') + Passing(g, w)
            <= SumFunction(PassingIn(w)) + Passing(g, w)'
      BY UndecidedSum
  <2>2. /\ SumFunction(SeenIn(w)) + (IF w = u THEN n ELSE 0) <= SumFunction(SeenIn(w)')
        /\ SumFunction(CappedIn(w)) + (IF w = u /\ used[c][u] + n <= LimitOf(u) THEN n ELSE 0)
            <= SumFunction(CappedIn(w)')
      BY <1>2, <1>5, CountersRise
  <2>3. /\ SumFunction(UndecidedIn(w)) \in Nat /\ SumFunction(UndecidedIn(w)') \in Nat
        /\ SumFunction(PassingIn(w)) \in Nat /\ SumFunction(PassingIn(w)') \in Nat
        /\ SumFunction(SeenIn(w)) \in Nat /\ SumFunction(SeenIn(w)') \in Nat
        /\ SumFunction(CappedIn(w)) \in Nat /\ SumFunction(CappedIn(w)') \in Nat
      BY NextTypes DEF SumsOK
  <2>4. /\ checked \in [Windows -> Nat] /\ allowed \in [Windows -> Nat]
        /\ checked[w] \in Nat /\ allowed[w] \in Nat /\ LimitOf(w) \in Nat /\ crashes \in Nat
        /\ used[c][u] \in Nat /\ LimitDay \in Nat
      BY <1>2, <1>5, LimitType, LimitsAssumption DEF TypeOK
  <2>5. crashes' = 0 => checked'[w] + SumFunction(UndecidedIn(w)') <= SumFunction(SeenIn(w)')
    <3> DEFINE inMin == IF w = v THEN n ELSE 0
               inDay == IF w = u THEN n ELSE 0
    <3>1. crashes = 0 => checked[w] + SumFunction(UndecidedIn(w)) <= SumFunction(SeenIn(w))
        BY DEF QuotaInv, AllSeen
    <3>2. SumFunction(UndecidedIn(w)') + inMin <= SumFunction(UndecidedIn(w))
        BY <1>2, <1>8, <2>1, <2>3
    <3>3. checked'[w] = checked[w] + inMin + inDay
        BY <1>2, <1>3, <1>6, <2>4
    <3>4. /\ inMin \in Nat /\ inDay \in Nat
          /\ SumFunction(SeenIn(w)) + inDay <= SumFunction(SeenIn(w)')
        BY <1>2, <2>2
    <3> HIDE DEF inMin, inDay
    <3> QED BY <1>6, <2>3, <2>4, <3>1, <3>2, <3>3, <3>4
  <2>6. ASSUME LimitOf(w) > 0
        PROVE  allowed'[w] + SumFunction(PassingIn(w)')
                  <= SumFunction(CappedIn(w)') + LimitOf(w) * crashes'
    <3> DEFINE inMin == IF w # v \/ Over(call[g].inMinute, LimitMinute) THEN 0 ELSE n
               inDay == IF w = u /\ used[c][u] + n <= LimitOf(u) THEN n ELSE 0
               most == LimitOf(w) * crashes
    <3>1. allowed[w] + SumFunction(PassingIn(w)) <= SumFunction(CappedIn(w)) + most
        BY <2>6 DEF QuotaInv, AllWithin
    <3>2. SumFunction(PassingIn(w)') + inMin <= SumFunction(PassingIn(w))
        BY <1>2, <1>8, <2>1, <2>3
    <3>3. SumFunction(CappedIn(w)) + inDay <= SumFunction(CappedIn(w)')
        BY <2>2
    <3>4. most \in Nat /\ most = LimitOf(w) * crashes' /\ inMin \in Nat /\ inDay \in Nat
        BY <1>2, <1>6, <2>4
    <3>5. allowed'[w] <= allowed[w] + inMin + inDay
      <4>1. CASE allowed' = allowed
        <5> HIDE DEF inMin, inDay
        <5> QED BY <2>4, <3>4, <4>1
      <4>2. CASE /\ ~Rejected(call[g].inMinute, Total(used[c][u], n))
                 /\ allowed' = [allowed EXCEPT ![v] = @ + n, ![u] = @ + n]
        <5>1. ~Over(call[g].inMinute, LimitMinute) /\ ~Over(used[c][u] + n, LimitDay)
            BY <4>2 DEF Rejected, Total
        <5>2. w = v => inMin = n
            BY <5>1
        <5>3. w = u => inDay = n
            BY <1>2, <1>3, <2>4, <2>6, <5>1 DEF Over
        <5>4. allowed'[w] = IF w = v THEN allowed[w] + n
                            ELSE IF w = u THEN allowed[w] + n ELSE allowed[w]
            BY <1>2, <1>3, <2>4, <4>2
        <5> HIDE DEF inMin, inDay
        <5> QED BY <1>2, <2>4, <3>4, <5>2, <5>3, <5>4
      <4> QED BY <1>4, <4>1, <4>2
    <3>6. allowed'[w] \in Nat
        BY DEF TypeOK
    <3> HIDE DEF most, inMin, inDay
    <3>7. allowed'[w] + SumFunction(PassingIn(w)') <= SumFunction(CappedIn(w)') + most
        BY <2>3, <2>4, <3>1, <3>2, <3>3, <3>4, <3>5, <3>6
    <3> QED BY <3>4, <3>7
  <2> QED BY <2>5, <2>6
<1> QED BY <1>10, QuotaInvNext

(* A crash takes a process's counters with it: a limit's worth at most of   *)
(* each, which the count of crashes makes up for.                           *)
LEMMA CrashStep ==
    ASSUME TypeOK, TypeOK', QuotaInv, [Next]_vars, NEW g \in Gateways, Crash(g),
           \A h \in Gateways : ~CountMinute(h)
    PROVE  QuotaInv'
<1>1. /\ crashes' = crashes + 1 /\ UNCHANGED <<checked, allowed>>
      /\ used' = [used EXCEPT ![g] = NoCounts] /\ g \in Counters
      /\ used \in [Counters -> [Windows -> Nat]]
    BY DEF Crash, TypeOK, Counters
<1>2. ASSUME NEW w \in Windows
      PROVE  /\ crashes' = 0 =>
                    checked'[w] + SumFunction(UndecidedIn(w)') <= SumFunction(SeenIn(w)')
             /\ LimitOf(w) > 0 =>
                    allowed'[w] + SumFunction(PassingIn(w)')
                        <= SumFunction(CappedIn(w)') + LimitOf(w) * crashes'
  <2>1. /\ allowed[w] \in Nat /\ LimitOf(w) \in Nat /\ crashes \in Nat
        /\ \A e \in Counters : used[e][w] \in Nat
      BY LimitType DEF TypeOK
  <2>2. /\ SumFunction(PassingIn(w)) \in Nat /\ SumFunction(PassingIn(w)') \in Nat
        /\ SumFunction(CappedIn(w)) \in Nat /\ SumFunction(CappedIn(w)') \in Nat
        /\ PassingIn(w) \in [Gateways -> Nat] /\ PassingIn(w)' \in [Gateways -> Nat]
        /\ CappedIn(w) \in [Counters -> Nat] /\ CappedIn(w)' \in [Counters -> Nat]
      BY NextTypes DEF SumsOK, PartsOK
  <2>3. SumFunction(PassingIn(w)') <= SumFunction(PassingIn(w))
    <3>1. \A h \in Gateways : PassingIn(w)'[h] <= PassingIn(w)[h]
        BY UndecidedFalls
    <3> QED BY <2>2, <3>1, FiniteProcesses, SumMonotone
  <2>4. SumFunction(CappedIn(w)) + CappedIn(w)'[g] <= SumFunction(CappedIn(w)') + CappedIn(w)[g]
    <3>1. \A e \in Counters \ {g} : used'[e][w] = used[e][w]
        BY <1>1
    <3>2. \A e \in Counters \ {g} : CappedIn(w)[e] <= CappedIn(w)'[e]
      <4> SUFFICES ASSUME NEW e \in Counters \ {g} PROVE CappedIn(w)[e] <= CappedIn(w)'[e]
          OBVIOUS
      <4>1. CappedIn(w)[e] = Capped(e, w) /\ CappedIn(w)'[e] = Capped(e, w)'
          BY DEF CappedIn
      <4>2. Capped(e, w)' = Capped(e, w)
          BY <3>1 DEF Capped, LimitOf
      <4>3. CappedIn(w)[e] \in Nat
          BY <2>2
      <4> QED BY <4>1, <4>2, <4>3
    <3> QED BY <1>1, <2>2, <3>2, FiniteProcesses, SumRise
  <2>5. CappedIn(w)[g] <= LimitOf(w) /\ CappedIn(w)[g] \in Nat /\ CappedIn(w)'[g] \in Nat
    <3>1. CappedIn(w)[g] = Capped(g, w)
        BY <1>1 DEF CappedIn
    <3>2. Capped(g, w) <= LimitOf(w)
        BY <1>1, <2>1 DEF Capped
    <3> QED BY <1>1, <2>2, <3>1, <3>2
  <2>6. ASSUME LimitOf(w) > 0
        PROVE  allowed'[w] + SumFunction(PassingIn(w)')
                  <= SumFunction(CappedIn(w)') + LimitOf(w) * crashes'
    <3> DEFINE most == LimitOf(w) * crashes
    <3>1. allowed[w] + SumFunction(PassingIn(w)) <= SumFunction(CappedIn(w)) + most
        BY <2>6 DEF QuotaInv, AllWithin
    <3>2. LimitOf(w) * crashes' = most + LimitOf(w) /\ most \in Nat
      <4>1. \A a, b \in Nat : a * (b + 1) = a * b + a /\ a * b \in Nat
          OBVIOUS
      <4> QED BY <1>1, <2>1, <4>1
    <3> HIDE DEF most
    <3>3. allowed[w] + SumFunction(PassingIn(w)')
            <= SumFunction(CappedIn(w)') + (most + LimitOf(w))
        BY <2>1, <2>2, <2>3, <2>4, <2>5, <3>1, <3>2
    <3> QED BY <1>1, <3>2, <3>3
  <2> QED BY <1>1, <2>1, <2>6
<1> QED BY <1>2, QuotaInvNext

(* No other step touches the counters or what was charged.                  *)
LEMMA QuietStep ==
    ASSUME TypeOK, TypeOK', QuotaInv, [Next]_vars,
           \A h \in Gateways : ~CountMinute(h) /\ ~CountDay(h) /\ ~Crash(h)
    PROVE  QuotaInv'
<1>1. UNCHANGED <<used, checked, allowed, crashes>>
    BY DEF Next, NewBody, MinuteTurns, vars, Post, Store, StoreError, Forward, ForwardError,
           quotaVars
<1>2. ASSUME NEW w \in Windows
      PROVE  /\ crashes' = 0 =>
                    checked'[w] + SumFunction(UndecidedIn(w)') <= SumFunction(SeenIn(w)')
             /\ LimitOf(w) > 0 =>
                    allowed'[w] + SumFunction(PassingIn(w)')
                        <= SumFunction(CappedIn(w)') + LimitOf(w) * crashes'
  <2>1. /\ SumFunction(UndecidedIn(w)) \in Nat /\ SumFunction(UndecidedIn(w)') \in Nat
        /\ SumFunction(PassingIn(w)) \in Nat /\ SumFunction(PassingIn(w)') \in Nat
        /\ SumFunction(CappedIn(w)) \in Nat /\ SumFunction(SeenIn(w)) \in Nat
        /\ UndecidedIn(w) \in [Gateways -> Nat] /\ UndecidedIn(w)' \in [Gateways -> Nat]
        /\ PassingIn(w) \in [Gateways -> Nat] /\ PassingIn(w)' \in [Gateways -> Nat]
      BY NextTypes DEF SumsOK, PartsOK
  <2>2. /\ \A h \in Gateways : UndecidedIn(w)'[h] <= UndecidedIn(w)[h]
        /\ \A h \in Gateways : PassingIn(w)'[h] <= PassingIn(w)[h]
      BY UndecidedFalls
  <2>3. /\ SumFunction(UndecidedIn(w)') <= SumFunction(UndecidedIn(w))
        /\ SumFunction(PassingIn(w)') <= SumFunction(PassingIn(w))
      BY <2>1, <2>2, FiniteProcesses, SumMonotone
  <2>4. SeenIn(w)' = SeenIn(w) /\ CappedIn(w)' = CappedIn(w)
      BY <1>1 DEF SeenIn, CappedIn, Capped, LimitOf
  <2>5. /\ checked[w] \in Nat /\ allowed[w] \in Nat /\ LimitOf(w) \in Nat /\ crashes \in Nat
      BY LimitType DEF TypeOK
  <2>6. crashes = 0 => checked[w] + SumFunction(UndecidedIn(w)) <= SumFunction(SeenIn(w))
      BY DEF QuotaInv, AllSeen
  <2>7. ASSUME LimitOf(w) > 0
        PROVE  allowed[w] + SumFunction(PassingIn(w)')
                  <= SumFunction(CappedIn(w)) + LimitOf(w) * crashes
    <3> DEFINE most == LimitOf(w) * crashes
    <3>1. allowed[w] + SumFunction(PassingIn(w)) <= SumFunction(CappedIn(w)) + most
        BY <2>7 DEF QuotaInv, AllWithin
    <3>2. most \in Nat
        BY <2>5
    <3> HIDE DEF most
    <3>3. allowed[w] + SumFunction(PassingIn(w)') <= SumFunction(CappedIn(w)) + most
        BY <2>1, <2>3, <2>5, <3>1, <3>2
    <3> QED BY <3>3 DEF most
  <2>8. crashes = 0 => checked[w] + SumFunction(UndecidedIn(w)') <= SumFunction(SeenIn(w))
      BY <2>1, <2>3, <2>5, <2>6
  <2> QED BY <1>1, <2>4, <2>7, <2>8
<1> QED BY <1>2, QuotaInvNext

LEMMA QuotaInvInit == Init => QuotaInv
<1> SUFFICES ASSUME Init, NEW w \in Windows
    PROVE  /\ crashes = 0 => AllSeen(w)
           /\ LimitOf(w) > 0 => AllWithin(w)
    BY DEF QuotaInv
<1>1. /\ crashes = 0 /\ checked[w] = 0 /\ allowed[w] = 0
      /\ \A c \in Counters : used[c][w] = 0
      /\ \A g \in Gateways : call[g].pc = "idle"
    BY DEF Init, NoCounts, NoCall
<1>2. LimitOf(w) \in Nat
    BY LimitType
<1>3. /\ UndecidedIn(w) = [g \in Gateways |-> 0] /\ PassingIn(w) = [g \in Gateways |-> 0]
    BY <1>1 DEF UndecidedIn, PassingIn, Undecided, Passing
<1>4. SeenIn(w) = [c \in Counters |-> 0] /\ CappedIn(w) = [c \in Counters |-> 0]
    BY <1>1, <1>2 DEF SeenIn, CappedIn, Capped
<1>5. /\ SumFunction([g \in Gateways |-> 0]) = 0
      /\ SumFunction([c \in Counters |-> 0]) = 0
  <2>1. /\ [g \in Gateways |-> 0] \in [Gateways -> Nat]
        /\ [c \in Counters |-> 0] \in [Counters -> Nat]
      OBVIOUS
  <2> QED BY <2>1, FiniteProcesses, SumZero
<1> QED BY <1>1, <1>2, <1>3, <1>4, <1>5 DEF AllSeen, AllWithin

(* What each counter has let through is no more than the limit, and nothing *)
(* if it has not counted.                                                   *)
LEMMA QuotaInvSays == TypeOK /\ QuotaInv => CountersHold
<1> SUFFICES ASSUME TypeOK, QuotaInv PROVE FleetLimit /\ CountersSeeAll
    BY DEF CountersHold
<1>0. ASSUME NEW w \in Windows
      PROVE  /\ SumFunction(UndecidedIn(w)) \in Nat /\ SumFunction(PassingIn(w)) \in Nat
             /\ SumFunction(CappedIn(w)) \in Nat /\ SumFunction(SeenIn(w)) \in Nat
             /\ CappedIn(w) \in [Counters -> Nat]
             /\ checked[w] \in Nat /\ allowed[w] \in Nat /\ LimitOf(w) \in Nat
             /\ crashes \in Nat /\ \A c \in Counters : used[c][w] \in Nat
    BY PartsType, SumsType, LimitType DEF PartsOK, SumsOK, TypeOK
<1>1. ASSUME NEW w \in Windows, LimitOf(w) > 0
      PROVE  allowed[w] <= LimitOf(w) * (Cardinality({c \in Counters : used[c][w] > 0}) + crashes)
  <2> DEFINE S == {c \in Counters : used[c][w] > 0}
             k == Cardinality(S)
  <2>1. k \in Nat
      BY FiniteProcesses, FS_Subset, FS_CardinalityType
  <2>2. \A c \in Counters : CappedIn(w)[c] = Capped(c, w) /\ Capped(c, w) <= LimitOf(w)
    <3> SUFFICES ASSUME NEW c \in Counters
                 PROVE  CappedIn(w)[c] = Capped(c, w) /\ Capped(c, w) <= LimitOf(w)
        OBVIOUS
    <3>1. used[c][w] \in Nat /\ LimitOf(w) \in Nat
        BY <1>0
    <3>2. Capped(c, w) <= LimitOf(w)
        BY <3>1 DEF Capped
    <3> QED BY <3>2 DEF CappedIn
  <2>3. \A c \in Counters \ S : CappedIn(w)[c] = 0
      BY <1>0, <1>1, <2>2 DEF Capped
  <2>4. SumFunction(CappedIn(w)) <= LimitOf(w) * k
    <3>1. S \in SUBSET Counters
        OBVIOUS
    <3> HIDE DEF S
    <3> QED BY <1>0, <2>2, <2>3, <3>1, FiniteProcesses, SumBound
  <2>5. allowed[w] + SumFunction(PassingIn(w)) <= SumFunction(CappedIn(w)) + LimitOf(w) * crashes
      BY <1>1 DEF QuotaInv, AllWithin
  <2>6. LimitOf(w) * (k + crashes) = LimitOf(w) * k + LimitOf(w) * crashes
    <3>1. \A a, b, d \in Nat : a * (b + d) = a * b + a * d
        OBVIOUS
    <3> HIDE DEF k
    <3> QED BY <1>0, <2>1, <3>1
  <2>7. LimitOf(w) * k \in Nat /\ LimitOf(w) * crashes \in Nat
      BY <1>0, <2>1
  <2>8. allowed[w] <= LimitOf(w) * k + LimitOf(w) * crashes
    <3> DEFINE most == LimitOf(w) * k
               more == LimitOf(w) * crashes
    <3>1. most \in Nat /\ more \in Nat /\ SumFunction(CappedIn(w)) <= most
          /\ allowed[w] + SumFunction(PassingIn(w)) <= SumFunction(CappedIn(w)) + more
        BY <2>4, <2>5, <2>7
    <3> HIDE DEF most, more
    <3>2. allowed[w] <= most + more
        BY <1>0, <3>1
    <3> QED BY <3>2 DEF most, more
  <2> QED BY <2>6, <2>8
<1>2. ASSUME crashes = 0, NEW w \in Windows
      PROVE  checked[w] <= SumFunction([c \in Counters |-> used[c][w]])
  <2>1. checked[w] + SumFunction(UndecidedIn(w)) <= SumFunction(SeenIn(w))
      BY <1>2 DEF QuotaInv, AllSeen
  <2>2. checked[w] <= SumFunction(SeenIn(w))
      BY <1>0, <2>1
  <2> QED BY <2>2 DEF SeenIn
<1> QED BY <1>1, <1>2 DEF FleetLimit, CountersSeeAll

(* CountersAlways: the counters let through no more than their limits for   *)
(* each counter that had a part in it, and miss nothing that was ruled upon *)
(* (CountersHold).                                                          *)
THEOREM CountersAlways == Spec => []CountersHold
<1>1. TypeOK /\ TypeOK' /\ QuotaInv /\ [Next]_vars => QuotaInv'
  <2> SUFFICES ASSUME TypeOK, TypeOK', QuotaInv, [Next]_vars PROVE QuotaInv'
      OBVIOUS
  <2>1. CASE \E g \in Gateways : CountMinute(g)
      BY <2>1, MinuteStep
  <2>2. CASE \A h \in Gateways : ~CountMinute(h)
      BY <2>2, DayStep, CrashStep, QuietStep
  <2> QED BY <2>1, <2>2
<1> QED BY <1>1, QuotaInvInit, QuotaInvSays, TypeCorrect, PTL DEF Spec
=============================================================================
