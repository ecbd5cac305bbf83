----------------------------- MODULE ReplayProofs -----------------------------
(***************************************************************************)
(* Proofs about replays, for any number of requests, batches, tenants,     *)
(* streams, limits and crashes.                                            *)
(*                                                                         *)
(* The store keeps what was requested, once, in the stream it was          *)
(* requested for (StoreInv), and logs only grow (LogGrows).  A batch has   *)
(* called for its copies one after the other (CopiesAppended); its sources *)
(* are stored, of its caller's tenant (SourcesStored), and the copies are  *)
(* requested for the streams of their sources (CopiesLikeSources).  A copy *)
(* that takes effect is then behind its source (SourcesBefore) and behind  *)
(* the earlier copies of its batch (CopyOrder).  Positions are numbers, so *)
(* a chain of copies of copies has a first one (SourceChainsEnd).          *)
(***************************************************************************)
EXTENDS Replay, FiniteSetTheorems, WellFoundedInduction, TLAPS

\* A request that reached the store carries its own id and has a time.
RequestIds ==
    \A i \in Ids : reply[i] # "none" =>
        request[i] \in Store!Event /\ request[i].id = i /\ i \in ToSet(born)

BornRequested == \A n \in DOMAIN born : reply[born[n]] # "none"

\* What is logged is what was requested, in the stream it named, once.
LoggedIsRequested ==
    \A s \in Streams : \A v \in DOMAIN log[s] :
        LET i == log[s][v].id
        IN /\ i \in Ids /\ reply[i] # "none"
           /\ log[s][v] = request[i] /\ request[i].stream = s

LoggedOnce ==
    \A s \in Streams : \A v, w \in DOMAIN log[s] : log[s][v].id = log[s][w].id => v = w

InLog(i) == \E s \in Streams : \E v \in DOMAIN log[s] : log[s][v].id = i

OkIsStored == \A i \in Ids : reply[i] = "ok" => InLog(i)

StoreInv == RequestIds /\ BornRequested /\ LoggedIsRequested /\ LoggedOnce /\ OkIsStored

\* The copies of a batch up to copied[b] have been answered, and at most one
\* more has been asked for.
CopiesAppended ==
    \A b \in Batches :
       /\ copied[b] <= Len(matched[b]) /\ Len(matched[b]) <= MaxLimit
       /\ phase[b] = "idle" => matched[b] = <<>>
       /\ phase[b] \in {"publishing", "done"} => copied[b] = Len(matched[b])
       /\ \A k \in 1 .. MaxLimit :
             /\ k <= copied[b] => reply[<<b, k>>] = "ok"
             /\ k > copied[b] + 1 \/ k > Len(matched[b]) => reply[<<b, k>>] = "none"

SourcesStored ==
    \A b \in Batches : \A k \in DOMAIN matched[b] :
        InLog(matched[b][k]) /\ request[matched[b][k]].tenant = caller[b]

CopiesLikeSources ==
    \A b \in Batches, k \in 1 .. MaxLimit : reply[<<b, k>>] # "none" =>
        /\ request[<<b, k>>].tenant = request[matched[b][k]].tenant
        /\ request[<<b, k>>].stream = request[matched[b][k]].stream

\* Only batches that are through with their appends publish.
PublishedComplete ==
    \A b \in Batches, k \in 1 .. MaxLimit : <<b, k>> \in topic =>
        /\ phase[b] \in {"publishing", "done", "dead"}
        /\ copied[b] = Len(matched[b])

BatchInv == CopiesAppended /\ SourcesStored /\ CopiesLikeSources /\ PublishedComplete

CopyOrder ==
    \A s \in Streams : \A v, w \in DOMAIN log[s] : \A b \in Batches, j, k \in 1 .. MaxLimit :
        log[s][v].id = <<b, j>> /\ log[s][w].id = <<b, k>> /\ j < k => v < w

SourcesBefore ==
    \A s \in Streams : \A v \in DOMAIN log[s] : \A b \in Batches, k \in 1 .. MaxLimit :
        log[s][v].id = <<b, k>> =>
           \E w \in 1 .. v - 1 : /\ log[s][w].id = matched[b][k]
                                 /\ log[s][w].tenant = log[s][v].tenant
                                 /\ log[s][v].tenant = caller[b]

IInv == TypeOK /\ StoreInv /\ BatchInv /\ CopyOrder /\ SourcesBefore

-----------------------------------------------------------------------------
LEMMA RecordedIsInLog == ASSUME NEW i PROVE Store!Recorded(i) <=> InLog(i)
  BY DEF Store!Recorded, Store!Positions, InLog

LEMMA CopyIds == \A b \in Batches, k \in 1 .. MaxLimit : <<b, k>> \in Copies /\ <<b, k>> \in Ids
  BY DEF Copies, Ids

LEMMA LogPositions ==
  ASSUME TypeOK, NEW s \in Streams
  PROVE  /\ log[s] \in Seq(Store!Event) /\ Len(log[s]) \in Nat
         /\ DOMAIN log[s] = 1 .. Len(log[s])
  BY DEF TypeOK

\* A call that takes effect adds its event at the end of its stream.
LEMMA LogGrows ==
  ASSUME TypeOK, RequestIds, NEW i \in Ids, Store!TakeEffect(i)
  PROVE  /\ request[i] \in Store!Event /\ request[i].stream \in Streams
         /\ log' \in [Streams -> Seq(Store!Event)]
         /\ \A s \in Streams : \A v \in DOMAIN log[s] :
               v \in DOMAIN log'[s] /\ log'[s][v] = log[s][v]
         /\ \A s \in Streams : \A v \in DOMAIN log'[s] :
               v \in DOMAIN log[s] \/ /\ s = request[i].stream /\ v = Len(log[s]) + 1
                                      /\ log'[s][v] = request[i]
<1> DEFINE z == request[i].stream
<1>1. request[i] \in Store!Event /\ z \in Streams
  BY DEF RequestIds, Store!TakeEffect, Store!Event
<1>2. log' = [log EXCEPT ![z] = Append(@, request[i])]
  BY DEF Store!TakeEffect
<1>3. \A s \in Streams : s # z => log'[s] = log[s]
  BY <1>2 DEF TypeOK
<1>4. log'[z] = Append(log[z], request[i]) /\ log[z] \in Seq(Store!Event)
  BY <1>1, <1>2 DEF TypeOK
<1>5. /\ log'[z] \in Seq(Store!Event)
      /\ DOMAIN log'[z] = DOMAIN log[z] \cup {Len(log[z]) + 1}
      /\ log'[z][Len(log[z]) + 1] = request[i]
      /\ \A v \in DOMAIN log[z] : log'[z][v] = log[z][v]
  BY <1>1, <1>4
<1> HIDE DEF z
<1>6. log' \in [Streams -> Seq(Store!Event)]
  BY <1>1, <1>2, <1>5 DEF TypeOK
<1>7. \A s \in Streams : \A v \in DOMAIN log[s] :
         v \in DOMAIN log'[s] /\ log'[s][v] = log[s][v]
  BY <1>1, <1>3, <1>5
<1>8. \A s \in Streams : \A v \in DOMAIN log'[s] :
         v \in DOMAIN log[s] \/ /\ s = z /\ v = Len(log[s]) + 1
                                /\ log'[s][v] = request[i]
  BY <1>1, <1>3, <1>5
<1> QED
  BY <1>1, <1>6, <1>7, <1>8 DEF z

\* What is in a log stays in it, and its request is not made again.
LEMMA InLogStays ==
  ASSUME NEW i, InLog(i),
         \A s \in Streams : \A v \in DOMAIN log[s] :
            v \in DOMAIN log'[s] /\ log'[s][v] = log[s][v]
  PROVE  InLog(i)'
  BY DEF InLog

LEMMA LoggedHasRequest ==
  ASSUME LoggedIsRequested, NEW i, InLog(i)
  PROVE  i \in Ids /\ reply[i] # "none"
  BY DEF LoggedIsRequested, InLog

-----------------------------------------------------------------------------
\* The query: what it returns when it was not cut off.

LEMMA MatchingIsFinite ==
  ASSUME TypeOK, StoreInv, NEW f
  PROVE  /\ Matching(f) \subseteq Ids /\ IsFiniteSet(Matching(f))
         /\ Cardinality(Matching(f)) \in Nat
<1>1. Matching(f) \subseteq ToSet(born)
  BY RecordedIsInLog, LoggedHasRequest DEF Matching, StoreInv, RequestIds
<1>2. IsFiniteSet(ToSet(born))
  <2>1. born \in [1 .. Len(born) -> Ids] /\ Len(born) \in Nat
    BY DEF TypeOK
  <2>2. born \in Surjection(1 .. Len(born), ToSet(born))
    BY <2>1 DEF Surjection, ToSet
  <2>3. IsFiniteSet(1 .. Len(born))
    BY <2>1, FS_Interval
  <2> QED
    BY <2>2, <2>3, FS_Surjection
<1>3. IsFiniteSet(Matching(f))
  BY <1>1, <1>2, FS_Subset
<1> QED
  BY <1>3, FS_CardinalityType DEF Matching

LEMMA SelectionIsMatching ==
  ASSUME TypeOK, StoreInv, NEW f, NEW limit \in Nat,
         NEW rows \in Selections(f, limit + 1), Len(rows) <= limit
  PROVE  rows \in Seq(Ids) /\ ToSet(rows) = Matching(f)
<1> DEFINE S == Matching(f)
<1> DEFINE n == Cardinality(S)
<1>1. S \subseteq Ids /\ IsFiniteSet(S) /\ n \in Nat
  BY MatchingIsFinite
<1>2. PICK q \in SetToSeqs(S) :
         rows = SubSeq(q, 1, IF Len(q) < limit + 1 THEN Len(q) ELSE limit + 1)
  BY DEF Selections
<1>3. q \in [1 .. n -> S] /\ \A i, j \in 1 .. n : i # j => q[i] # q[j]
  BY <1>2 DEF SetToSeqs
<1> HIDE DEF n, S
<1>4. q \in Seq(Ids) /\ Len(q) = n
  BY <1>1, <1>3
<1>5. rows = q
  <2>1. Len(q) < limit + 1
    BY <1>1, <1>2, <1>4
  <2>2. rows = SubSeq(q, 1, Len(q))
    BY <1>2, <2>1
  <2> QED
    BY <1>4, <2>2
<1>6. ToSet(q) = S
  <2>1. q \in Injection(1 .. n, S)
    BY <1>3 DEF Injection, IsInjective
  <2>2. Cardinality(1 .. n) = n
    BY <1>1, FS_Interval
  <2>3. q \in Surjection(1 .. n, S)
    BY <1>1, <2>1, <2>2, FS_Injection DEF n
  <2> QED
    BY <1>3, <2>3 DEF Surjection, ToSet
<1> QED
  BY <1>4, <1>5, <1>6 DEF S

-----------------------------------------------------------------------------
\* What the steps do to the store.
StoreType == /\ log \in [Streams -> Seq(Store!Event)]
             /\ request \in [Ids -> Store!Event \cup {NoEvent}]
             /\ reply \in [Ids -> {"none", "waiting", "ok", "error"}]
             /\ assigned \in [Ids -> Nat]
             /\ born \in Seq(Ids) /\ IsInjective(born)

\* An event is made and its Append called.
LEMMA CreateStore ==
  ASSUME TypeOK, StoreInv, NEW i \in Ids, NEW t \in Tenants, NEW s \in Streams,
         Create(i, t, s)
  PROVE  /\ StoreType' /\ StoreInv'
         /\ log' = log /\ reply[i] = "none" /\ reply' = [reply EXCEPT ![i] = "waiting"]
         /\ request'[i].tenant = t /\ request'[i].stream = s
         /\ \A j \in Ids : j # i => request'[j] = request[j]
<1> DEFINE e == [id |-> i, tenant |-> t, stream |-> s]
<1>1. /\ e \in Store!Event /\ e.id = i /\ e.tenant = t /\ e.stream = s
      /\ reply[i] = "none" /\ reply' = [reply EXCEPT ![i] = "waiting"]
      /\ request' = [request EXCEPT ![i] = e]
      /\ log' = log /\ assigned' = assigned
      /\ born' = Append(born, i)
  BY DEF Create, Store!Call, Store!Event
<1> HIDE DEF e
<1>2. born \in Seq(Ids) /\ i \notin ToSet(born) /\ \A n \in DOMAIN born : born[n] # i
  BY <1>1 DEF TypeOK, StoreInv, BornRequested, ToSet
<1>3. /\ born' \in Seq(Ids) /\ DOMAIN born' = DOMAIN born \cup {Len(born) + 1}
      /\ born'[Len(born) + 1] = i /\ \A n \in DOMAIN born : born'[n] = born[n]
  BY <1>1, <1>2
<1>4. IsInjective(born') /\ ToSet(born') = ToSet(born) \cup {i}
  BY <1>2, <1>3 DEF TypeOK, IsInjective, ToSet
<1>5. StoreType'
  BY <1>1, <1>3, <1>4 DEF TypeOK, StoreType
<1>6. RequestIds' /\ BornRequested'
  BY <1>1, <1>3, <1>4 DEF TypeOK, StoreInv, RequestIds, BornRequested
<1>7. LoggedIsRequested'
  <2> SUFFICES ASSUME NEW z \in Streams, NEW v \in DOMAIN log[z]
               PROVE  LET j == log[z][v].id
                      IN /\ j \in Ids /\ reply'[j] # "none"
                         /\ log[z][v] = request'[j] /\ request'[j].stream = z
    BY <1>1 DEF LoggedIsRequested
  <2> QED
    BY <1>1 DEF TypeOK, StoreInv, LoggedIsRequested
<1>8. LoggedOnce' /\ OkIsStored'
  BY <1>1 DEF TypeOK, StoreInv, LoggedOnce, OkIsStored, InLog
<1> QED
  BY <1>1, <1>5, <1>6, <1>7, <1>8 DEF TypeOK, StoreInv

\* A call is answered; a successful one has found its event in a log.
LEMMA AnswerStore ==
  ASSUME TypeOK, StoreInv, NEW i \in Ids,
         Store!Succeed(i) \/ Store!Fail(i), born' = born
  PROVE  /\ StoreType' /\ StoreInv'
         /\ log' = log /\ request' = request /\ reply[i] = "waiting"
         /\ \A j \in Ids : j # i => reply'[j] = reply[j]
         /\ reply'[i] = IF Store!Succeed(i) THEN "ok" ELSE "error"
<1>1. /\ reply[i] = "waiting" /\ log' = log /\ request' = request
      /\ \/ Store!Succeed(i) /\ reply' = [reply EXCEPT ![i] = "ok"]
         \/ ~ Store!Succeed(i) /\ reply' = [reply EXCEPT ![i] = "error"]
  BY DEF Store!Succeed, Store!Fail, TypeOK
<1>2. assigned' \in [Ids -> Nat]
  <2>1. CASE Store!Fail(i)
    BY <2>1 DEF Store!Fail, TypeOK
  <2>2. CASE Store!Succeed(i)
    <3>1. PICK s \in Streams : \E v \in DOMAIN log[s] : assigned' = [assigned EXCEPT ![i] = v]
      BY <2>2 DEF Store!Succeed, Store!Positions
    <3>2. \A v \in DOMAIN log[s] : v \in Nat
      BY LogPositions
    <3> QED
      BY <3>1, <3>2 DEF TypeOK
  <2> QED
    BY <2>1, <2>2
<1>3. Store!Succeed(i) => InLog(i)
  BY DEF Store!Succeed, Store!Positions, InLog, StoreInv, RequestIds
<1>4. StoreType'
  BY <1>1, <1>2 DEF TypeOK, StoreType
<1>5. RequestIds' /\ BornRequested' /\ LoggedOnce'
  BY <1>1 DEF TypeOK, StoreInv, RequestIds, BornRequested, LoggedOnce
<1>6. LoggedIsRequested'
  BY <1>1 DEF TypeOK, StoreInv, LoggedIsRequested
<1>7. OkIsStored'
  <2>1. \A j \in Ids : reply'[j] = "ok" => InLog(j)
    <3>1. CASE Store!Succeed(i)
      BY <1>1, <1>3, <3>1 DEF TypeOK, StoreInv, OkIsStored
    <3>2. CASE ~ Store!Succeed(i)
      BY <1>1, <3>2 DEF TypeOK, StoreInv, OkIsStored
    <3> QED
      BY <3>1, <3>2
  <2> QED
    BY <1>1, <2>1 DEF OkIsStored, InLog
<1> QED
  BY <1>1, <1>4, <1>5, <1>6, <1>7 DEF TypeOK, StoreInv

\* PostgreSQL commits the event of a call.
LEMMA EffectStore ==
  ASSUME TypeOK, StoreInv, NEW i \in Ids, Store!TakeEffect(i), born' = born
  PROVE  /\ StoreType' /\ StoreInv' /\ request' = request /\ reply' = reply
         /\ reply[i] \in {"waiting", "error"} /\ ~ InLog(i)
<1>1. /\ request' = request /\ reply' = reply /\ assigned' = assigned
      /\ reply[i] \in {"waiting", "error"} /\ ~ Store!Recorded(request[i].id)
  BY DEF Store!TakeEffect
<1>2. request[i].id = i /\ request[i] \in Store!Event /\ ~ InLog(i)
  BY <1>1, RecordedIsInLog DEF StoreInv, RequestIds
<1>3. StoreType'
  BY <1>1, LogGrows DEF TypeOK, StoreInv, StoreType
<1>4. RequestIds' /\ BornRequested'
  BY <1>1 DEF StoreInv, RequestIds, BornRequested
<1>5. LoggedIsRequested'
  <2> SUFFICES ASSUME NEW s \in Streams, NEW v \in DOMAIN log'[s]
               PROVE  LET j == log'[s][v].id
                      IN /\ j \in Ids /\ reply[j] # "none"
                         /\ log'[s][v] = request[j] /\ request[j].stream = s
    BY <1>1 DEF LoggedIsRequested
  <2>1. CASE v \in DOMAIN log[s]
    BY <2>1, LogGrows DEF StoreInv, LoggedIsRequested
  <2>2. CASE s = request[i].stream /\ log'[s][v] = request[i]
    BY <1>1, <1>2, <2>2
  <2> QED
    BY <2>1, <2>2, LogGrows DEF StoreInv
<1>6. LoggedOnce'
  <2> SUFFICES ASSUME NEW s \in Streams, NEW v \in DOMAIN log'[s], NEW w \in DOMAIN log'[s],
                      log'[s][v].id = log'[s][w].id
               PROVE  v = w
    BY DEF LoggedOnce
  <2>1. \A x \in DOMAIN log'[s] :
           \/ x \in DOMAIN log[s] /\ log'[s][x] = log[s][x] /\ log'[s][x].id # i
           \/ x = Len(log[s]) + 1 /\ log'[s][x].id = i
    BY <1>2, LogGrows DEF StoreInv, InLog
  <2> QED
    BY <2>1 DEF StoreInv, LoggedOnce
<1>7. OkIsStored'
  BY <1>1, LogGrows, InLogStays DEF StoreInv, OkIsStored
<1> QED
  BY <1>1, <1>2, <1>3, <1>4, <1>5, <1>6, <1>7 DEF StoreInv

-----------------------------------------------------------------------------
LEMMA InitIInv == Init => IInv
<1> SUFFICES ASSUME Init PROVE IInv
  OBVIOUS
<1> USE DEF Init, Store!Init
<1>1. TypeOK
  <2>1. born \in Seq(Ids) /\ IsInjective(born) /\ \A b \in Batches : matched[b] \in Seq(Ids)
    BY DEF IsInjective
  <2>2. 0 \in 0 .. MaxLimit /\ 0 \in 0 .. MaxCrashes
    BY BoundsAssumption
  <2>3. log \in [Streams -> Seq(Store!Event)]
    OBVIOUS
  <2> QED
    BY <2>1, <2>2, <2>3 DEF TypeOK
<1>2. StoreInv
  BY DEF StoreInv, RequestIds, BornRequested, LoggedIsRequested, LoggedOnce, OkIsStored
<1>3. CopiesAppended
  BY CopyIds, BoundsAssumption DEF CopiesAppended
<1>4. SourcesStored /\ CopiesLikeSources /\ PublishedComplete
  BY CopyIds DEF SourcesStored, CopiesLikeSources, PublishedComplete
<1>5. CopyOrder /\ SourcesBefore
  BY DEF CopyOrder, SourcesBefore
<1> QED
  BY <1>1, <1>2, <1>3, <1>4, <1>5 DEF IInv, BatchInv

-----------------------------------------------------------------------------
LEMMA CopyInMatched ==
  ASSUME TypeOK, CopiesAppended, NEW b \in Batches, NEW k \in 1 .. MaxLimit,
         reply[<<b, k>>] # "none"
  PROVE  /\ k \in DOMAIN matched[b] /\ matched[b][k] \in Ids
         /\ k <= copied[b] + 1
<1>1. matched[b] \in Seq(Ids) /\ copied[b] \in Nat /\ k \in Nat /\ k >= 1
  BY BoundsAssumption DEF TypeOK
<1>2. k <= copied[b] + 1 /\ k <= Len(matched[b])
  BY <1>1 DEF CopiesAppended
<1> QED
  BY <1>1, <1>2

\* The batches are as they were, and what is logged and was requested remains.
LEMMA BatchesStay ==
  ASSUME IInv, UNCHANGED batchVars, topic' = topic,
         \A s \in Streams : \A v \in DOMAIN log[s] :
            v \in DOMAIN log'[s] /\ log'[s][v] = log[s][v],
         \A b \in Batches, k \in 1 .. MaxLimit : reply'[<<b, k>>] = reply[<<b, k>>],
         \A i \in Ids : reply[i] # "none" => request'[i] = request[i]
  PROVE  BatchInv'
<1> USE DEF IInv, BatchInv
<1>0. UNCHANGED <<phase, caller, matched, copied, tried>>
  BY DEF batchVars
<1>1. CopiesAppended'
  BY <1>0 DEF CopiesAppended
<1>2. PublishedComplete'
  BY <1>0 DEF PublishedComplete
<1>3. \A b \in Batches : \A k \in DOMAIN matched[b] :
         InLog(matched[b][k]) /\ request'[matched[b][k]] = request[matched[b][k]]
  BY LoggedHasRequest DEF StoreInv, SourcesStored
<1>4. SourcesStored'
  BY <1>0, <1>3, InLogStays DEF SourcesStored
<1>5. CopiesLikeSources'
  <2> SUFFICES ASSUME NEW b \in Batches, NEW k \in 1 .. MaxLimit, reply[<<b, k>>] # "none"
               PROVE  /\ request'[<<b, k>>].tenant = request'[matched[b][k]].tenant
                      /\ request'[<<b, k>>].stream = request'[matched[b][k]].stream
    BY <1>0 DEF CopiesLikeSources
  <2>1. request'[<<b, k>>] = request[<<b, k>>]
    BY CopyIds
  <2>2. request'[matched[b][k]] = request[matched[b][k]]
    BY <1>3, CopyInMatched
  <2> QED
    BY <2>1, <2>2 DEF CopiesLikeSources
<1> QED
  BY <1>1, <1>2, <1>4, <1>5

\* The logs are as they were, and so are the sources of the copies in them.
LEMMA LogsStay ==
  ASSUME IInv, log' = log,
         \A b \in Batches, k \in 1 .. MaxLimit : reply[<<b, k>>] # "none" =>
            matched'[b][k] = matched[b][k] /\ caller'[b] = caller[b]
  PROVE  CopyOrder' /\ SourcesBefore'
<1>1. CopyOrder'
  BY DEF IInv, CopyOrder
<1>2. SourcesBefore'
  <2> SUFFICES ASSUME NEW s \in Streams, NEW v \in DOMAIN log[s],
                      NEW b \in Batches, NEW k \in 1 .. MaxLimit, log[s][v].id = <<b, k>>
               PROVE  \E w \in 1 .. v - 1 : /\ log[s][w].id = matched'[b][k]
                                            /\ log[s][w].tenant = log[s][v].tenant
                                            /\ log[s][v].tenant = caller'[b]
    BY DEF SourcesBefore
  <2>1. reply[<<b, k>>] # "none"
    BY DEF IInv, StoreInv, LoggedIsRequested
  <2> QED
    BY <2>1 DEF IInv, SourcesBefore
<1> QED
  BY <1>1, <1>2

\* An event of a client.
LEMMA IngestIInv ==
  ASSUME IInv, NEW o \in Originals, NEW t \in Tenants, NEW s \in Streams, Ingest(o, t, s)
  PROVE  IInv'
<1>1. /\ Create(o, t, s) /\ UNCHANGED batchVars /\ UNCHANGED <<topic, crashes>>
  BY DEF Ingest
<1>2. /\ o \in Ids /\ TypeOK /\ StoreInv
      /\ \A b \in Batches, k \in 1 .. MaxLimit : <<b, k>> # o
  BY CopyIds, OriginalsAssumption DEF Ids, IInv
<1>3. /\ StoreType' /\ StoreInv' /\ log' = log
      /\ reply[o] = "none" /\ reply' = [reply EXCEPT ![o] = "waiting"]
      /\ \A j \in Ids : j # o => request'[j] = request[j]
  BY <1>1, <1>2, CreateStore
<1>4. TypeOK'
  BY <1>1, <1>2, <1>3 DEF TypeOK, StoreType, batchVars
<1>5. \A b \in Batches, k \in 1 .. MaxLimit : reply'[<<b, k>>] = reply[<<b, k>>]
  BY <1>2, <1>3, CopyIds DEF TypeOK
<1>6. BatchInv'
  BY <1>1, <1>2, <1>3, <1>5, BatchesStay
<1>7. CopyOrder' /\ SourcesBefore'
  BY <1>1, <1>3, LogsStay DEF batchVars
<1> QED
  BY <1>3, <1>4, <1>6, <1>7 DEF IInv

\* The new position of an event is the last one of its stream.
LEMMA NewPosition ==
  ASSUME IInv, NEW i \in Ids, TakeEffect(i)
  PROVE  \A s \in Streams : \A v \in DOMAIN log'[s] :
            \/ v \in DOMAIN log[s] /\ log'[s][v] = log[s][v] /\ log[s][v].id # i
            \/ /\ s = request[i].stream /\ v = Len(log[s]) + 1
               /\ log'[s][v] = request[i] /\ request[i].id = i
<1>1. TypeOK /\ StoreInv /\ RequestIds /\ Store!TakeEffect(i) /\ born' = born
  BY DEF IInv, StoreInv, TakeEffect
<1>2. ~ InLog(i) /\ reply[i] # "none"
  BY <1>1, EffectStore
<1>3. request[i].id = i
  BY <1>1, <1>2 DEF RequestIds
<1> QED
  BY <1>1, <1>2, <1>3, LogGrows DEF InLog

\* A copy that takes effect goes behind its source and the earlier copies.
LEMMA EffectIInv ==
  ASSUME IInv, NEW i \in Ids, TakeEffect(i)
  PROVE  IInv'
<1>1. /\ Store!TakeEffect(i) /\ born' = born /\ UNCHANGED batchVars
      /\ topic' = topic /\ crashes' = crashes
  BY DEF TakeEffect
<1>2. TypeOK /\ StoreInv /\ RequestIds /\ CopiesAppended
  BY DEF IInv, StoreInv, BatchInv
<1>3. /\ StoreType' /\ StoreInv' /\ request' = request /\ reply' = reply
      /\ reply[i] \in {"waiting", "error"}
  BY <1>1, <1>2, EffectStore
<1>4. TypeOK'
  BY <1>1, <1>2, <1>3 DEF TypeOK, StoreType, batchVars
<1>5. BatchInv'
  BY <1>1, <1>2, <1>3, LogGrows, BatchesStay
<1>6. CopyOrder'
  <2> SUFFICES ASSUME NEW s \in Streams, NEW v \in DOMAIN log'[s], NEW w \in DOMAIN log'[s],
                      NEW b \in Batches, NEW j \in 1 .. MaxLimit, NEW k \in 1 .. MaxLimit,
                      log'[s][v].id = <<b, j>>, log'[s][w].id = <<b, k>>, j < k
               PROVE  v < w
    BY DEF CopyOrder
  <2>0. Len(log[s]) \in Nat /\ DOMAIN log[s] = 1 .. Len(log[s])
    BY <1>2, LogPositions
  <2>1. CASE v \in DOMAIN log[s] /\ w \in DOMAIN log[s]
    <3>1. log'[s][v] = log[s][v] /\ log'[s][w] = log[s][w]
      BY <1>1, <1>2, <2>1, LogGrows
    <3>2. log[s][v].id = <<b, j>> /\ log[s][w].id = <<b, k>>
      BY <3>1
    <3> QED
      BY <2>1, <3>2 DEF IInv, CopyOrder
  <2>2. CASE v \in DOMAIN log[s] /\ w = Len(log[s]) + 1
    BY <2>0, <2>2
  <2>3. CASE v \notin DOMAIN log[s]
    <3>1. i = <<b, j>>
      BY <2>3, NewPosition
    <3>2. log'[s][w].id # i
      BY <3>1, BoundsAssumption
    <3>3. w \in DOMAIN log[s] /\ log[s][w].id = <<b, k>>
      BY <3>2, NewPosition
    <3>4. reply[<<b, k>>] # "none"
      BY <1>2, <3>3 DEF StoreInv, LoggedIsRequested
    <3>5. k <= copied[b] + 1
      BY <1>2, <3>4, CopyInMatched
    <3>6. j <= copied[b]
      BY <1>2, <3>5, BoundsAssumption DEF TypeOK
    <3>7. reply[<<b, j>>] = "ok"
      BY <1>2, <3>6 DEF CopiesAppended
    <3> QED
      BY <1>3, <3>1, <3>7
  <2> QED
    BY <2>1, <2>2, <2>3, NewPosition
<1>7. SourcesBefore'
  <2> SUFFICES ASSUME NEW s \in Streams, NEW v \in DOMAIN log'[s],
                      NEW b \in Batches, NEW k \in 1 .. MaxLimit, log'[s][v].id = <<b, k>>
               PROVE  \E w \in 1 .. v - 1 : /\ log'[s][w].id = matched[b][k]
                                            /\ log'[s][w].tenant = log'[s][v].tenant
                                            /\ log'[s][v].tenant = caller[b]
    BY <1>1 DEF SourcesBefore, batchVars
  <2>0. Len(log[s]) \in Nat /\ DOMAIN log[s] = 1 .. Len(log[s])
    BY <1>2, LogPositions
  <2>1. CASE v \in DOMAIN log[s]
    <3>1. log'[s][v] = log[s][v]
      BY <1>1, <1>2, <2>1, LogGrows
    <3>2. PICK w \in 1 .. v - 1 : /\ log[s][w].id = matched[b][k]
                                  /\ log[s][w].tenant = log[s][v].tenant
                                  /\ log[s][v].tenant = caller[b]
      BY <2>1, <3>1 DEF IInv, SourcesBefore
    <3>3. w \in DOMAIN log[s]
      BY <2>0, <2>1
    <3>4. log'[s][w] = log[s][w]
      BY <1>1, <1>2, <3>3, LogGrows
    <3> QED
      BY <3>1, <3>2, <3>4
  <2>2. CASE v \notin DOMAIN log[s]
    <3>1. /\ i = <<b, k>> /\ s = request[i].stream /\ v = Len(log[s]) + 1
          /\ log'[s][v] = request[i]
      BY <2>2, NewPosition
    <3>2. k \in DOMAIN matched[b]
      BY <1>2, <1>3, <3>1, CopyInMatched
    <3>3. /\ InLog(matched[b][k]) /\ request[matched[b][k]].tenant = caller[b]
          /\ request[i].tenant = request[matched[b][k]].tenant
          /\ s = request[matched[b][k]].stream
      BY <1>3, <3>1, <3>2 DEF IInv, BatchInv, SourcesStored, CopiesLikeSources
    <3>4. PICK w \in DOMAIN log[s] : /\ log[s][w].id = matched[b][k]
                                     /\ log[s][w] = request[matched[b][k]]
      <4>1. PICK z \in Streams : \E x \in DOMAIN log[z] : log[z][x].id = matched[b][k]
        BY <3>3 DEF InLog
      <4>2. PICK x \in DOMAIN log[z] : log[z][x].id = matched[b][k]
        BY <4>1
      <4>3. log[z][x] = request[matched[b][k]] /\ request[matched[b][k]].stream = z
        BY <1>2, <4>2 DEF StoreInv, LoggedIsRequested
      <4>4. z = s
        BY <3>3, <4>3
      <4> QED
        BY <4>2, <4>3, <4>4
    <3>5. w \in 1 .. v - 1 /\ log'[s][w] = log[s][w]
      BY <1>1, <1>2, <2>0, <3>1, <3>4, LogGrows
    <3> QED
      BY <3>1, <3>3, <3>4, <3>5
  <2> QED
    BY <2>1, <2>2
<1> QED
  BY <1>3, <1>4, <1>5, <1>6, <1>7 DEF IInv

-----------------------------------------------------------------------------
\* A batch that is over, or goes on to publish, changes its phase, and one
\* that publishes adds its copies to the topic.
LEMMA PhasesMove ==
  ASSUME IInv, TypeOK', UNCHANGED <<storeVars, born, caller, matched, copied>>,
         \A b \in Batches :
            \/ phase'[b] = phase[b]
            \/ /\ phase'[b] # "idle"
               /\ phase'[b] \in {"publishing", "done"} => copied[b] = Len(matched[b])
               /\ phase[b] \in {"publishing", "done", "dead"}
                     => phase'[b] \in {"publishing", "done", "dead"},
         \A b \in Batches, k \in 1 .. MaxLimit : <<b, k>> \in topic' =>
            <<b, k>> \in topic \/ phase[b] = "publishing"
  PROVE  IInv'
<1> USE DEF IInv, BatchInv
<1>1. StoreInv'
  BY DEF storeVars, StoreInv, RequestIds, BornRequested, LoggedIsRequested, LoggedOnce,
         OkIsStored, InLog
<1>2. CopiesAppended'
  BY DEF storeVars, CopiesAppended
<1>3. SourcesStored' /\ CopiesLikeSources'
  BY DEF storeVars, SourcesStored, CopiesLikeSources, InLog
<1>4. PublishedComplete'
  BY DEF CopiesAppended, PublishedComplete
<1>5. CopyOrder' /\ SourcesBefore'
  BY LogsStay DEF storeVars
<1> QED
  BY <1>1, <1>2, <1>3, <1>4, <1>5

LEMMA PhaseIInv ==
  ASSUME IInv, NEW b \in Batches,
         \/ Refuse(b)
         \/ \E f \in Filters, limit \in 1 .. MaxLimit : Exceeds(b, f, limit) \/ Preview(b, f, limit)
         \/ AllCopied(b) \/ Publish(b) \/ Finish(b) \/ Crash
  PROVE  IInv'
<1>0. TypeOK /\ CopiesAppended
  BY DEF IInv, BatchInv
<1>1. CASE \/ Refuse(b)
           \/ \E f \in Filters, limit \in 1 .. MaxLimit :
                 Exceeds(b, f, limit) \/ Preview(b, f, limit)
  <2>1. /\ \E p \in {"refused", "previewed"} : phase' = [phase EXCEPT ![b] = p]
        /\ phase[b] = "idle"
        /\ UNCHANGED <<storeVars, born, caller, matched, copied, tried, topic, crashes>>
    BY <1>1 DEF Refuse, Exceeds, Preview
  <2>2. TypeOK'
    BY <1>0, <2>1 DEF TypeOK, storeVars
  <2> QED
    BY <1>0, <2>1, <2>2, PhasesMove DEF TypeOK
<1>2. CASE AllCopied(b)
  <2>1. TypeOK'
    BY <1>0, <1>2 DEF AllCopied, TypeOK, storeVars, Active
  <2> QED
    BY <1>0, <1>2, <2>1, PhasesMove DEF AllCopied, TypeOK
<1>3. CASE Publish(b)
  <2>0. phase[b] = "publishing" /\ tried[b] < copied[b]
    BY <1>3 DEF Publish
  <2>1. /\ tried[b] + 1 \in 1 .. MaxLimit
        /\ topic' \subseteq topic \cup {<<b, tried[b] + 1>>}
    BY <1>0, <1>3, BoundsAssumption DEF Publish, TypeOK
  <2>2. <<b, tried[b] + 1>> \in Copies
    BY <2>1, CopyIds
  <2>3. /\ tried' = [tried EXCEPT ![b] = @ + 1]
        /\ UNCHANGED <<storeVars, born, phase, caller, matched, copied, crashes>>
    BY <1>3 DEF Publish
  <2>4. TypeOK'
    <3>1. tried' \in [Batches -> 0 .. MaxLimit]
      BY <1>0, <2>1, <2>3, BoundsAssumption DEF TypeOK
    <3> QED
      BY <1>0, <2>1, <2>2, <2>3, <3>1 DEF TypeOK, storeVars
  <2>5. \A c \in Batches, k \in 1 .. MaxLimit : <<c, k>> \in topic' =>
           <<c, k>> \in topic \/ phase[c] = "publishing"
    BY <2>0, <2>1
  <2> QED
    BY <2>3, <2>4, <2>5, PhasesMove
<1>4. CASE Finish(b)
  <2>1. TypeOK'
    BY <1>0, <1>4 DEF Finish, TypeOK, storeVars
  <2>2. copied[b] = Len(matched[b])
    BY <1>0, <1>4 DEF Finish, CopiesAppended
  <2> QED
    BY <1>0, <1>4, <2>1, <2>2, PhasesMove DEF Finish, TypeOK
<1>5. CASE Crash
  <2>1. TypeOK'
    BY <1>0, <1>5, BoundsAssumption DEF Crash, TypeOK, storeVars, Active
  <2> QED
    BY <1>0, <1>5, <2>1, PhasesMove DEF Crash, Active
<1> QED
  BY <1>1, <1>2, <1>3, <1>4, <1>5

\* The query gives the batch its sources: stored events of the caller's tenant.
LEMMA QueryIInv ==
  ASSUME IInv, NEW b \in Batches, NEW f \in Filters, NEW limit \in 1 .. MaxLimit,
         Query(b, f, limit)
  PROVE  IInv'
<1>0. TypeOK /\ StoreInv /\ CopiesAppended /\ limit \in Nat /\ limit <= MaxLimit
  BY BoundsAssumption DEF IInv, BatchInv
<1>1. PICK rows \in Selections(f, limit + 1) :
         Len(rows) <= limit /\ matched' = [matched EXCEPT ![b] = rows]
  BY DEF Query
<1>2. /\ phase[b] = "idle" /\ phase' = [phase EXCEPT ![b] = "appending"]
      /\ caller' = [caller EXCEPT ![b] = f.tenant]
      /\ UNCHANGED <<storeVars, born, copied, tried, topic, crashes>>
  BY DEF Query
<1>3. rows \in Seq(Ids) /\ ToSet(rows) = Matching(f)
  BY <1>0, <1>1, SelectionIsMatching
<1>4. /\ phase'[b] = "appending" /\ matched'[b] = rows /\ caller'[b] = f.tenant
      /\ \A c \in Batches \ {b} : /\ phase'[c] = phase[c] /\ matched'[c] = matched[c]
                                   /\ caller'[c] = caller[c]
  BY <1>0, <1>1, <1>2 DEF TypeOK
<1>5. copied[b] = 0 /\ \A k \in 1 .. MaxLimit : reply[<<b, k>>] = "none"
  BY <1>0, <1>2, BoundsAssumption DEF TypeOK, CopiesAppended
<1>6. TypeOK'
  <2>1. f.tenant \in Tenants
    BY DEF Filters
  <2> QED
    BY <1>0, <1>1, <1>2, <1>3, <2>1 DEF TypeOK, storeVars, Active
<1>7. StoreInv'
  BY <1>0, <1>2 DEF storeVars, StoreInv, RequestIds, BornRequested, LoggedIsRequested,
                    LoggedOnce, OkIsStored, InLog
<1>8. CopiesAppended'
  <2>1. 0 <= Len(rows) /\ Len(rows) <= MaxLimit
    BY <1>0, <1>1, <1>3, BoundsAssumption
  <2>2. \A k \in 1 .. MaxLimit : ~ k <= 0
    OBVIOUS
  <2> QED
    BY <1>0, <1>2, <1>4, <1>5, <2>1, <2>2 DEF storeVars, CopiesAppended
<1>9. SourcesStored'
  <2>1. \A k \in DOMAIN rows : InLog(rows[k]) /\ request[rows[k]].tenant = f.tenant
    BY <1>3, RecordedIsInLog DEF ToSet, Matching, Matches
  <2> QED
    BY <1>2, <1>4, <2>1 DEF storeVars, IInv, BatchInv, SourcesStored, InLog
<1>10. CopiesLikeSources'
  BY <1>2, <1>4, <1>5 DEF storeVars, IInv, BatchInv, CopiesLikeSources
<1>11. PublishedComplete'
  BY <1>2, <1>4 DEF IInv, BatchInv, PublishedComplete
<1>12. CopyOrder' /\ SourcesBefore'
  BY <1>2, <1>4, <1>5, LogsStay DEF storeVars
<1> QED
  BY <1>6, <1>7, <1>8, <1>9, <1>10, <1>11, <1>12 DEF IInv, BatchInv

\* The copy that a batch asks for next.
LEMMA NextCopy ==
  ASSUME TypeOK, NEW b \in Batches, CopiesAppended, copied[b] < Len(matched[b])
  PROVE  /\ copied[b] \in Nat /\ copied[b] + 1 \in 1 .. MaxLimit
         /\ copied[b] + 1 \in DOMAIN matched[b]
         /\ matched[b][copied[b] + 1] \in Ids
         /\ <<b, copied[b] + 1>> \in Ids
         /\ \A c \in Batches, k \in 1 .. MaxLimit :
               <<c, k>> # <<b, copied[b] + 1>> <=> c # b \/ k # copied[b] + 1
<1>1. matched[b] \in Seq(Ids) /\ copied[b] \in Nat /\ Len(matched[b]) <= MaxLimit
  BY BoundsAssumption DEF TypeOK, CopiesAppended
<1>2. copied[b] + 1 \in 1 .. MaxLimit /\ copied[b] + 1 \in DOMAIN matched[b]
  BY <1>1, BoundsAssumption
<1> QED
  BY <1>1, <1>2, CopyIds

LEMMA CopyIInv ==
  ASSUME IInv, NEW b \in Batches, Copy(b)
  PROVE  IInv'
<1> DEFINE n == copied[b] + 1
<1> DEFINE i == <<b, n>>
<1> DEFINE src == matched[b][n]
<1>0. TypeOK /\ StoreInv /\ CopiesAppended /\ SourcesStored
  BY DEF IInv, BatchInv
<1>1. /\ phase[b] = "appending" /\ copied[b] < Len(matched[b])
      /\ Create(i, request[src].tenant, request[src].stream)
      /\ UNCHANGED batchVars /\ topic' = topic /\ crashes' = crashes
  BY DEF Copy, Source
<1>2. /\ copied[b] \in Nat /\ n \in 1 .. MaxLimit /\ n \in DOMAIN matched[b]
      /\ src \in Ids /\ i \in Ids
      /\ \A c \in Batches, k \in 1 .. MaxLimit : <<c, k>> # i <=> c # b \/ k # n
  BY <1>0, <1>1, NextCopy
<1> HIDE DEF n, i, src
<1>3. InLog(src) /\ reply[src] # "none" /\ request[src] \in Store!Event
  BY <1>0, <1>2, LoggedHasRequest DEF SourcesStored, StoreInv, RequestIds, src
<1>4. /\ StoreType' /\ StoreInv' /\ log' = log
      /\ reply[i] = "none" /\ reply' = [reply EXCEPT ![i] = "waiting"]
      /\ request'[i].tenant = request[src].tenant /\ request'[i].stream = request[src].stream
      /\ \A j \in Ids : j # i => request'[j] = request[j]
  BY <1>0, <1>1, <1>2, <1>3, CreateStore DEF Store!Event
<1>5. TypeOK'
  BY <1>0, <1>1, <1>4 DEF TypeOK, StoreType, batchVars
<1>6. UNCHANGED <<phase, caller, matched, copied, tried>>
  BY <1>1 DEF batchVars
<1>7. \A c \in Batches, k \in 1 .. MaxLimit :
         reply'[<<c, k>>] = IF c = b /\ k = n THEN "waiting" ELSE reply[<<c, k>>]
  BY <1>0, <1>2, <1>4, CopyIds DEF TypeOK, i
<1>8. CopiesAppended'
  <2>1. n <= Len(matched[b]) /\ n = copied[b] + 1 /\ ~ n <= copied[b]
    BY <1>1, <1>2 DEF n
  <2> QED
    BY <1>0, <1>6, <1>7, <2>1 DEF CopiesAppended
<1>9. \A c \in Batches : \A k \in DOMAIN matched[c] :
         InLog(matched[c][k]) /\ request'[matched[c][k]] = request[matched[c][k]]
  BY <1>0, <1>4, LoggedHasRequest DEF StoreInv, SourcesStored
<1>10. SourcesStored'
  BY <1>0, <1>4, <1>6, <1>9 DEF SourcesStored, InLog
<1>11. CopiesLikeSources'
  <2> SUFFICES ASSUME NEW c \in Batches, NEW k \in 1 .. MaxLimit, reply'[<<c, k>>] # "none"
               PROVE  /\ request'[<<c, k>>].tenant = request'[matched[c][k]].tenant
                      /\ request'[<<c, k>>].stream = request'[matched[c][k]].stream
    BY <1>6 DEF CopiesLikeSources
  <2>1. CASE c = b /\ k = n
    BY <1>2, <1>4, <1>9, <2>1 DEF i, src
  <2>2. CASE ~ (c = b /\ k = n)
    <3>1. reply[<<c, k>>] # "none" /\ <<c, k>> # i
      BY <1>2, <1>7, <2>2
    <3>2. request'[<<c, k>>] = request[<<c, k>>]
      BY <1>4, <3>1, CopyIds
    <3>3. request'[matched[c][k]] = request[matched[c][k]]
      BY <1>0, <1>9, <3>1, CopyInMatched
    <3> QED
      BY <3>1, <3>2, <3>3 DEF IInv, BatchInv, CopiesLikeSources
  <2> QED
    BY <2>1, <2>2
<1>12. PublishedComplete'
  BY <1>1, <1>6 DEF IInv, BatchInv, PublishedComplete
<1>13. CopyOrder' /\ SourcesBefore'
  BY <1>4, <1>6, LogsStay
<1> QED
  BY <1>4, <1>5, <1>8, <1>10, <1>11, <1>12, <1>13 DEF IInv, BatchInv

\* The append of a copy is answered: the loop goes on, or the batch has failed.
LEMMA AnswerIInv ==
  ASSUME IInv, NEW b \in Batches, Copied(b) \/ CopyFails(b)
  PROVE  IInv'
<1> DEFINE n == copied[b] + 1
<1> DEFINE i == <<b, n>>
<1>0. TypeOK /\ StoreInv /\ CopiesAppended /\ SourcesStored
  BY DEF IInv, BatchInv
<1>1. /\ phase[b] = "appending" /\ copied[b] < Len(matched[b])
      /\ Store!Succeed(i) \/ Store!Fail(i)
      /\ born' = born /\ UNCHANGED <<caller, matched, tried, topic, crashes>>
      /\ \/ /\ Store!Succeed(i) /\ phase' = phase
            /\ copied' = [copied EXCEPT ![b] = n]
         \/ /\ Store!Fail(i) /\ phase' = [phase EXCEPT ![b] = "failed"]
            /\ copied' = copied
  BY DEF Copied, CopyFails
<1>2. /\ copied[b] \in Nat /\ n \in 1 .. MaxLimit /\ i \in Ids
      /\ \A c \in Batches, k \in 1 .. MaxLimit : <<c, k>> # i <=> c # b \/ k # n
  BY <1>0, <1>1, NextCopy
<1> HIDE DEF n, i
<1>3. /\ StoreType' /\ StoreInv' /\ log' = log /\ request' = request /\ reply[i] = "waiting"
      /\ \A j \in Ids : j # i => reply'[j] = reply[j]
      /\ reply'[i] = IF Store!Succeed(i) THEN "ok" ELSE "error"
  BY <1>0, <1>1, <1>2, AnswerStore
<1>4. /\ reply'[i] # "none"
      /\ \/ reply'[i] = "ok" /\ phase' = phase /\ copied' = [copied EXCEPT ![b] = n]
         \/ phase' = [phase EXCEPT ![b] = "failed"] /\ copied' = copied
  <2>1. CASE Store!Succeed(i) /\ phase' = phase /\ copied' = [copied EXCEPT ![b] = n]
    <3>1. reply'[i] = "ok"
      BY <1>3, <2>1
    <3> QED
      BY <2>1, <3>1
  <2>2. CASE phase' = [phase EXCEPT ![b] = "failed"] /\ copied' = copied
    <3>1. reply'[i] \in {"ok", "error"}
      BY <1>3
    <3> QED
      BY <2>2, <3>1
  <2> QED
    BY <1>1, <2>1, <2>2
<1>5. TypeOK'
  <2>1. copied' \in [Batches -> 0 .. MaxLimit]
    <3>1. n \in 0 .. MaxLimit
      BY <1>2, BoundsAssumption
    <3> QED
      BY <1>0, <1>4, <3>1 DEF TypeOK
  <2>2. phase' \in [Batches -> Active \cup {"idle", "refused", "previewed", "done",
                                           "failed", "dead"}]
    BY <1>0, <1>4 DEF TypeOK
  <2> QED
    BY <1>0, <1>1, <1>3, <2>1, <2>2 DEF TypeOK, StoreType
<1>6. \A c \in Batches, k \in 1 .. MaxLimit :
         /\ c # b \/ k # n => reply'[<<c, k>>] = reply[<<c, k>>]
         /\ reply'[<<c, k>>] = "none" <=> reply[<<c, k>>] = "none"
  BY <1>2, <1>3, <1>4, CopyIds
<1>7. CopiesAppended'
  <2> SUFFICES ASSUME NEW c \in Batches
        PROVE  /\ copied'[c] <= Len(matched[c]) /\ Len(matched[c]) <= MaxLimit
               /\ phase'[c] = "idle" => matched[c] = <<>>
               /\ phase'[c] \in {"publishing", "done"} => copied'[c] = Len(matched[c])
               /\ \A k \in 1 .. MaxLimit :
                     /\ k <= copied'[c] => reply'[<<c, k>>] = "ok"
                     /\ k > copied'[c] + 1 \/ k > Len(matched[c]) => reply'[<<c, k>>] = "none"
    BY <1>1 DEF CopiesAppended
  <2>1. CASE c # b
    <3>1. copied'[c] = copied[c] /\ phase'[c] = phase[c]
      BY <1>0, <1>4, <2>1 DEF TypeOK
    <3> QED
      BY <1>0, <1>6, <2>1, <3>1 DEF CopiesAppended
  <2>2. CASE c = b /\ copied'[b] = n /\ phase'[b] = "appending" /\ reply'[i] = "ok"
    <3>1. n <= Len(matched[b]) /\ Len(matched[b]) <= MaxLimit /\ n = copied[b] + 1
      BY <1>0, <1>1, <1>2 DEF n, TypeOK, CopiesAppended
    <3>2. ASSUME NEW k \in 1 .. MaxLimit
          PROVE  /\ k <= n => reply'[<<b, k>>] = "ok"
                 /\ k > n + 1 \/ k > Len(matched[b]) => reply'[<<b, k>>] = "none"
      <4>1. k > n + 1 => k > copied[b] + 1
        BY <1>2, <3>1, BoundsAssumption
      <4>2. k <= n => k <= copied[b] \/ k = n
        BY <1>2, <3>1, BoundsAssumption
      <4> QED
        BY <1>0, <1>6, <2>2, <4>1, <4>2 DEF CopiesAppended, i
    <3> QED
      BY <2>2, <3>1, <3>2
  <2>3. CASE c = b /\ copied'[b] = copied[b] /\ phase'[b] = "failed"
    <3>1. \A k \in 1 .. MaxLimit : k <= copied[b] => k # n
      BY <1>2, BoundsAssumption DEF n
    <3> QED
      BY <1>0, <1>6, <2>3, <3>1 DEF CopiesAppended
  <2>4. \/ copied'[b] = n /\ phase'[b] = "appending" /\ reply'[i] = "ok"
        \/ copied'[b] = copied[b] /\ phase'[b] = "failed"
    BY <1>0, <1>1, <1>4 DEF TypeOK
  <2> QED
    BY <2>1, <2>2, <2>3, <2>4
<1>8. SourcesStored' /\ CopiesLikeSources'
  BY <1>1, <1>3, <1>6 DEF IInv, BatchInv, SourcesStored, CopiesLikeSources, InLog
<1>9. PublishedComplete'
  <2>1. \A c \in Batches \ {b} : phase'[c] = phase[c] /\ copied'[c] = copied[c]
    BY <1>0, <1>4 DEF TypeOK
  <2> QED
    BY <1>1, <2>1 DEF IInv, BatchInv, PublishedComplete
<1>10. CopyOrder' /\ SourcesBefore'
  BY <1>1, <1>3, LogsStay
<1> QED
  BY <1>3, <1>5, <1>7, <1>8, <1>9, <1>10 DEF IInv, BatchInv

LEMMA StepIInv == IInv /\ [Next]_vars => IInv'
<1> SUFFICES ASSUME IInv, [Next]_vars PROVE IInv'
  OBVIOUS
<1>1. ASSUME NEW b \in Batches, Execute(b) PROVE IInv'
  BY <1>1, CopyIInv, AnswerIInv, PhaseIInv DEF Execute
<1>2. CASE Crash
  <2>1. CASE Batches = {}
    <3>1. TypeOK'
      BY <1>2, <2>1, BoundsAssumption DEF IInv, Crash, TypeOK, storeVars
    <3> QED
      BY <1>2, <2>1, <3>1, PhasesMove DEF Crash
  <2> QED
    BY <1>2, <2>1, PhaseIInv
<1>3. CASE UNCHANGED vars
  <2>1. TypeOK'
    BY <1>3 DEF IInv, TypeOK, vars, storeVars, batchVars
  <2> QED
    BY <1>3, <2>1, PhasesMove DEF vars, batchVars
<1> QED
  BY <1>1, <1>2, <1>3, IngestIInv, EffectIInv, PhaseIInv, QueryIInv DEF Next

LEMMA Inductive == Spec => []IInv
<1> QED
  BY InitIInv, StepIInv, PTL DEF Spec

-----------------------------------------------------------------------------
\* The state is well-typed.
THEOREM TypeCorrect == Spec => []TypeOK
<1>1. IInv => TypeOK
  BY DEF IInv
<1> QED
  BY <1>1, Inductive, PTL

\* Every copy is behind its source, in its stream, of its caller's tenant.
THEOREM CopiesFollow == Spec => []CopyFollowsSource
<1>1. IInv => CopyFollowsSource
  <2> SUFFICES ASSUME IInv, NEW s \in Streams, NEW v \in DOMAIN log[s],
                      NEW b \in Batches, NEW k \in 1 .. MaxLimit, log[s][v].id = <<b, k>>
               PROVE  \E w \in 1 .. v - 1 : /\ log[s][w].id = Source(<<b, k>>)
                                            /\ log[s][w].tenant = log[s][v].tenant
                                            /\ log[s][v].tenant = caller[<<b, k>>[1]]
    BY DEF CopyFollowsSource, Copies
  <2> QED
    BY DEF IInv, SourcesBefore, Source
<1> QED
  BY <1>1, Inductive, PTL

\* The stored copies of a batch are those that were answered, and perhaps the
\* one after them.
LEMMA StoredIsPrefix ==
  ASSUME IInv, NEW b \in Batches
  PROVE  \E n \in copied[b] .. copied[b] + 1 : Stored(b) = 1 .. n
<1>0. /\ TypeOK /\ StoreInv /\ CopiesAppended
      /\ copied[b] \in Nat /\ copied[b] <= MaxLimit /\ MaxLimit \in Nat
  BY BoundsAssumption DEF IInv, BatchInv, TypeOK
<1>1. Stored(b) = {k \in 1 .. MaxLimit : InLog(<<b, k>>)}
  BY RecordedIsInLog DEF Stored
<1>2. \A k \in 1 .. MaxLimit : k <= copied[b] => k \in Stored(b)
  BY <1>0, <1>1, CopyIds DEF CopiesAppended, StoreInv, OkIsStored
<1>3. \A k \in Stored(b) : k \in 1 .. MaxLimit /\ k <= copied[b] + 1
  BY <1>0, <1>1, LoggedHasRequest, CopyInMatched DEF StoreInv
<1>4. CASE copied[b] + 1 \in Stored(b)
  <2>1. \A k \in 1 .. (copied[b] + 1) : k \in Stored(b)
    <3> SUFFICES ASSUME NEW k \in 1 .. (copied[b] + 1), k # copied[b] + 1
                 PROVE  k \in Stored(b)
      BY <1>4
    <3>1. k \in 1 .. MaxLimit /\ k <= copied[b]
      BY <1>0
    <3> QED
      BY <1>2, <3>1
  <2>2. \A k \in Stored(b) : k \in 1 .. (copied[b] + 1)
    BY <1>0, <1>3
  <2>3. Stored(b) = 1 .. (copied[b] + 1)
    BY <2>1, <2>2
  <2> QED
    BY <1>0, <2>3
<1>5. CASE copied[b] + 1 \notin Stored(b)
  <2>1. \A k \in 1 .. copied[b] : k \in Stored(b)
    <3> SUFFICES ASSUME NEW k \in 1 .. copied[b] PROVE k \in Stored(b)
      OBVIOUS
    <3>1. k \in 1 .. MaxLimit /\ k <= copied[b]
      BY <1>0
    <3> QED
      BY <1>2, <3>1
  <2>2. \A k \in Stored(b) : k \in 1 .. copied[b]
    <3> SUFFICES ASSUME NEW k \in Stored(b) PROVE k \in 1 .. copied[b]
      OBVIOUS
    <3>1. k \in Nat /\ k >= 1 /\ k <= copied[b] + 1 /\ k # copied[b] + 1
      BY <1>0, <1>3, <1>5
    <3> QED
      BY <1>0, <3>1
  <2>3. Stored(b) = 1 .. copied[b]
    BY <2>1, <2>2
  <2> QED
    BY <1>0, <2>3
<1> QED
  BY <1>4, <1>5

LEMMA PositionIsIts ==
  ASSUME IInv, NEW b \in Batches, NEW k \in Stored(b)
  PROVE  LET c == <<b, k>>
         IN Position(c) \in DOMAIN log[request[c].stream]
            /\ log[request[c].stream][Position(c)].id = c
<1> DEFINE c == <<b, k>>
<1>1. InLog(c)
  BY RecordedIsInLog DEF Stored
<1>2. PICK s \in Streams : \E v \in DOMAIN log[s] : log[s][v].id = c
  BY <1>1 DEF InLog
<1>3. s = request[c].stream
  BY <1>2 DEF IInv, StoreInv, LoggedIsRequested
<1>4. Store!Positions(s, c) # {}
  BY <1>2 DEF Store!Positions
<1>5. Position(c) \in Store!Positions(s, c)
  BY <1>3, <1>4 DEF Position
<1> QED
  BY <1>3, <1>5 DEF Store!Positions

\* The stored copies of a batch are those of the first events it matched, in
\* their order.
THEOREM CopiesPrefix == Spec => []CopiesArePrefix
<1>1. IInv => CopiesArePrefix
  <2> SUFFICES ASSUME IInv, NEW b \in Batches
               PROVE  /\ \E n \in copied[b] .. copied[b] + 1 : Stored(b) = 1 .. n
                      /\ \A j, k \in Stored(b) :
                            (/\ j < k
                             /\ request[<<b, j>>].stream = request[<<b, k>>].stream)
                            => Position(<<b, j>>) < Position(<<b, k>>)
    BY DEF CopiesArePrefix
  <2>1. ASSUME NEW j \in Stored(b), NEW k \in Stored(b), j < k,
               request[<<b, j>>].stream = request[<<b, k>>].stream
        PROVE  Position(<<b, j>>) < Position(<<b, k>>)
    <3> DEFINE s == request[<<b, j>>].stream
    <3>1. /\ Position(<<b, j>>) \in DOMAIN log[s] /\ log[s][Position(<<b, j>>)].id = <<b, j>>
          /\ Position(<<b, k>>) \in DOMAIN log[s] /\ log[s][Position(<<b, k>>)].id = <<b, k>>
      BY <2>1, PositionIsIts
    <3>2. j \in 1 .. MaxLimit /\ k \in 1 .. MaxLimit
      BY DEF Stored
    <3>3. s \in Streams
      <4>1. InLog(<<b, j>>)
        BY RecordedIsInLog DEF Stored
      <4>2. <<b, j>> \in Ids /\ reply[<<b, j>>] # "none"
        BY <4>1, LoggedHasRequest DEF IInv, StoreInv
      <4> QED
        BY <4>2 DEF IInv, StoreInv, RequestIds, Store!Event
    <3> HIDE DEF s
    <3> QED
      BY <2>1, <3>1, <3>2, <3>3 DEF IInv, CopyOrder
  <2> QED
    BY <2>1, StoredIsPrefix
<1> QED
  BY <1>1, Inductive, PTL

\* Only batches whose copies are all stored have copies in Kafka.
THEOREM PublishedAreComplete == Spec => []PublishedBatchIsStored
<1>1. IInv => PublishedBatchIsStored
  <2> SUFFICES ASSUME IInv, NEW b \in Batches, NEW k \in 1 .. MaxLimit, <<b, k>> \in topic
               PROVE  Stored(b) = 1 .. Len(matched[b])
    BY DEF PublishedBatchIsStored, Copies, IInv, TypeOK
  <2>1. copied[b] = Len(matched[b]) /\ copied[b] \in Nat /\ TypeOK /\ CopiesAppended
    BY BoundsAssumption DEF IInv, BatchInv, PublishedComplete, TypeOK
  <2>2. PICK n \in copied[b] .. copied[b] + 1 : Stored(b) = 1 .. n
    BY StoredIsPrefix
  <2>3. \A j \in Stored(b) : j \in 1 .. MaxLimit /\ j <= copied[b]
    <3> SUFFICES ASSUME NEW j \in Stored(b) PROVE j \in 1 .. MaxLimit /\ j <= copied[b]
      OBVIOUS
    <3>1. j \in 1 .. MaxLimit /\ InLog(<<b, j>>)
      BY RecordedIsInLog DEF Stored
    <3>2. j \in DOMAIN matched[b]
      BY <2>1, <3>1, LoggedHasRequest, CopyInMatched DEF IInv, StoreInv
    <3> QED
      BY <2>1, <3>1, <3>2 DEF TypeOK
  <2>4. n = copied[b]
    <3>1. ASSUME n = copied[b] + 1 PROVE FALSE
      <4>1. n \in Stored(b)
        BY <2>1, <2>2, <3>1
      <4> QED
        BY <2>1, <2>3, <3>1, <4>1
    <3> QED
      BY <2>1, <2>2, <3>1
  <2> QED
    BY <2>1, <2>2, <2>4
<1> QED
  BY <1>1, Inductive, PTL

\* A replay that starts has every event that matches.
THEOREM MatchesAreComplete == Spec => NothingCutOff
<1> DEFINE Complete ==
      \A b \in Batches : phase[b] = "idle" /\ phase'[b] = "appending" =>
         \A f \in Filters, limit \in 1 .. MaxLimit :
            Query(b, f, limit) => ToSet(matched'[b]) = Matching(f)
<1>1. IInv => Complete
  <2> SUFFICES ASSUME IInv, NEW b \in Batches, NEW f \in Filters, NEW limit \in 1 .. MaxLimit,
                      Query(b, f, limit)
               PROVE  ToSet(matched'[b]) = Matching(f)
    OBVIOUS
  <2>1. PICK rows \in Selections(f, limit + 1) :
           Len(rows) <= limit /\ matched' = [matched EXCEPT ![b] = rows]
    BY DEF Query
  <2>2. limit \in Nat /\ TypeOK /\ StoreInv
    BY BoundsAssumption DEF IInv
  <2>3. ToSet(rows) = Matching(f)
    BY <2>1, <2>2, SelectionIsMatching
  <2>4. matched'[b] = rows
    BY <2>1, <2>2 DEF TypeOK
  <2> QED
    BY <2>3, <2>4
<1>2. IInv => [Complete]_vars
  BY <1>1
<1>3. NothingCutOff <=> [][Complete]_vars
  BY DEF NothingCutOff
<1> HIDE DEF Complete
<1> QED
  BY <1>2, <1>3, Inductive, PTL

-----------------------------------------------------------------------------
\* A non-empty set of positions has a first one.
LEMMA FirstPosition ==
  ASSUME NEW T \in SUBSET Nat, T # {}
  PROVE  \E v \in T : \A w \in T : v <= w
<1>1. PICK v \in T : \A w \in T : ~ (<<w, v>> \in OpToRel(<, Nat))
  BY NatLessThanWellFounded, WFMin
<1>2. \A w \in T : ~ (w < v)
  BY <1>1 DEF OpToRel
<1> QED
  BY <1>2

\* No endless chain of stored copies, each with the next one as its source.
SourcesEnd ==
    ~ \E chain \in [Nat -> Copies] :
         \A n \in Nat : InLog(chain[n]) /\ chain[n + 1] = Source(chain[n])

(***************************************************************************)
(* Copies of copies: following replay_source_event_id from a stored copy   *)
(* ends at an event that was ingested, however often and by however many   *)
(* replays at once it was copied; no stored copies have each other, or     *)
(* ever earlier ones, as their sources (replay/service.go:241).            *)
(***************************************************************************)
THEOREM SourceChainsEnd == Spec => []SourcesEnd
<1>1. ASSUME CopyFollowsSource, TypeOK, NEW chain \in [Nat -> Copies],
             \A n \in Nat : InLog(chain[n]) /\ chain[n + 1] = Source(chain[n])
      PROVE  FALSE
  <2> DEFINE At(v) == \E s \in Streams : \E n \in Nat :
                         v \in DOMAIN log[s] /\ log[s][v].id = chain[n]
             T == {v \in Nat : At(v)}
  <2>1. \A s \in Streams : DOMAIN log[s] = 1 .. Len(log[s]) /\ Len(log[s]) \in Nat
    BY <1>1 DEF TypeOK
  <2>2. T # {}
    <3>1. PICK s \in Streams : \E v \in DOMAIN log[s] : log[s][v].id = chain[0]
      BY <1>1 DEF InLog
    <3>2. PICK v \in DOMAIN log[s] : log[s][v].id = chain[0]
      BY <3>1
    <3>3. v \in T
      BY <2>1, <3>2
    <3> QED
      BY <3>3
  <2>3. PICK v \in T : \A w \in T : v <= w
    BY <2>2, FirstPosition
  <2>4. PICK s \in Streams, n \in Nat : v \in DOMAIN log[s] /\ log[s][v].id = chain[n]
    OBVIOUS
  <2>5. chain[n] \in Copies /\ n + 1 \in Nat
    OBVIOUS
  <2>6. PICK w \in 1 .. v - 1 : log[s][w].id = chain[n + 1]
    BY <1>1, <2>4, <2>5 DEF CopyFollowsSource
  <2>7. v \in 1 .. Len(log[s])
    BY <2>1, <2>4
  <2>8. w \in DOMAIN log[s] /\ w < v /\ w \in Nat
    BY <2>1, <2>6, <2>7
  <2>9. w \in T
    BY <2>5, <2>6, <2>8
  <2>10. v \in Nat /\ ~ v <= w
    BY <2>7, <2>8
  <2> QED
    BY <2>3, <2>9, <2>10
<1>2. CopyFollowsSource /\ TypeOK => SourcesEnd
  BY <1>1 DEF SourcesEnd
<1> QED
  BY <1>2, CopiesFollow, TypeCorrect, PTL

(***************************************************************************)
(* Replays and ingests call the store only as its contract allows: the     *)
(* store of a batch may be anything that implements EventLog, as the SQL   *)
(* of EventStore does.                                                     *)
(***************************************************************************)
THEOREM KeepsTheContract == Spec => Store!Spec
<1>1. Init => Store!Init
  BY DEF Init
<1>2. IInv /\ [Next]_vars => [Store!Next]_(Store!vars)
  <2> SUFFICES ASSUME IInv, [Next]_vars PROVE Store!Next \/ UNCHANGED storeVars
    BY DEF Store!vars, storeVars
  <2>1. ASSUME NEW i \in Ids, NEW t \in Tenants, NEW s \in Streams, Create(i, t, s)
        PROVE  Store!Next
    <3>1. [id |-> i, tenant |-> t, stream |-> s] \in Store!Event
      BY DEF Store!Event
    <3> QED
      BY <2>1, <3>1 DEF Create, Store!Next
  <2>2. ASSUME NEW o \in Originals, NEW t \in Tenants, NEW s \in Streams, Ingest(o, t, s)
        PROVE  Store!Next
    BY <2>1, <2>2 DEF Ingest, Ids
  <2>3. ASSUME NEW i \in Ids, TakeEffect(i) PROVE Store!Next
    BY <2>3 DEF TakeEffect, Store!Next
  <2>4. ASSUME NEW b \in Batches, Copy(b) PROVE Store!Next
    <3> DEFINE c == <<b, copied[b] + 1>>
               t == request[Source(c)].tenant
               s == request[Source(c)].stream
    <3>1. Create(c, t, s) /\ copied[b] < Len(matched[b])
      BY <2>4 DEF Copy
    <3>2. /\ c \in Ids /\ copied[b] + 1 \in DOMAIN matched[b]
          /\ matched[b][copied[b] + 1] \in Ids
      BY <3>1, NextCopy DEF IInv, BatchInv
    <3>3. InLog(Source(c)) /\ Source(c) \in Ids
      BY <3>2 DEF IInv, BatchInv, SourcesStored, Source
    <3>4. request[Source(c)] \in Store!Event
      BY <3>3, LoggedHasRequest DEF IInv, StoreInv, RequestIds
    <3>5. t \in Tenants /\ s \in Streams
      BY <3>4 DEF Store!Event
    <3> HIDE DEF c, t, s
    <3> QED
      BY <2>1, <3>1, <3>2, <3>5
  <2>5. ASSUME NEW b \in Batches, Copied(b) \/ CopyFails(b) PROVE Store!Next
    <3>1. <<b, copied[b] + 1>> \in Ids
      BY <2>5, NextCopy DEF IInv, BatchInv, Copied, CopyFails
    <3> QED
      BY <2>5, <3>1 DEF Copied, CopyFails, Store!Next
  <2>6. ASSUME NEW b \in Batches, NEW f, NEW limit,
               \/ Refuse(b) \/ Exceeds(b, f, limit) \/ Preview(b, f, limit)
               \/ Query(b, f, limit) \/ AllCopied(b) \/ Publish(b) \/ Finish(b)
        PROVE  UNCHANGED storeVars
    BY <2>6 DEF Refuse, Exceeds, Preview, Query, AllCopied, Publish, Finish
  <2>7. CASE Crash \/ UNCHANGED vars
    BY <2>7 DEF Crash, vars
  <2> QED
    BY <2>2, <2>3, <2>4, <2>5, <2>6, <2>7 DEF Next, Execute
<1> QED
  BY <1>1, <1>2, Inductive, PTL DEF Spec, Store!Spec
=============================================================================
