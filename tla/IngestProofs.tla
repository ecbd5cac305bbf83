----------------------------- MODULE IngestProofs -----------------------------
(***************************************************************************)
(* Proof that what Kafka carries and what 201 acknowledges is stored, for  *)
(* any number of requests, tenants, streams, deliveries and crashes.       *)
(*                                                                         *)
(* PublishedIsStored speaks of the topic alone and is not inductive: a     *)
(* message gets there through the writer's queue and its batch, and into   *)
(* the queue from a handler whose Append succeeded.  IInv follows it back  *)
(* to the version that Append answered (OkIsStored), which is the event's  *)
(* position for good because logs only grow (LogGrows).                    *)
(*                                                                         *)
(* The converse, that what is stored and not in Kafka has a reason, rests  *)
(* on IInv and on Accounted: a handler past Publish has seen its message   *)
(* in the topic or an error.                                               *)
(*                                                                         *)
(* A handler that waits has its message in the writer's hands              *)
(* (WaitersAreHeld), and the store is used within the contract of EventLog *)
(* (KeepsTheContract).                                                     *)
(***************************************************************************)
EXTENDS Ingest, TLAPS

\* A request that reached the store carries its own id.
RequestIds ==
    \A r \in Requests : reply[r] # "none" => request[r] \in Store!Event /\ request[r].id = r

\* What is logged is what was requested, in the stream it named.
LoggedIsRequested ==
    \A s \in Streams : \A v \in DOMAIN log[s] :
       LET r == log[s][v].id
       IN reply[r] # "none" /\ log[s][v] = request[r] /\ request[r].stream = s

\* An answered version is the event's position.
OkIsStored ==
    \A r \in Requests : reply[r] = "ok" =>
       LET s == request[r].stream
       IN assigned[r] \in DOMAIN log[s] /\ log[s][assigned[r]] = request[r]

\* A handler past its Append has a version, and so has one that answered 201.
PastAppend ==
    \A r \in Requests :
       handler[r] \in {"appended", "writing", "written"} \/ response[r] = "created"
          => reply[r] = "ok"

StoredAs(m, s) ==
    /\ m.version \in DOMAIN log[s]
    /\ log[s][m.version] = [id |-> m.id, tenant |-> m.tenant, stream |-> s]

MessagesStored ==
    \A s \in Streams :
       \A m \in ToSet(queue[s]) \cup ToSet(batch[s]) \cup ToSet(topic[s]) : StoredAs(m, s)

IInv == /\ TypeOK
        /\ RequestIds
        /\ LoggedIsRequested
        /\ OkIsStored
        /\ PastAppend
        /\ MessagesStored

-----------------------------------------------------------------------------
LEMMA AppendPositions ==
    ASSUME NEW S, NEW q \in Seq(S), NEW m \in S
    PROVE  /\ Append(q, m) \in Seq(S)
           /\ DOMAIN Append(q, m) = DOMAIN q \cup {Len(q) + 1}
           /\ Append(q, m)[Len(q) + 1] = m
           /\ \A v \in DOMAIN q : Append(q, m)[v] = q[v]
<1>1. Append(q, m) \in Seq(S) /\ DOMAIN Append(q, m) = DOMAIN q \cup {Len(q) + 1}
  OBVIOUS
<1>2. \A i \in DOMAIN q : Append(q, m)[i] = q[i]
  OBVIOUS
<1>3. Append(q, m)[Len(q) + 1] = m
  OBVIOUS
<1>. QED
  BY <1>1, <1>2, <1>3

\* What a sequence holds after the steps of the writer.
LEMMA ElementsOfAppend ==
    ASSUME NEW S, NEW q \in Seq(S), NEW m \in S
    PROVE  Append(q, m) \in Seq(S) /\ ToSet(Append(q, m)) = ToSet(q) \cup {m}
BY AppendPositions DEF ToSet

LEMMA ElementsOfConcat ==
    ASSUME NEW S, NEW p \in Seq(S), NEW q \in Seq(S)
    PROVE  p \o q \in Seq(S) /\ ToSet(p \o q) \subseteq ToSet(p) \cup ToSet(q)
<1>1. p \o q \in Seq(S) /\ DOMAIN (p \o q) = 1 .. (Len(p) + Len(q))
  OBVIOUS
<1>2. ASSUME NEW i \in DOMAIN (p \o q) PROVE (p \o q)[i] \in ToSet(p) \cup ToSet(q)
  <2>1. CASE i <= Len(p)
    BY <1>1, <2>1 DEF ToSet
  <2>2. CASE i > Len(p)
    <3>1. (p \o q)[i] = q[i - Len(p)] /\ i - Len(p) \in DOMAIN q
      BY <1>1, <2>2
    <3>. QED
      BY <3>1 DEF ToSet
  <2>. QED
    BY <1>1, <2>1, <2>2
<1>. QED
  BY <1>1, <1>2 DEF ToSet

LEMMA ElementsOfPart ==
    ASSUME NEW S, NEW q \in Seq(S), NEW i \in 1 .. (Len(q) + 1), NEW j \in 0 .. Len(q)
    PROVE  SubSeq(q, i, j) \in Seq(S) /\ ToSet(SubSeq(q, i, j)) \subseteq ToSet(q)
<1>1. SubSeq(q, i, j) \in Seq(S)
  OBVIOUS
<1>2. ASSUME NEW k \in DOMAIN SubSeq(q, i, j) PROVE SubSeq(q, i, j)[k] \in ToSet(q)
  <2>1. k \in 1 .. (j - i + 1) /\ SubSeq(q, i, j)[k] = q[i + k - 1]
    OBVIOUS
  <2>2. i + k - 1 \in DOMAIN q
    BY <2>1
  <2>. QED
    BY <2>1, <2>2 DEF ToSet
<1>. QED
  BY <1>1, <1>2 DEF ToSet

-----------------------------------------------------------------------------
\* A call that takes effect adds its event at the end of its stream.
LEMMA LogGrows ==
    ASSUME TypeOK, RequestIds, NEW r \in Requests, Store!TakeEffect(r)
    PROVE  /\ request[r] \in Store!Event
           /\ log' \in [Streams -> Seq(Store!Event)]
           /\ \A s \in Streams : \A v \in DOMAIN log[s] :
                 v \in DOMAIN log'[s] /\ log'[s][v] = log[s][v]
           /\ \A s \in Streams : \A v \in DOMAIN log'[s] :
                 v \in DOMAIN log[s] \/ (s = request[r].stream /\ log'[s][v] = request[r])
<1>1. request[r] \in Store!Event /\ request[r].stream \in Streams
  BY DEF RequestIds, Store!TakeEffect, Store!Event
<1>2. log' = [log EXCEPT ![request[r].stream] = Append(@, request[r])]
  BY DEF Store!TakeEffect
<1>3. ASSUME NEW s \in Streams, s # request[r].stream PROVE log'[s] = log[s]
  BY <1>2, <1>3 DEF TypeOK
<1>4. log'[request[r].stream] = Append(log[request[r].stream], request[r])
  BY <1>1, <1>2 DEF TypeOK
<1>5. log[request[r].stream] \in Seq(Store!Event)
  BY <1>1 DEF TypeOK
<1>. DEFINE z == request[r].stream
<1>6. /\ log'[z] \in Seq(Store!Event)
      /\ DOMAIN log'[z] = DOMAIN log[z] \cup {Len(log[z]) + 1}
      /\ log'[z][Len(log[z]) + 1] = request[r]
      /\ \A v \in DOMAIN log[z] : log'[z][v] = log[z][v]
  <2>. HIDE DEF z
  <2>1. log'[z] = Append(log[z], request[r]) /\ log[z] \in Seq(Store!Event)
    BY <1>4, <1>5 DEF z
  <2>2. request[r] \in Store!Event
    BY <1>1
  <2>. QED
    BY <2>1, <2>2, AppendPositions
<1>7. log' \in [Streams -> Seq(Store!Event)]
  BY <1>1, <1>2, <1>6 DEF TypeOK
<1>. QED
  BY <1>1, <1>3, <1>6, <1>7

\* Messages that stay or come from where they were stay stored.
LEMMA MessagesKept ==
    ASSUME MessagesStored,
           \A s \in Streams : \A v \in DOMAIN log[s] :
              v \in DOMAIN log'[s] /\ log'[s][v] = log[s][v],
           \A s \in Streams :
              ToSet(queue'[s]) \cup ToSet(batch'[s]) \cup ToSet(topic'[s])
                 \subseteq ToSet(queue[s]) \cup ToSet(batch[s]) \cup ToSet(topic[s])
    PROVE  MessagesStored'
<1>1. ASSUME NEW s \in Streams,
             NEW m \in ToSet(queue'[s]) \cup ToSet(batch'[s]) \cup ToSet(topic'[s])
      PROVE  StoredAs(m, s)'
  <2>1. StoredAs(m, s)
    BY DEF MessagesStored
  <2>. QED
    BY <2>1 DEF StoredAs
<1>. QED
  BY <1>1 DEF MessagesStored

-----------------------------------------------------------------------------
LEMMA InitIInv == Init => IInv
<1>. SUFFICES ASSUME Init PROVE IInv
  OBVIOUS
<1>1. TypeOK
  BY BoundsAssumption DEF Init, Store!Init, TypeOK, Active
<1>2. RequestIds /\ LoggedIsRequested /\ OkIsStored /\ PastAppend
  BY DEF Init, Store!Init, RequestIds, LoggedIsRequested, OkIsStored, PastAppend
<1>3. MessagesStored
  BY DEF Init, MessagesStored, ToSet
<1>. QED
  BY <1>1, <1>2, <1>3 DEF IInv

\* TakeEffect adds the event of a request to the stream that it names.
LEMMA TakeEffectIInv ==
    ASSUME IInv, NEW r \in Requests, TakeEffect(r)
    PROVE  IInv'
<1>1. TypeOK /\ RequestIds /\ Store!TakeEffect(r)
  BY DEF IInv, TakeEffect
<1>2. /\ request' = request /\ reply' = reply /\ assigned' = assigned
      /\ handler' = handler /\ publish' = publish /\ response' = response
      /\ queue' = queue /\ batch' = batch /\ topic' = topic /\ crashes' = crashes
      /\ reply[r] # "none"
  BY DEF TakeEffect, Store!TakeEffect, writerVars
<1>3. TypeOK'
  BY <1>1, <1>2, LogGrows DEF TypeOK
<1>4. RequestIds' /\ PastAppend'
  BY <1>2 DEF IInv, RequestIds, PastAppend
<1>5. LoggedIsRequested'
  <2>1. ASSUME NEW s \in Streams, NEW v \in DOMAIN log'[s]
        PROVE  /\ reply[log'[s][v].id] # "none"
               /\ log'[s][v] = request[log'[s][v].id]
               /\ request[log'[s][v].id].stream = s
    <3>1. CASE v \in DOMAIN log[s]
      BY <1>1, <3>1, LogGrows DEF IInv, LoggedIsRequested
    <3>2. CASE s = request[r].stream /\ log'[s][v] = request[r]
      BY <1>1, <1>2, <3>2 DEF RequestIds
    <3>. QED
      BY <1>1, <3>1, <3>2, LogGrows
  <2>. QED
    BY <1>2, <2>1 DEF LoggedIsRequested
<1>6. OkIsStored'
  BY <1>1, <1>2, LogGrows DEF IInv, RequestIds, OkIsStored, Store!Event
<1>7. MessagesStored'
  BY <1>1, <1>2, LogGrows, MessagesKept DEF IInv
<1>. QED
  BY <1>3, <1>4, <1>5, <1>6, <1>7 DEF IInv

\* The steps of a request that touch neither the log nor the messages.
LEMMA RequestIInv ==
    ASSUME IInv, NEW r \in Requests,
           \/ Refuse(r)
           \/ \E t \in Tenants, s \in Streams : Accept(r, t, s)
           \/ AppendReturns(r)
           \/ AppendFails(r)
           \/ PublishFails(r)
           \/ PublishCancelled(r)
           \/ Return(r)
           \/ Disconnect(r)
    PROVE  IInv'
<1>. USE DEF IInv
<1>1. /\ log' = log /\ queue' = queue /\ batch' = batch /\ topic' = topic
      /\ crashes' = crashes
  BY DEF Refuse, Accept, AppendReturns, AppendFails, PublishFails, PublishCancelled,
         PublishError, Return, Disconnect, storeVars, writerVars,
         Store!Call, Store!Succeed, Store!Fail
<1>2. MessagesStored'
  BY <1>1, MessagesKept
<1>3. CASE Refuse(r)
  <2>1. TypeOK' /\ PastAppend'
    BY <1>3 DEF Refuse, Answer, storeVars, writerVars, TypeOK, Active, PastAppend
  <2>2. RequestIds' /\ LoggedIsRequested' /\ OkIsStored'
    BY <1>3 DEF Refuse, storeVars, RequestIds, LoggedIsRequested, OkIsStored
  <2>. QED
    BY <1>2, <2>1, <2>2
<1>4. ASSUME NEW t \in Tenants, NEW s \in Streams, Accept(r, t, s) PROVE IInv'
  <2>. DEFINE e == [id |-> r, tenant |-> t, stream |-> s]
  <2>1. /\ e \in Store!Event /\ e.id = r
        /\ reply[r] = "none"
        /\ request' = [request EXCEPT ![r] = e]
        /\ reply' = [reply EXCEPT ![r] = "waiting"]
        /\ handler' = [handler EXCEPT ![r] = "appending"]
        /\ assigned' = assigned /\ publish' = publish /\ response' = response
    BY <1>4 DEF Accept, Store!Call, Store!Event
  <2>. HIDE DEF e
  <2>2. TypeOK'
    BY <1>1, <2>1 DEF TypeOK, Active
  <2>3. RequestIds' /\ PastAppend'
    BY <2>1 DEF TypeOK, RequestIds, PastAppend
  <2>4. LoggedIsRequested'
    <3>1. ASSUME NEW z \in Streams, NEW v \in DOMAIN log[z]
          PROVE  LET q == log[z][v].id
                 IN reply'[q] # "none" /\ log[z][v] = request'[q] /\ request'[q].stream = z
      <4>. DEFINE q == log[z][v].id
      <4>1. reply[q] # "none" /\ log[z][v] = request[q] /\ request[q].stream = z
        BY DEF LoggedIsRequested
      <4>2. q # r
        BY <2>1, <4>1
      <4>3. reply'[q] = reply[q] /\ request'[q] = request[q]
        BY <2>1, <4>2 DEF TypeOK
      <4>. QED
        BY <4>1, <4>3
    <3>. QED
      BY <1>1, <3>1 DEF LoggedIsRequested
  <2>5. OkIsStored'
    BY <1>1, <2>1 DEF TypeOK, OkIsStored
  <2>. QED
    BY <1>2, <2>2, <2>3, <2>4, <2>5
<1>5. CASE AppendReturns(r)
  <2>0. PICK s \in Streams : \E v \in Store!Positions(s, request[r].id) :
                                assigned' = [assigned EXCEPT ![r] = v]
    BY <1>5 DEF AppendReturns, Store!Succeed
  <2>1. PICK v \in DOMAIN log[s] : /\ log[s][v].id = request[r].id
                                   /\ assigned' = [assigned EXCEPT ![r] = v]
    BY <2>0 DEF Store!Positions
  <2>2. /\ reply[r] = "waiting" /\ reply' = [reply EXCEPT ![r] = "ok"]
        /\ request' = request /\ publish' = publish /\ response' = response
        /\ handler' = [handler EXCEPT ![r] = "appended"]
    BY <1>5 DEF AppendReturns, Store!Succeed
  <2>3. v \in Nat /\ log[s][v] = request[r] /\ request[r].stream = s
    <3>1. log[s] \in Seq(Store!Event)
      BY DEF TypeOK
    <3>2. log[s][v].id = r
      BY <2>1, <2>2 DEF RequestIds
    <3>. QED
      BY <3>1, <3>2 DEF LoggedIsRequested
  <2>4. TypeOK'
    BY <1>1, <2>1, <2>2, <2>3 DEF TypeOK, Active
  <2>5. RequestIds' /\ LoggedIsRequested' /\ PastAppend'
    BY <1>1, <2>2 DEF TypeOK, RequestIds, LoggedIsRequested, PastAppend
  <2>6. OkIsStored'
    <3>1. assigned'[r] = v /\ \A x \in Requests : x # r => assigned'[x] = assigned[x]
      BY <2>1 DEF TypeOK
    <3>2. ASSUME NEW x \in Requests, x # r, reply'[x] = "ok"
          PROVE  /\ assigned'[x] \in DOMAIN log'[request'[x].stream]
                 /\ log'[request'[x].stream][assigned'[x]] = request'[x]
      <4>1. reply[x] = "ok"
        BY <2>2, <3>2 DEF TypeOK
      <4>. QED
        BY <1>1, <2>2, <3>1, <3>2, <4>1 DEF OkIsStored
    <3>3. assigned'[r] \in DOMAIN log'[s] /\ log'[s][assigned'[r]] = request'[r]
      BY <1>1, <2>1, <2>2, <2>3, <3>1
    <3>. QED
      BY <2>2, <2>3, <3>2, <3>3 DEF OkIsStored
  <2>. QED
    BY <1>2, <2>4, <2>5, <2>6
<1>6. CASE AppendFails(r)
  <2>1. /\ reply[r] = "waiting" /\ reply' = [reply EXCEPT ![r] = "error"]
        /\ request' = request /\ assigned' = assigned /\ publish' = publish
        /\ handler' = [handler EXCEPT ![r] = "returned"]
        /\ response' = response \/ response' = [response EXCEPT ![r] = "error"]
    BY <1>6 DEF AppendFails, Store!Fail, Answer
  <2>2. TypeOK'
    BY <1>1, <2>1 DEF TypeOK, Active
  <2>3. RequestIds' /\ LoggedIsRequested' /\ OkIsStored' /\ PastAppend'
    BY <1>1, <2>1 DEF TypeOK, RequestIds, LoggedIsRequested, OkIsStored, PastAppend
  <2>. QED
    BY <1>2, <2>2, <2>3
<1>7. CASE PublishFails(r) \/ PublishCancelled(r)
  <2>1. TypeOK' /\ PastAppend'
    BY <1>1, <1>7 DEF PublishFails, PublishCancelled, PublishError, storeVars, TypeOK,
                      Active, PastAppend
  <2>2. RequestIds' /\ LoggedIsRequested' /\ OkIsStored'
    BY <1>7 DEF PublishFails, PublishCancelled, PublishError, storeVars,
                RequestIds, LoggedIsRequested, OkIsStored
  <2>. QED
    BY <1>2, <2>1, <2>2
<1>8. CASE Return(r)
  <2>1. TypeOK' /\ PastAppend'
    BY <1>1, <1>8 DEF Return, Answer, storeVars, TypeOK, Active, PastAppend
  <2>2. RequestIds' /\ LoggedIsRequested' /\ OkIsStored'
    BY <1>8 DEF Return, storeVars, RequestIds, LoggedIsRequested, OkIsStored
  <2>. QED
    BY <1>2, <2>1, <2>2
<1>9. CASE Disconnect(r)
  <2>1. TypeOK' /\ PastAppend'
    BY <1>1, <1>9 DEF Disconnect, storeVars, TypeOK, Active, PastAppend
  <2>2. RequestIds' /\ LoggedIsRequested' /\ OkIsStored'
    BY <1>9 DEF Disconnect, storeVars, RequestIds, LoggedIsRequested, OkIsStored
  <2>. QED
    BY <1>2, <2>1, <2>2
<1>. QED
  BY <1>3, <1>4, <1>5, <1>6, <1>7, <1>8, <1>9

\* Enqueue adds the message of a stored event; other steps move messages.
LEMMA EnqueueIInv ==
    ASSUME IInv, NEW r \in Requests, Enqueue(r)
    PROVE  IInv'
<1>. USE DEF IInv
<1>. DEFINE z == request[r].stream
            m == MessageOf(r)
<1>1. /\ handler[r] = "appended" /\ handler' = [handler EXCEPT ![r] = "writing"]
      /\ log' = log /\ request' = request /\ reply' = reply /\ assigned' = assigned
      /\ publish' = publish /\ response' = response
      /\ queue' = [queue EXCEPT ![z] = Append(@, m)]
      /\ batch' = batch /\ topic' = topic /\ crashes' = crashes
  BY DEF Enqueue, storeVars
<1>2. /\ request[r] \in Store!Event /\ request[r].id = r
      /\ z \in Streams /\ m \in Message
  BY <1>1 DEF PastAppend, RequestIds, TypeOK, Store!Event, MessageOf, Message
<1>3. StoredAs(m, z)
  BY <1>1, <1>2 DEF PastAppend, OkIsStored, StoredAs, MessageOf, Store!Event
<1>. HIDE DEF m, z
<1>4. /\ queue' \in [Streams -> Seq(Message)]
      /\ \A s \in Streams : s # z => queue'[s] = queue[s]
      /\ ToSet(queue'[z]) = ToSet(queue[z]) \cup {m}
  <2>1. queue \in [Streams -> Seq(Message)] /\ queue[z] \in Seq(Message)
    BY <1>2 DEF TypeOK
  <2>2. /\ Append(queue[z], m) \in Seq(Message)
        /\ ToSet(Append(queue[z], m)) = ToSet(queue[z]) \cup {m}
    BY <1>2, <2>1, ElementsOfAppend
  <2>. QED
    BY <1>1, <1>2, <2>1, <2>2
<1>5. TypeOK'
  BY <1>1, <1>4 DEF TypeOK, Active
<1>6. RequestIds' /\ LoggedIsRequested' /\ OkIsStored' /\ PastAppend'
  BY <1>1 DEF TypeOK, RequestIds, LoggedIsRequested, OkIsStored, PastAppend
<1>7. MessagesStored'
  <2>1. ASSUME NEW s \in Streams,
               NEW x \in ToSet(queue'[s]) \cup ToSet(batch'[s]) \cup ToSet(topic'[s])
        PROVE  StoredAs(x, s)
    BY <1>1, <1>3, <1>4, <2>1 DEF MessagesStored
  <2>. QED
    BY <1>1, <2>1 DEF MessagesStored, StoredAs
<1>. QED
  BY <1>5, <1>6, <1>7

LEMMA WriterIInv ==
    ASSUME IInv, NEW z \in Streams, Write(z)
    PROVE  IInv'
<1>. USE DEF IInv
<1>1. /\ queue \in [Streams -> Seq(Message)] /\ queue[z] \in Seq(Message)
      /\ batch \in [Streams -> Seq(Message)] /\ batch[z] \in Seq(Message)
      /\ topic \in [Streams -> Seq(Message)] /\ topic[z] \in Seq(Message)
  BY DEF TypeOK
<1>2. CASE Dispatch(z)
  <2>1. /\ log' = log /\ request' = request /\ reply' = reply /\ assigned' = assigned
        /\ handler' = handler /\ publish' = publish /\ response' = response
        /\ topic' = topic /\ crashes' = crashes
    BY <1>2 DEF Dispatch, storeVars
  <2>2. PICK n \in 1 .. Len(queue[z]) :
           /\ batch' = [batch EXCEPT ![z] = SubSeq(queue[z], 1, n)]
           /\ queue' = [queue EXCEPT ![z] = SubSeq(queue[z], n + 1, Len(queue[z]))]
    BY <1>2 DEF Dispatch
  <2>3. /\ SubSeq(queue[z], 1, n) \in Seq(Message)
        /\ ToSet(SubSeq(queue[z], 1, n)) \subseteq ToSet(queue[z])
    <3>1. 1 \in 1 .. (Len(queue[z]) + 1) /\ n \in 0 .. Len(queue[z])
      BY <1>1
    <3>. QED
      BY <1>1, <3>1, ElementsOfPart
  <2>4. /\ SubSeq(queue[z], n + 1, Len(queue[z])) \in Seq(Message)
        /\ ToSet(SubSeq(queue[z], n + 1, Len(queue[z]))) \subseteq ToSet(queue[z])
    <3>1. n + 1 \in 1 .. (Len(queue[z]) + 1) /\ Len(queue[z]) \in 0 .. Len(queue[z])
      BY <1>1
    <3>. QED
      BY <1>1, <3>1, ElementsOfPart
  <2>5. TypeOK'
    BY <1>1, <2>1, <2>2, <2>3, <2>4 DEF TypeOK
  <2>6. RequestIds' /\ LoggedIsRequested' /\ OkIsStored' /\ PastAppend'
    BY <2>1 DEF RequestIds, LoggedIsRequested, OkIsStored, PastAppend
  <2>7. MessagesStored'
    BY <1>1, <2>1, <2>2, <2>3, <2>4, MessagesKept
  <2>. QED
    BY <2>5, <2>6, <2>7
<1>3. CASE Deliver(z)
  <2>1. /\ log' = log /\ request' = request /\ reply' = reply /\ assigned' = assigned
        /\ handler' = handler /\ publish' = publish /\ response' = response
        /\ queue' = queue /\ batch' = batch /\ crashes' = crashes
        /\ topic' = [topic EXCEPT ![z] = @ \o batch[z]]
    BY <1>3 DEF Deliver, storeVars
  <2>2. /\ topic[z] \o batch[z] \in Seq(Message)
        /\ ToSet(topic[z] \o batch[z]) \subseteq ToSet(topic[z]) \cup ToSet(batch[z])
    BY <1>1, ElementsOfConcat
  <2>3. TypeOK'
    BY <1>1, <2>1, <2>2 DEF TypeOK
  <2>4. RequestIds' /\ LoggedIsRequested' /\ OkIsStored' /\ PastAppend'
    BY <2>1 DEF RequestIds, LoggedIsRequested, OkIsStored, PastAppend
  <2>5. MessagesStored'
    BY <1>1, <2>1, <2>2, MessagesKept
  <2>. QED
    BY <2>3, <2>4, <2>5
<1>4. ASSUME NEW outcome \in {"acked", "failed"}, BatchEnds(z, outcome) PROVE IInv'
  <2>1. /\ log' = log /\ request' = request /\ reply' = reply /\ assigned' = assigned
        /\ response' = response /\ queue' = queue /\ topic' = topic /\ crashes' = crashes
        /\ batch' = [batch EXCEPT ![z] = <<>>]
    BY <1>4 DEF BatchEnds, storeVars
  <2>2. TypeOK'
    BY <1>1, <1>4, <2>1 DEF BatchEnds, TypeOK, Active
  <2>3. ASSUME NEW r \in Requests
        PROVE  handler'[r] = handler[r] \/ (handler[r] = "writing" /\ handler'[r] = "written")
    BY <1>4 DEF BatchEnds, Waiting
  <2>4. RequestIds' /\ LoggedIsRequested' /\ OkIsStored' /\ PastAppend'
    BY <2>1, <2>3 DEF RequestIds, LoggedIsRequested, OkIsStored, PastAppend
  <2>5. MessagesStored'
    <3>1. \A s \in Streams : ToSet(batch'[s]) \subseteq ToSet(batch[s])
      BY <1>1, <2>1 DEF ToSet
    <3>. QED
      BY <2>1, <3>1, MessagesKept
  <2>. QED
    BY <2>2, <2>4, <2>5
<1>. QED
  BY <1>2, <1>3, <1>4 DEF Write, Acknowledge, GiveUp

LEMMA CrashIInv == IInv /\ Crash => IInv'
<1>. SUFFICES ASSUME IInv, Crash PROVE IInv'
  OBVIOUS
<1>. USE DEF IInv
<1>1. /\ log' = log /\ request' = request /\ reply' = reply /\ assigned' = assigned
      /\ publish' = publish /\ response' = response /\ topic' = topic
      /\ queue' = [s \in Streams |-> <<>>] /\ batch' = [s \in Streams |-> <<>>]
  BY DEF Crash, storeVars
<1>2. TypeOK'
  BY <1>1, BoundsAssumption DEF Crash, TypeOK, Active
<1>3. RequestIds' /\ LoggedIsRequested' /\ OkIsStored' /\ PastAppend'
  BY <1>1 DEF Crash, Active, RequestIds, LoggedIsRequested, OkIsStored, PastAppend
<1>4. MessagesStored'
  BY <1>1, MessagesKept DEF ToSet
<1>. QED
  BY <1>2, <1>3, <1>4

LEMMA NextIInv == IInv /\ [Next]_vars => IInv'
<1>1. IInv /\ UNCHANGED vars => IInv'
  BY DEF vars, storeVars, writerVars, IInv, TypeOK, RequestIds, LoggedIsRequested,
         OkIsStored, PastAppend, MessagesStored, StoredAs
<1>. QED
  BY <1>1, TakeEffectIInv, RequestIInv, EnqueueIInv, WriterIInv, CrashIInv DEF Next, Handle

-----------------------------------------------------------------------------
THEOREM Invariance == Spec => []IInv
BY InitIInv, NextIInv, PTL DEF Spec

(***************************************************************************)
(* Every state of ingest-api, its writer and the topic is well-typed: in   *)
(* particular every queued or delivered message is that of a request.      *)
(***************************************************************************)
THEOREM TypeCorrect == Spec => []TypeOK
<1>1. IInv => TypeOK
  BY DEF IInv
<1>. QED
  BY Invariance, <1>1, PTL

(***************************************************************************)
(* Whatever dies, is cancelled or sent twice between the two writes, Kafka *)
(* carries nothing but stored rows, each with the version it is stored at. *)
(***************************************************************************)
THEOREM PublishedStored == Spec => []PublishedIsStored
<1>1. IInv => PublishedIsStored
  BY DEF IInv, MessagesStored, StoredAs, PublishedIsStored
<1>. QED
  BY Invariance, <1>1, PTL

(***************************************************************************)
(* 201 means durable: the event is in the log of the stream it named, at   *)
(* the version of the answer, and stays there.                             *)
(***************************************************************************)
THEOREM CreatedDurable == Spec => []CreatedIsDurable
<1>1. IInv => CreatedIsDurable
  BY DEF IInv, PastAppend, OkIsStored, CreatedIsDurable
<1>. QED
  BY Invariance, <1>1, PTL

-----------------------------------------------------------------------------
\* The message of a request has reached its stream's part of the topic.
Published(r) == \E m \in ToSet(topic[request[r].stream]) : m.id = r

\* A handler that is past Publish, or has answered, knows why Kafka has no
\* message of its event, if it has none.
Accounted ==
    \A r \in Requests :
       /\ handler[r] = "idle" => reply[r] = "none"
       /\ handler[r] = "written" => publish[r] = "failed" \/ Published(r)
       /\ handler[r] = "returned" => \/ reply[r] \in {"none", "error"}
                                     \/ publish[r] = "failed"
                                     \/ Published(r)

LEMMA ConcatKeeps ==
    ASSUME NEW S, NEW p \in Seq(S), NEW q \in Seq(S)
    PROVE  ToSet(p) \subseteq ToSet(p \o q)
<1>1. ASSUME NEW i \in DOMAIN p PROVE i \in DOMAIN (p \o q) /\ (p \o q)[i] = p[i]
  OBVIOUS
<1>. QED
  BY <1>1 DEF ToSet

\* A topic that ends with a batch holds each message of it.
LEMMA SuffixHolds ==
    ASSUME NEW S, NEW p \in Seq(S), NEW q \in Seq(S), IsSuffix(p, q)
    PROVE  ToSet(p) \subseteq ToSet(q)
<1>1. /\ Reverse(p) \in Seq(S) /\ Len(Reverse(p)) = Len(p)
      /\ Reverse(q) \in Seq(S) /\ Len(Reverse(q)) = Len(q)
  BY DEF Reverse
<1>2. /\ Len(p) <= Len(q)
      /\ SubSeq(Reverse(p), 1, Len(p)) = SubSeq(Reverse(q), 1, Len(p))
  BY <1>1 DEF IsSuffix, IsPrefix
<1>3. ASSUME NEW i \in DOMAIN p PROVE p[i] \in ToSet(q)
  <2>. DEFINE k == Len(p) - i + 1
              j == Len(q) - k + 1
  <2>1. k \in 1 .. Len(p) /\ k \in 1 .. Len(q) /\ j \in DOMAIN q
    BY <1>2
  <2>2. Reverse(p)[k] = p[i] /\ Reverse(q)[k] = q[j]
    BY <2>1 DEF Reverse
  <2>3. Reverse(p)[k] = Reverse(q)[k]
    <3>1. /\ SubSeq(Reverse(p), 1, Len(p))[k] = Reverse(p)[k]
          /\ SubSeq(Reverse(q), 1, Len(p))[k] = Reverse(q)[k]
      BY <1>1, <1>2, <2>1
    <3>. QED
      BY <1>2, <3>1
  <2>. QED
    BY <2>1, <2>2, <2>3 DEF ToSet
<1>. QED
  BY <1>3 DEF ToSet

\* What is published stays so while the request and its topic's messages do.
LEMMA PublishedStays ==
    ASSUME NEW r \in Requests, Published(r), request'[r].stream = request[r].stream,
           ToSet(topic[request[r].stream]) \subseteq ToSet(topic'[request[r].stream])
    PROVE  Published(r)'
BY DEF Published

\* The steps of one request: nobody else's handler moves.
LEMMA RequestAccounted ==
    ASSUME IInv, Accounted, NEW r \in Requests,
           \/ Refuse(r)
           \/ \E t \in Tenants, s \in Streams : Accept(r, t, s)
           \/ TakeEffect(r)
           \/ Handle(r)
           \/ PublishCancelled(r)
           \/ Disconnect(r)
    PROVE  Accounted'
<1>. USE DEF IInv
<1>1. topic' = topic
  BY DEF Refuse, Accept, TakeEffect, Handle, AppendReturns, AppendFails, Enqueue,
         PublishFails, PublishCancelled, PublishError, Return, Disconnect, writerVars
<1>2. ASSUME NEW x \in Requests, x # r
      PROVE  /\ handler'[x] = handler[x] /\ reply'[x] = reply[x]
             /\ publish'[x] = publish[x] /\ request'[x] = request[x]
  BY <1>2 DEF TypeOK, Refuse, Accept, TakeEffect, Handle, AppendReturns, AppendFails,
         Enqueue, PublishFails, PublishCancelled, PublishError, Return, Disconnect,
         storeVars, Store!Call, Store!TakeEffect, Store!Succeed, Store!Fail
<1>3. handler'[r] \in {"idle", "written", "returned"} /\ handler[r] # "idle"
         => request'[r] = request[r]
  BY DEF TypeOK, Refuse, Accept, TakeEffect, Handle, AppendReturns, AppendFails,
         Enqueue, PublishFails, PublishCancelled, PublishError, Return, Disconnect,
         storeVars, Store!Call, Store!TakeEffect, Store!Succeed, Store!Fail
<1>4. /\ handler'[r] = "idle" => reply'[r] = "none"
      /\ handler'[r] = "written" => publish'[r] = "failed" \/ Published(r)
      /\ handler'[r] = "returned" => \/ reply'[r] \in {"none", "error"}
                                     \/ publish'[r] = "failed"
                                     \/ Published(r)
  BY DEF TypeOK, Accounted, Refuse, Accept, TakeEffect, Handle, AppendReturns,
         AppendFails, Enqueue, PublishFails, PublishCancelled, PublishError, Return,
         Disconnect, storeVars, Store!Call, Store!TakeEffect, Store!Succeed, Store!Fail
<1>5. ASSUME NEW x \in Requests, handler[x] # "idle", Published(x),
             handler'[x] \in {"idle", "written", "returned"}
      PROVE  Published(x)'
  BY <1>1, <1>2, <1>3, <1>5, PublishedStays
<1>6. handler[r] = "idle" => \/ handler'[r] \in {"idle", "returned"} /\ reply'[r] = "none"
                             \/ handler'[r] \notin {"idle", "written", "returned"}
  BY DEF TypeOK, Accounted, Refuse, Accept, TakeEffect, Handle, AppendReturns,
         AppendFails, Enqueue, PublishFails, PublishCancelled, PublishError, Return,
         Disconnect, storeVars, Store!Call, Store!TakeEffect, Store!Succeed, Store!Fail
<1>7. ASSUME NEW x \in Requests
      PROVE  /\ handler'[x] = "idle" => reply'[x] = "none"
             /\ handler'[x] = "written" => publish'[x] = "failed" \/ Published(x)'
             /\ handler'[x] = "returned" => \/ reply'[x] \in {"none", "error"}
                                            \/ publish'[x] = "failed"
                                            \/ Published(x)'
  <2>1. CASE x = r
    <3>1. CASE handler[r] = "idle"
      BY <1>6, <2>1, <3>1
    <3>2. CASE handler[r] # "idle"
      BY <1>4, <1>5, <2>1, <3>2
    <3>. QED
      BY <3>1, <3>2
  <2>2. CASE x # r
    BY <1>2, <1>5, <2>2 DEF Accounted
  <2>. QED
    BY <2>1, <2>2
<1>. QED
  BY <1>7 DEF Accounted

\* An acknowledged batch is in the topic, where its requests' streams are.
LEMMA WriterAccounted ==
    ASSUME IInv, Accounted, NEW z \in Streams, Write(z)
    PROVE  Accounted'
<1>. USE DEF IInv
<1>1. /\ batch[z] \in Seq(Message) /\ topic[z] \in Seq(Message)
      /\ topic \in [Streams -> Seq(Message)]
      /\ \A r \in Requests : request[r] \in Store!Event \cup {NoEvent}
  BY DEF TypeOK
<1>2. reply' = reply /\ request' = request
  BY DEF Write, Dispatch, Deliver, Acknowledge, GiveUp, BatchEnds, storeVars
<1>3. CASE Dispatch(z)
  <2>1. handler' = handler /\ publish' = publish /\ topic' = topic
    BY <1>3 DEF Dispatch
  <2>. QED
    BY <1>2, <2>1 DEF Accounted, Published
<1>4. CASE Deliver(z)
  <2>1. /\ handler' = handler /\ publish' = publish
        /\ topic' = [topic EXCEPT ![z] = @ \o batch[z]]
    BY <1>4 DEF Deliver
  <2>2. \A s : s # z => topic'[s] = topic[s]
    BY <1>1, <2>1
  <2>3. ToSet(topic[z]) \subseteq ToSet(topic'[z])
    BY <1>1, <2>1, ConcatKeeps
  <2>4. ASSUME NEW r \in Requests, Published(r) PROVE Published(r)'
    BY <1>2, <2>2, <2>3, <2>4 DEF Published
  <2>. QED
    BY <1>2, <2>1, <2>4 DEF Accounted
<1>5. ASSUME NEW outcome \in {"acked", "failed"}, BatchEnds(z, outcome),
             outcome = "acked" => ToSet(batch[z]) \subseteq ToSet(topic[z])
      PROVE  Accounted'
  <2>1. topic' = topic
    BY <1>5 DEF BatchEnds
  <2>2. ASSUME NEW r \in Requests, r \in Waiting(batch[z])
        PROVE  handler'[r] = "written" /\ publish'[r] = outcome
    BY <1>5, <2>2 DEF BatchEnds
  <2>3. ASSUME NEW r \in Requests, r \notin Waiting(batch[z])
        PROVE  handler'[r] = handler[r] /\ publish'[r] = publish[r]
    BY <1>5, <2>3 DEF BatchEnds
  <2>4. ASSUME NEW r \in Requests, r \in Waiting(batch[z]), outcome = "acked"
        PROVE  Published(r)
    <3>1. PICK m \in ToSet(batch[z]) : m.id = r
      BY <2>4 DEF Waiting, ToSet
    <3>2. StoredAs(m, z) /\ m \in ToSet(topic[z])
      BY <1>5, <2>4, <3>1 DEF MessagesStored
    <3>3. log[z][m.version].id = r
      BY <3>1, <3>2 DEF StoredAs
    <3>4. request[r].stream = z
      BY <3>2, <3>3 DEF StoredAs, LoggedIsRequested
    <3>. QED
      BY <3>1, <3>2, <3>4 DEF Published
  <2>5. ASSUME NEW r \in Requests, Published(r) PROVE Published(r)'
    BY <1>2, <2>1, <2>5 DEF Published
  <2>6. ASSUME NEW r \in Requests
        PROVE  /\ handler'[r] = "idle" => reply'[r] = "none"
               /\ handler'[r] = "written" => publish'[r] = "failed" \/ Published(r)'
               /\ handler'[r] = "returned" => \/ reply'[r] \in {"none", "error"}
                                              \/ publish'[r] = "failed"
                                              \/ Published(r)'
    <3>1. CASE r \in Waiting(batch[z])
      BY <1>5, <2>2, <2>4, <2>5, <3>1
    <3>2. CASE r \notin Waiting(batch[z])
      BY <1>2, <2>3, <2>5, <3>2 DEF Accounted
    <3>. QED
      BY <3>1, <3>2
  <2>. QED
    BY <2>6 DEF Accounted
<1>6. CASE Acknowledge(z)
  BY <1>1, <1>5, <1>6, SuffixHolds DEF Acknowledge
<1>7. CASE GiveUp(z)
  BY <1>5, <1>7 DEF GiveUp
<1>. QED
  BY <1>3, <1>4, <1>6, <1>7 DEF Write

LEMMA NextAccounted == IInv /\ Accounted /\ [Next]_vars => Accounted'
<1>1. IInv /\ Accounted /\ UNCHANGED vars => Accounted'
  BY DEF vars, storeVars, writerVars, Accounted, Published
<1>2. ASSUME IInv, Accounted, Crash PROVE Accounted'
  <2>1. reply' = reply /\ request' = request /\ publish' = publish /\ topic' = topic
    BY <1>2 DEF Crash, storeVars
  <2>2. ASSUME NEW r \in Requests
        PROVE  handler'[r] = handler[r] \/ handler'[r] = "dead"
    BY <1>2 DEF Crash
  <2>. QED
    BY <1>2, <2>1, <2>2 DEF Accounted, Published
<1>. QED
  BY <1>1, <1>2, RequestAccounted, WriterAccounted DEF Next

(***************************************************************************)
(* An event that is stored and not in Kafka belongs to a handler that is   *)
(* still at it, died, was told that Append failed or logged that Publish   *)
(* did: an acknowledged batch is in the topic, and nothing is taken out.   *)
(***************************************************************************)
THEOREM UnpublishedExplained == Spec => []UnpublishedIsExplained
<1>1. Init => Accounted
  BY DEF Init, Store!Init, Accounted
<1>2. IInv /\ Accounted => UnpublishedIsExplained
  <2>. SUFFICES ASSUME IInv, Accounted,
                       NEW s \in Streams, NEW v \in DOMAIN log[s]
                PROVE  LET r == log[s][v].id
                       IN \/ \E m \in ToSet(topic[s]) : m.id = r
                          \/ handler[r] \in Active \cup {"dead"}
                          \/ reply[r] = "error"
                          \/ publish[r] = "failed"
    BY DEF UnpublishedIsExplained
  <2>. DEFINE r == log[s][v].id
  <2>1. r \in Requests
    <3>1. log[s] \in Seq(Store!Event)
      BY DEF IInv, TypeOK
    <3>2. log[s][v] \in Store!Event
      BY <3>1
    <3>. QED
      BY <3>2 DEF Store!Event
  <2>2. reply[r] # "none" /\ request[r].stream = s
    BY DEF IInv, LoggedIsRequested
  <2>3. handler[r] \in Active \cup {"idle", "returned", "dead"}
    BY <2>1 DEF IInv, TypeOK
  <2>. QED
    BY <2>1, <2>2, <2>3 DEF Accounted, Published
<1>. QED
  BY Invariance, NextAccounted, <1>1, <1>2, PTL DEF Spec

-----------------------------------------------------------------------------
\* The writer holds a message of the request in its stream's queue or batch.
Held(r) == \E m \in ToSet(queue[request[r].stream]) \cup ToSet(batch[request[r].stream]) :
              m.id = r

\* A batch and what stays in the queue are together what the queue held.
LEMMA PartsCover ==
    ASSUME NEW S, NEW q \in Seq(S), NEW n \in 1 .. Len(q)
    PROVE  ToSet(q) \subseteq ToSet(SubSeq(q, 1, n)) \cup ToSet(SubSeq(q, n + 1, Len(q)))
<1>1. ASSUME NEW i \in DOMAIN q
      PROVE  q[i] \in ToSet(SubSeq(q, 1, n)) \cup ToSet(SubSeq(q, n + 1, Len(q)))
  <2>1. CASE i <= n
    <3>1. i \in DOMAIN SubSeq(q, 1, n) /\ SubSeq(q, 1, n)[i] = q[i]
      BY <2>1
    <3>. QED
      BY <3>1 DEF ToSet
  <2>2. CASE i > n
    <3>1. /\ i - n \in DOMAIN SubSeq(q, n + 1, Len(q))
          /\ SubSeq(q, n + 1, Len(q))[i - n] = q[i]
      BY <2>2
    <3>. QED
      BY <3>1 DEF ToSet
  <2>. QED
    BY <2>1, <2>2
<1>. QED
  BY <1>1 DEF ToSet

\* What is held stays so while the writer drops no message of the stream.
LEMMA HeldStays ==
    ASSUME NEW r \in Requests, Held(r), request'[r] = request[r],
           NEW s, s = request[r].stream,
           ToSet(queue[s]) \cup ToSet(batch[s]) \subseteq ToSet(queue'[s]) \cup ToSet(batch'[s])
    PROVE  Held(r)'
BY DEF Held

\* The steps of one request: Enqueue is the one that makes it wait.
LEMMA RequestHeld ==
    ASSUME IInv, WaitingIsHeld, NEW r \in Requests,
           \/ Refuse(r)
           \/ \E t \in Tenants, s \in Streams : Accept(r, t, s)
           \/ TakeEffect(r)
           \/ Handle(r)
           \/ PublishCancelled(r)
           \/ Disconnect(r)
    PROVE  WaitingIsHeld'
<1>. USE DEF IInv
<1>1. CASE Enqueue(r)
  <2>. DEFINE z == request[r].stream
              m == MessageOf(r)
  <2>1. /\ handler[r] = "appended" /\ handler' = [handler EXCEPT ![r] = "writing"]
        /\ request' = request /\ batch' = batch
        /\ queue' = [queue EXCEPT ![z] = Append(@, m)]
    BY <1>1 DEF Enqueue, storeVars
  <2>2. z \in Streams /\ m \in Message /\ m.id = r
    BY <2>1 DEF PastAppend, RequestIds, TypeOK, Store!Event, MessageOf, Message
  <2>3. queue[z] \in Seq(Message) /\ queue'[z] = Append(queue[z], m)
    BY <2>1, <2>2 DEF TypeOK
  <2>. HIDE DEF m, z
  <2>4. ToSet(queue'[z]) = ToSet(queue[z]) \cup {m}
    BY <2>2, <2>3, ElementsOfAppend
  <2>5. \A s : s # z => queue'[s] = queue[s]
    BY <2>1 DEF TypeOK
  <2>6. ASSUME NEW x \in Requests, handler'[x] = "writing" PROVE Held(x)'
    <3>1. CASE x = r
      BY <2>1, <2>2, <2>4, <3>1 DEF Held, z
    <3>2. CASE x # r
      <4>1. Held(x)
        BY <2>1, <2>6, <3>2 DEF TypeOK, WaitingIsHeld, Held
      <4>. QED
        BY <2>1, <2>4, <2>5, <4>1, HeldStays
    <3>. QED
      BY <3>1, <3>2
  <2>. QED
    BY <2>6 DEF WaitingIsHeld, Held
<1>2. CASE ~ Enqueue(r)
  <2>1. queue' = queue /\ batch' = batch
    BY <1>2 DEF Refuse, Accept, TakeEffect, Handle, AppendReturns, AppendFails,
           PublishFails, PublishCancelled, PublishError, Return, Disconnect, writerVars
  <2>2. ASSUME NEW x \in Requests, handler'[x] = "writing"
        PROVE  handler[x] = "writing" /\ request'[x] = request[x]
    BY <1>2, <2>2 DEF TypeOK, Refuse, Accept, TakeEffect, Handle, AppendReturns,
           AppendFails, PublishFails, PublishCancelled, PublishError, Return, Disconnect,
           storeVars, Store!Call, Store!TakeEffect, Store!Succeed, Store!Fail
  <2>. QED
    BY <2>1, <2>2 DEF WaitingIsHeld
<1>. QED
  BY <1>1, <1>2

\* A batch is dropped only when those who wait for it are told.
LEMMA WriterHeld ==
    ASSUME IInv, WaitingIsHeld, NEW z \in Streams, Write(z)
    PROVE  WaitingIsHeld'
<1>. USE DEF IInv
<1>1. /\ queue \in [Streams -> Seq(Message)] /\ queue[z] \in Seq(Message)
      /\ batch \in [Streams -> Seq(Message)]
  BY DEF TypeOK
<1>2. request' = request
  BY DEF Write, Dispatch, Deliver, Acknowledge, GiveUp, BatchEnds, storeVars
<1>3. CASE Dispatch(z)
  <2>1. handler' = handler /\ batch[z] = <<>>
    BY <1>3 DEF Dispatch
  <2>2. PICK n \in 1 .. Len(queue[z]) :
           /\ batch' = [batch EXCEPT ![z] = SubSeq(queue[z], 1, n)]
           /\ queue' = [queue EXCEPT ![z] = SubSeq(queue[z], n + 1, Len(queue[z]))]
    BY <1>3 DEF Dispatch
  <2>3. /\ batch'[z] = SubSeq(queue[z], 1, n)
        /\ queue'[z] = SubSeq(queue[z], n + 1, Len(queue[z]))
        /\ \A s : s # z => batch'[s] = batch[s] /\ queue'[s] = queue[s]
    BY <1>1, <2>2
  <2>4. ToSet(queue[z]) \subseteq ToSet(queue'[z]) \cup ToSet(batch'[z])
    BY <1>1, <2>3, PartsCover
  <2>5. ToSet(batch[z]) = {}
    BY <2>1 DEF ToSet
  <2>6. ASSUME NEW r \in Requests, handler'[r] = "writing" PROVE Held(r)'
    <3>1. Held(r)
      BY <2>1, <2>6 DEF WaitingIsHeld, Held
    <3>. QED
      BY <1>2, <2>3, <2>4, <2>5, <3>1, HeldStays
  <2>. QED
    BY <2>6 DEF WaitingIsHeld, Held
<1>4. CASE Deliver(z)
  BY <1>2, <1>4 DEF Deliver, WaitingIsHeld
<1>5. ASSUME NEW outcome, BatchEnds(z, outcome) PROVE WaitingIsHeld'
  <2>1. queue' = queue /\ batch' = [batch EXCEPT ![z] = <<>>]
    BY <1>5 DEF BatchEnds
  <2>2. \A s : s # z => batch'[s] = batch[s]
    BY <1>1, <2>1
  <2>3. ASSUME NEW r \in Requests, handler'[r] = "writing" PROVE Held(r)'
    <3>1. handler[r] = "writing" /\ r \notin Waiting(batch[z])
      BY <1>5, <2>3 DEF BatchEnds
    <3>2. PICK m \in ToSet(queue[request[r].stream]) \cup ToSet(batch[request[r].stream]) :
             m.id = r
      BY <3>1 DEF WaitingIsHeld
    <3>3. m \notin ToSet(batch[z])
      BY <3>1, <3>2 DEF Waiting, ToSet
    <3>4. m \in ToSet(queue'[request[r].stream]) \cup ToSet(batch'[request[r].stream])
      BY <2>1, <2>2, <3>2, <3>3
    <3>. QED
      BY <1>2, <3>2, <3>4 DEF Held
  <2>. QED
    BY <2>3 DEF WaitingIsHeld, Held
<1>. QED
  BY <1>3, <1>4, <1>5 DEF Write, Acknowledge, GiveUp

(***************************************************************************)
(* No handler waits in WriteMessages for a message the writer has dropped: *)
(* the safety part of EveryRequestEnds, for any number of requests.        *)
(***************************************************************************)
THEOREM WaitersAreHeld == Spec => []WaitingIsHeld
<1>1. Init => WaitingIsHeld
  BY DEF Init, WaitingIsHeld
<1>2. IInv /\ WaitingIsHeld /\ [Next]_vars => WaitingIsHeld'
  <2>1. IInv /\ WaitingIsHeld /\ UNCHANGED vars => WaitingIsHeld'
    BY DEF vars, storeVars, writerVars, WaitingIsHeld
  <2>2. Crash => WaitingIsHeld'
    BY DEF Crash, Active, WaitingIsHeld
  <2>. QED
    BY <2>1, <2>2, RequestHeld, WriterHeld DEF Next
<1>. QED
  BY Invariance, <1>1, <1>2, PTL DEF Spec

(***************************************************************************)
(* The write path calls the store only as its contract allows, whatever    *)
(* handlers die or are cancelled: what holds here of the log holds of any  *)
(* store that implements EventLog, as the SQL of EventStore does.          *)
(***************************************************************************)
THEOREM KeepsTheContract == Spec => Store!Spec
<1>1. Init => Store!Init
  BY DEF Init
<1>2. [Next]_vars => [Store!Next]_(Store!vars)
  <2> SUFFICES ASSUME [Next]_vars PROVE Store!Next \/ UNCHANGED storeVars
    BY DEF Store!vars, storeVars
  <2>1. ASSUME NEW r \in Requests, NEW t \in Tenants, NEW s \in Streams, Accept(r, t, s)
        PROVE  Store!Next
    <3>1. [id |-> r, tenant |-> t, stream |-> s] \in Store!Event
      BY DEF Store!Event
    <3>. QED
      BY <2>1, <3>1 DEF Accept, Store!Next
  <2>2. ASSUME NEW r \in Requests, TakeEffect(r) \/ AppendReturns(r) \/ AppendFails(r)
        PROVE  Store!Next
    BY <2>2 DEF TakeEffect, AppendReturns, AppendFails, Store!Next
  <2>3. ASSUME NEW r \in Requests,
               \/ Refuse(r) \/ Enqueue(r) \/ PublishFails(r) \/ PublishCancelled(r)
               \/ Return(r) \/ Disconnect(r)
        PROVE  UNCHANGED storeVars
    BY <2>3 DEF Refuse, Enqueue, PublishFails, PublishCancelled, PublishError, Return,
                Disconnect
  <2>4. ASSUME NEW s \in Streams, Write(s) PROVE UNCHANGED storeVars
    BY <2>4 DEF Write, Dispatch, Deliver, Acknowledge, GiveUp, BatchEnds
  <2>5. CASE Crash \/ UNCHANGED vars
    BY <2>5 DEF Crash, vars
  <2>. QED
    BY <2>1, <2>2, <2>3, <2>4, <2>5 DEF Next, Handle
<1>. QED
  BY <1>1, <1>2, PTL DEF Spec, Store!Spec
=============================================================================
