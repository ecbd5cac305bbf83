------------------------------- MODULE Ingest -------------------------------
(***************************************************************************)
(* The write path: POST /events handlers of ingest-api run ingest.Service  *)
(* concurrently; each appends its event to the store, then publishes it to *)
(* Kafka, best effort, then answers 201.                                   *)
(*                                                                         *)
(* The store is the atomic log that EventStore implements: its actions are *)
(* those of EventLog, one call per request.  A request gets a fresh event  *)
(* UUID (event.New), so the request itself stands for the id, and one that *)
(* repeats another whose answer was lost is a request like any other.      *)
(*                                                                         *)
(* Kafka is seen per stream: all messages of a stream have one key, hence  *)
(* one partition, and what other streams add in between does not matter.   *)
(* The kafka-go writer keeps one queue per partition and sends one batch   *)
(* of it at a time, again when the broker's answer is lost.                *)
(***************************************************************************)
EXTENDS Naturals, Sequences, SequencesExt

CONSTANTS Requests,     \* POST /events requests, some of them repeated ones
          Tenants,
          Streams,
          NoEvent,
          MaxDeliveries,\* bound: messages a stream's partition may receive
          MaxCrashes    \* bound: crashes of ingest-api

ASSUME BoundsAssumption == MaxDeliveries \in Nat /\ MaxCrashes \in Nat

VARIABLES log, request, reply, assigned,   \* EventLog's, one call per request
          handler,    \* handler[r]: where the handler of request r stands
          publish,    \* publish[r]: "none", "acked", or "failed" (WARN logged)
          response,   \* response[r]: what the client of r knows
          queue,      \* queue[s]: messages the kafka-go writer holds
          batch,      \* batch[s]: the batch it is sending
          topic,      \* topic[s]: the messages of s in the partition, in order
          crashes

storeVars == <<log, request, reply, assigned>>
writerVars == <<queue, batch, topic>>
vars == <<storeVars, handler, publish, response, writerVars, crashes>>

Store == INSTANCE EventLog WITH Calls <- Requests, Ids <- Requests

\* json.Marshal of the event that Append has given its version.
Message == [id : Requests, tenant : Tenants, stream : Streams, version : Nat]

MessageOf(r) == [id |-> r, tenant |-> request[r].tenant,
                 stream |-> request[r].stream, version |-> assigned[r]]

Active == {"appending", "appended", "writing", "written"}

TypeOK ==
    /\ log \in [Streams -> Seq(Store!Event)]
    /\ request \in [Requests -> Store!Event \cup {NoEvent}]
    /\ reply \in [Requests -> {"none", "waiting", "ok", "error"}]
    /\ assigned \in [Requests -> Nat]
    /\ handler \in [Requests -> Active \cup {"idle", "returned", "dead"}]
    /\ publish \in [Requests -> {"none", "acked", "failed"}]
    /\ response \in [Requests -> {"none", "created", "error", "lost"}]
    /\ queue \in [Streams -> Seq(Message)]
    /\ batch \in [Streams -> Seq(Message)]
    /\ topic \in [Streams -> Seq(Message)]
    /\ crashes \in 0 .. MaxCrashes

-----------------------------------------------------------------------------
Init == /\ Store!Init
        /\ handler = [r \in Requests |-> "idle"]
        /\ publish = [r \in Requests |-> "none"]
        /\ response = [r \in Requests |-> "none"]
        /\ queue = [s \in Streams |-> <<>>]
        /\ batch = [s \in Streams |-> <<>>]
        /\ topic = [s \in Streams |-> <<>>]
        /\ crashes = 0

\* The answer reaches the client unless it has hung up.
Answer(r, code) ==
    response' = IF response[r] = "lost" THEN response
                                        ELSE [response EXCEPT ![r] = code]

\* The body does not decode, no identity, or a required field is missing: the
\* handler answers 4xx before the store is called.
Refuse(r) ==
    /\ handler[r] = "idle"
    /\ handler' = [handler EXCEPT ![r] = "returned"]
    /\ Answer(r, "error")
    /\ UNCHANGED <<storeVars, publish, writerVars, crashes>>

\* Ingest validates, builds the event with a new UUID and calls Append.
Accept(r, t, s) ==
    /\ handler[r] = "idle"
    /\ Store!Call(r, [id |-> r, tenant |-> t, stream |-> s])
    /\ handler' = [handler EXCEPT ![r] = "appending"]
    /\ UNCHANGED <<publish, response, writerVars, crashes>>

\* PostgreSQL commits the row, whatever has become of the handler.
TakeEffect(r) ==
    /\ Store!TakeEffect(r)
    /\ UNCHANGED <<handler, publish, response, writerVars, crashes>>

AppendReturns(r) ==
    /\ handler[r] = "appending"
    /\ Store!Succeed(r)
    /\ handler' = [handler EXCEPT ![r] = "appended"]
    /\ UNCHANGED <<publish, response, writerVars, crashes>>

\* Variant: the error of Append is ignored.
AppendErrorIgnored(r) ==
    /\ handler[r] = "appending"
    /\ Store!Fail(r)
    /\ handler' = [handler EXCEPT ![r] = "written"]
    /\ UNCHANGED <<publish, response, writerVars, crashes>>

\* Lost race, outage or cancelled context: nothing is published, 422.
AppendFails(r) ==
    /\ handler[r] = "appending"
    /\ Store!Fail(r)
    /\ handler' = [handler EXCEPT ![r] = "returned"]
    /\ Answer(r, "error")
    /\ UNCHANGED <<publish, writerVars, crashes>>

\* Variant: publish first, then store.
EnqueueEarly(r) ==
    /\ handler[r] \in {"appending", "appended"}
    /\ queue' = [queue EXCEPT ![request[r].stream] = Append(@, MessageOf(r))]
    /\ handler' = [handler EXCEPT ![r] = "writing"]
    /\ UNCHANGED <<storeVars, publish, response, batch, topic, crashes>>

\* Publish: WriteMessages puts the message in the partition's queue and waits.
Enqueue(r) ==
    /\ handler[r] = "appended"
    /\ queue' = [queue EXCEPT ![request[r].stream] = Append(@, MessageOf(r))]
    /\ handler' = [handler EXCEPT ![r] = "writing"]
    /\ UNCHANGED <<storeVars, publish, response, batch, topic, crashes>>

PublishError(r) ==
    /\ publish' = [publish EXCEPT ![r] = "failed"]
    /\ handler' = [handler EXCEPT ![r] = "written"]
    /\ UNCHANGED <<storeVars, response, writerVars, crashes>>

\* Publish returns an error before the message is queued: no metadata.
PublishFails(r) == handler[r] = "appended" /\ PublishError(r)

\* The request's context is cancelled while the message is queued or in
\* flight: WriteMessages returns, the writer goes on with the message.
PublishCancelled(r) == handler[r] = "writing" /\ PublishError(r)

\* Variant: the answer carries the outcome of the publish.
ReturnPublish(r) ==
    /\ handler[r] = "written"
    /\ handler' = [handler EXCEPT ![r] = "returned"]
    /\ Answer(r, publish[r])
    /\ UNCHANGED <<storeVars, publish, writerVars, crashes>>

\* 201 with the stored event, whether Publish succeeded or not.
Return(r) ==
    /\ handler[r] = "written"
    /\ handler' = [handler EXCEPT ![r] = "returned"]
    /\ Answer(r, "created")
    /\ UNCHANGED <<storeVars, publish, writerVars, crashes>>

-----------------------------------------------------------------------------
\* The kafka-go writer.  The requests of a batch that still wait for it:
Waiting(ms) == {r \in Requests : handler[r] = "writing"
                                   /\ \E i \in DOMAIN ms : ms[i].id = r}

\* WriteMessages returns the outcome of the batch to those who wait for it.
BatchEnds(s, outcome) ==
    /\ publish' = [r \in Requests |->
                     IF r \in Waiting(batch[s]) THEN outcome ELSE publish[r]]
    /\ handler' = [r \in Requests |->
                     IF r \in Waiting(batch[s]) THEN "written" ELSE handler[r]]
    /\ batch' = [batch EXCEPT ![s] = <<>>]
    /\ UNCHANGED <<storeVars, response, queue, topic, crashes>>

\* A batch closes (timer or size) once the previous one is done with.
Dispatch(s) ==
    /\ batch[s] = <<>>
    /\ \E n \in 1 .. Len(queue[s]) :
          /\ batch' = [batch EXCEPT ![s] = SubSeq(queue[s], 1, n)]
          /\ queue' = [queue EXCEPT ![s] = SubSeq(queue[s], n + 1, Len(queue[s]))]
    /\ UNCHANGED <<storeVars, handler, publish, response, topic, crashes>>

\* The broker appends the batch; its answer may be lost and the batch sent
\* again (MaxAttempts of the writer, here bounded by MaxDeliveries).
Deliver(s) ==
    /\ batch[s] # <<>>
    /\ Len(topic[s]) + Len(batch[s]) <= MaxDeliveries
    /\ topic' = [topic EXCEPT ![s] = @ \o batch[s]]
    /\ UNCHANGED <<storeVars, handler, publish, response, queue, batch, crashes>>

\* The broker's answer arrives: the batch is what the topic now ends with.
Acknowledge(s) ==
    /\ batch[s] # <<>>
    /\ IsSuffix(batch[s], topic[s])
    /\ BatchEnds(s, "acked")

\* Variants: the batch is dropped as if it were written; nobody is woken.
GiveUpSilently(s) ==
    /\ batch[s] # <<>>
    /\ BatchEnds(s, "acked")

GiveUpAlone(s) ==
    /\ batch[s] # <<>>
    /\ batch' = [batch EXCEPT ![s] = <<>>]
    /\ UNCHANGED <<storeVars, handler, publish, response, queue, topic, crashes>>

\* The writer runs out of attempts.
GiveUp(s) ==
    /\ batch[s] # <<>>
    /\ BatchEnds(s, "failed")

-----------------------------------------------------------------------------
\* The client hangs up or times out; its handler may well go on.
Disconnect(r) ==
    /\ handler[r] \in Active \cup {"dead"}
    /\ response[r] = "none"
    /\ response' = [response EXCEPT ![r] = "lost"]
    /\ UNCHANGED <<storeVars, handler, publish, writerVars, crashes>>

\* ingest-api dies with its handlers and what its writer holds; a new process
\* takes over.  Statements already at PostgreSQL run on.
Crash ==
    /\ crashes < MaxCrashes
    /\ crashes' = crashes + 1
    /\ handler' = [r \in Requests |->
                     IF handler[r] \in Active THEN "dead" ELSE handler[r]]
    /\ queue' = [s \in Streams |-> <<>>]
    /\ batch' = [s \in Streams |-> <<>>]
    /\ UNCHANGED <<storeVars, publish, response, topic>>

Handle(r) == \/ AppendReturns(r)
             \/ AppendFails(r)
             \/ Enqueue(r)
             \/ PublishFails(r)
             \/ Return(r)

Write(s) == \/ Dispatch(s)
            \/ Deliver(s)
            \/ Acknowledge(s)
            \/ GiveUp(s)

Next == \/ \E r \in Requests :
              \/ Refuse(r)
              \/ \E t \in Tenants, s \in Streams : Accept(r, t, s)
              \/ TakeEffect(r)
              \/ Handle(r)
              \/ PublishCancelled(r)
              \/ Disconnect(r)
        \/ \E s \in Streams : Write(s)
        \/ Crash

Spec == Init /\ [][Next]_vars

\* Handlers run; the store answers or the call fails; the writer sends what it
\* holds and a batch ends, answered or out of attempts; the client of a dead
\* server notices.  Nothing makes a request be cancelled.
Fairness ==
    /\ \A r \in Requests : WF_vars(Handle(r))
                            /\ WF_vars(handler[r] = "dead" /\ Disconnect(r))
    /\ \A s \in Streams : WF_vars(Dispatch(s)) /\ WF_vars(Acknowledge(s) \/ GiveUp(s))

FairSpec == Spec /\ Fairness

-----------------------------------------------------------------------------
(***************************************************************************)
(* Store first, then publish: what a consumer reads from Kafka is a stored *)
(* row, with the version it is stored at, also when handlers die between   *)
(* the two, batches are sent twice or the call's answer was an error.      *)
(***************************************************************************)
PublishedIsStored ==
    \A s \in Streams : \A m \in ToSet(topic[s]) :
       /\ m.version \in DOMAIN log[s]
       /\ log[s][m.version] = [id |-> m.id, tenant |-> m.tenant, stream |-> s]

(***************************************************************************)
(* A client that got 201 has its event in the log of the stream it named,  *)
(* at the version of the answer.                                           *)
(***************************************************************************)
CreatedIsDurable ==
    \A r \in Requests : response[r] = "created" =>
       LET s == request[r].stream
       IN assigned[r] \in DOMAIN log[s] /\ log[s][assigned[r]] = request[r]

(***************************************************************************)
(* A stored event that Kafka has not got is one whose handler is still at  *)
(* it, died, was told that the append failed, or logged the publish error: *)
(* the read model misses nothing else (README: best-effort publish).       *)
(***************************************************************************)
UnpublishedIsExplained ==
    \A s \in Streams : \A v \in DOMAIN log[s] :
       LET r == log[s][v].id
       IN \/ \E m \in ToSet(topic[s]) : m.id = r
          \/ handler[r] \in Active \cup {"dead"}
          \/ reply[r] = "error"
          \/ publish[r] = "failed"

(***************************************************************************)
(* A handler that waits in WriteMessages has its message in the batch that *)
(* the writer sends or in the queue behind it, so that the end of a batch  *)
(* wakes it: nobody waits for a message that is gone, also when the batch  *)
(* ends for others, is sent twice or ingest-api dies (producer.go:83).     *)
(***************************************************************************)
WaitingIsHeld ==
    \A r \in Requests : handler[r] = "writing" =>
       LET s == request[r].stream
       IN \E m \in ToSet(queue[s]) \cup ToSet(batch[s]) : m.id = r

(***************************************************************************)
(* Every request that reached the store is answered, or its client learns  *)
(* that the server is gone; a handler may wait for the writer's batches.   *)
(***************************************************************************)
EveryRequestEnds ==
    \A r \in Requests : handler[r] = "appending" ~> response[r] # "none"

-----------------------------------------------------------------------------
\* The first delivery of the message with version v.
FirstAt(ms, v) == CHOOSE i \in DOMAIN ms :
                     /\ ms[i].version = v
                     /\ \A j \in DOMAIN ms : ms[j].version = v => i <= j

(***************************************************************************)
(* What kafka/producer.go:16-19 says: the events of a stream "land on the  *)
(* same partition and are delivered in order".  Their first deliveries     *)
(* come in the order of their versions.                                    *)
(***************************************************************************)
DeliveredInOrder ==
    \A s \in Streams :
       LET delivered == {m.version : m \in ToSet(topic[s])}
       IN \A v, w \in delivered :
             v < w => FirstAt(topic[s], v) < FirstAt(topic[s], w)
=============================================================================
