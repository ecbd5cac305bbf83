------------------------------ MODULE Consumer ------------------------------
(***************************************************************************)
(* consumer-service: any number of instances in one consumer group, and    *)
(* one partition of the events topic.  Each instance runs the loop of      *)
(* kafka.Consumer.Run with consume.Service.handle: fetch, decode, index in *)
(* Elasticsearch or route to the dead-letter topic, commit the offset.     *)
(*                                                                         *)
(* An instance whose partition is taken away goes on with the message in   *)
(* hand and commits it, so a commit may move the group's offset back.      *)
(* SIGTERM cancels the context under whatever call is running.             *)
(***************************************************************************)
EXTENDS Naturals, Sequences

CONSTANTS Instances,    \* instances of consumer-service
          Events,       \* events that producers publish, some more than once
          Poison,       \* a message that does not decode
          None,         \* no instance
          MaxMessages,  \* bound: messages in the partition
          Outages,      \* may Elasticsearch and Kafka fail a live call?
          MaxFaults     \* bound: faults, stops and rebalances

ASSUME PoisonAssumption == Poison \notin Events
ASSUME NoneAssumption == None \notin Instances
ASSUME BoundsAssumption == /\ MaxMessages \in Nat /\ MaxFaults \in Nat
                           /\ Outages \in BOOLEAN

VARIABLES log,        \* the partition: the messages, first at index 1
          committed,  \* the group's committed offset: messages 1..committed
          owner,      \* the instance the partition is assigned to, or None
          pc,         \* pc[c]: where instance c stands in its loop
          pos,        \* pos[c]: the last message c's reader has handed out
          cur,        \* cur[c]: the message c has in hand
          cancelled,  \* cancelled[c]: c received SIGTERM
          index,      \* the documents in Elasticsearch
          dlq,        \* the events in the dead-letter topic
          skipped,    \* messages logged as lost by index and dead-letter queue
          faults

sinks == <<index, dlq, skipped>>
vars == <<log, committed, owner, pc, pos, cur, cancelled, sinks, faults>>

\* "stopped": Run returned nil; "failed": Run returned an error, exit code 1.
Alive == {"fetching", "handling", "routing", "skipping", "committing"}
Gone == {"stopped", "failed"}

TypeOK ==
    /\ log \in Seq(Events \cup {Poison})
    /\ committed \in 0 .. Len(log)
    /\ owner \in Instances \cup {None}
    /\ pc \in [Instances -> Alive \cup Gone]
    /\ pos \in [Instances -> 0 .. Len(log)]
    /\ cur \in [Instances -> 0 .. Len(log)]
    /\ cancelled \in [Instances -> BOOLEAN]
    /\ index \subseteq Events
    /\ dlq \subseteq Events
    /\ skipped \subseteq 1 .. Len(log)
    /\ faults \in 0 .. MaxFaults

Init == /\ log = <<>>
        /\ committed = 0
        /\ owner = None
        /\ pc = [c \in Instances |-> "fetching"]
        /\ pos = [c \in Instances |-> 0]
        /\ cur = [c \in Instances |-> 0]
        /\ cancelled = [c \in Instances |-> FALSE]
        /\ index = {}
        /\ dlq = {}
        /\ skipped = {}
        /\ faults = 0

\* A call may fail when its context is cancelled, or in an outage.
MayFail(c) == cancelled[c] \/ Outages

-----------------------------------------------------------------------------
\* A producer publishes a message (the ingest writer may publish one twice).
Produce(m) ==
    /\ Len(log) < MaxMessages
    /\ log' = Append(log, m)
    /\ UNCHANGED <<committed, owner, pc, pos, cur, cancelled, sinks, faults>>

\* Variants: the reader starts one late, or at the end of the partition.
AssignNext(c) ==
    /\ pc[c] \in Alive
    /\ owner' = c
    /\ pos' = [pos EXCEPT ![c] = committed + 1]
    /\ UNCHANGED <<log, committed, pc, cur, cancelled, sinks>>

AssignLast(c) ==
    /\ pc[c] \in Alive
    /\ owner' = c
    /\ pos' = [pos EXCEPT ![c] = Len(log)]
    /\ UNCHANGED <<log, committed, pc, cur, cancelled, sinks>>

\* The group assigns the partition; the reader resumes at the committed offset.
Assign(c) ==
    /\ pc[c] \in Alive
    /\ owner' = c
    /\ pos' = [pos EXCEPT ![c] = committed]
    /\ UNCHANGED <<log, committed, pc, cur, cancelled, sinks>>

\* The owner is gone, or there is none yet.
FirstAssign(c) ==
    /\ owner = None \/ (owner \in Instances /\ pc[owner] \in Gone)
    /\ Assign(c)
    /\ UNCHANGED faults

\* Heartbeats missed, an instance added: a live owner may lose the partition.
Rebalance(c) ==
    /\ owner \in Instances /\ pc[owner] \in Alive
    /\ faults < MaxFaults
    /\ faults' = faults + 1
    /\ Assign(c)

\* Variant: the offset of a message that does not decode is not committed.
FetchPastPoison(c) ==
    /\ pc[c] = "fetching"
    /\ owner = c
    /\ pos[c] < Len(log)
    /\ pos' = [pos EXCEPT ![c] = @ + 1]
    /\ cur' = [cur EXCEPT ![c] = pos[c] + 1]
    /\ pc' = [pc EXCEPT ![c] = IF log[pos[c] + 1] = Poison THEN "fetching" ELSE "handling"]
    /\ UNCHANGED <<log, committed, owner, cancelled, sinks, faults>>

\* FetchMessage returns the next message, also when the context is cancelled
\* (select picks either); a message that does not decode is skipped.
Fetch(c) ==
    /\ pc[c] = "fetching"
    /\ owner = c
    /\ pos[c] < Len(log)
    /\ pos' = [pos EXCEPT ![c] = @ + 1]
    /\ cur' = [cur EXCEPT ![c] = pos[c] + 1]
    /\ pc' = [pc EXCEPT ![c] = IF log[pos[c] + 1] = Poison THEN "skipping" ELSE "handling"]
    /\ UNCHANGED <<log, committed, owner, cancelled, sinks, faults>>

\* FetchMessage fails: nil if the context is cancelled, else an error.
FetchFails(c) ==
    /\ pc[c] = "fetching"
    /\ MayFail(c)
    /\ ~ cancelled[c] => faults < MaxFaults
    /\ faults' = IF cancelled[c] THEN faults ELSE faults + 1
    /\ pc' = [pc EXCEPT ![c] = IF cancelled[c] THEN "stopped" ELSE "failed"]
    /\ UNCHANGED <<log, committed, owner, pos, cur, cancelled, sinks>>

\* The upsert by event id succeeds.
Index(c) ==
    /\ pc[c] = "handling"
    /\ index' = index \cup {log[cur[c]]}
    /\ pc' = [pc EXCEPT ![c] = "committing"]
    /\ UNCHANGED <<log, committed, owner, pos, cur, cancelled, dlq, skipped, faults>>

\* Index returns an error; the document may be there all the same.
IndexFails(c) ==
    /\ pc[c] = "handling"
    /\ MayFail(c)
    /\ index' \in {index, index \cup {log[cur[c]]}}
    /\ pc' = [pc EXCEPT ![c] = "routing"]
    /\ UNCHANGED <<log, committed, owner, pos, cur, cancelled, dlq, skipped, faults>>

\* routeToDLQ succeeds; handle returns nil.
Route(c) ==
    /\ pc[c] = "routing"
    /\ dlq' = dlq \cup {log[cur[c]]}
    /\ pc' = [pc EXCEPT ![c] = "committing"]
    /\ UNCHANGED <<log, committed, owner, pos, cur, cancelled, index, skipped, faults>>

\* Variant: handle returns the error, and Run with it.
RouteFailsRun(c) ==
    /\ pc[c] = "routing"
    /\ MayFail(c)
    /\ dlq' \in {dlq, dlq \cup {log[cur[c]]}}
    /\ pc' = [pc EXCEPT ![c] = "failed"]
    /\ UNCHANGED <<log, committed, owner, pos, cur, cancelled, index, skipped, faults>>

\* Variant: Run goes on with the next message when handle returns an error.
RouteFailsContinue(c) ==
    /\ pc[c] = "routing"
    /\ MayFail(c)
    /\ dlq' \in {dlq, dlq \cup {log[cur[c]]}}
    /\ pc' = [pc EXCEPT ![c] = "fetching"]
    /\ UNCHANGED <<log, committed, owner, pos, cur, cancelled, index, skipped, faults>>

\* The dead-letter topic fails too: both errors are logged, handle returns nil.
RouteFails(c) ==
    /\ pc[c] = "routing"
    /\ MayFail(c)
    /\ dlq' \in {dlq, dlq \cup {log[cur[c]]}}
    /\ skipped' = skipped \cup {cur[c]}
    /\ pc' = [pc EXCEPT ![c] = "committing"]
    /\ UNCHANGED <<log, committed, owner, pos, cur, cancelled, index, faults>>

(***************************************************************************)
(* CommitMessages sets the group's offset, also one that is behind it or   *)
(* not the owner's, and even if the context is cancelled: the request goes *)
(* into a buffered channel and select picks either.                        *)
(***************************************************************************)
Commit(c) ==
    /\ pc[c] \in {"skipping", "committing"}
    /\ committed' = cur[c]
    /\ pc' = [pc EXCEPT ![c] = "fetching"]
    /\ UNCHANGED <<log, owner, pos, cur, cancelled, sinks, faults>>

\* CommitMessages fails, before or after the commit took effect: Run returns
\* "commit message: ..." and the process exits with code 1.
CommitFails(c) ==
    /\ pc[c] \in {"skipping", "committing"}
    /\ MayFail(c) \/ owner # c
    /\ cancelled[c] \/ faults < MaxFaults
    /\ faults' = IF cancelled[c] THEN faults ELSE faults + 1
    /\ committed' \in {committed, cur[c]}
    /\ pc' = [pc EXCEPT ![c] = "failed"]
    /\ UNCHANGED <<log, owner, pos, cur, cancelled, sinks>>

-----------------------------------------------------------------------------
Terminate(c) ==
    /\ pc[c] \in Alive /\ ~ cancelled[c]
    /\ faults < MaxFaults
    /\ faults' = faults + 1
    /\ cancelled' = [cancelled EXCEPT ![c] = TRUE]
    /\ UNCHANGED <<log, committed, owner, pc, pos, cur, sinks>>

Crash(c) ==
    /\ pc[c] \in Alive
    /\ faults < MaxFaults
    /\ faults' = faults + 1
    /\ pc' = [pc EXCEPT ![c] = "failed"]
    /\ UNCHANGED <<log, committed, owner, pos, cur, cancelled, sinks>>

\* The container is started again and joins the group without a partition.
Restart(c) ==
    /\ pc[c] \in Gone
    /\ pc' = [pc EXCEPT ![c] = "fetching"]
    /\ cancelled' = [cancelled EXCEPT ![c] = FALSE]
    /\ owner' = IF owner = c THEN None ELSE owner
    /\ UNCHANGED <<log, committed, pos, cur, sinks, faults>>

\* The calls of the loop to Kafka, and the one to Elasticsearch.
KafkaCall(c) == \/ Fetch(c)
                \/ FetchFails(c)
                \/ Route(c)
                \/ RouteFails(c)
                \/ Commit(c)
                \/ CommitFails(c)

IndexCall(c) == Index(c) \/ IndexFails(c)

Loop(c) == KafkaCall(c) \/ IndexCall(c)

Next == \/ \E m \in Events \cup {Poison} : Produce(m)
        \/ \E c \in Instances :
              \/ Loop(c)
              \/ FirstAssign(c)
              \/ Rebalance(c)
              \/ Terminate(c)
              \/ Crash(c)
              \/ Restart(c)

Spec == Init /\ [][Next]_vars

(***************************************************************************)
(* The Kafka client bounds each of its calls.  Indexer.Index has no        *)
(* deadline: it runs with Run's context, and only the end of that context  *)
(* is sure to end it.  Containers are restarted (restart: unless-stopped)  *)
(* and the group assigns its partition.                                    *)
(***************************************************************************)
Fairness == /\ \A c \in Instances : /\ WF_vars(KafkaCall(c))
                                   /\ WF_vars(cancelled[c] /\ IndexCall(c))
                                   /\ WF_vars(Restart(c))
            /\ WF_vars(\E c \in Instances : FirstAssign(c))

FairSpec == Spec /\ Fairness

-----------------------------------------------------------------------------
\* What became of message m of the partition.
Handled(m) == \/ log[m] = Poison
              \/ log[m] \in index
              \/ log[m] \in dlq

(***************************************************************************)
(* The group's offset passes no message that was not indexed, dead-        *)
(* lettered, undecodable or logged as skipped: not when an instance dies   *)
(* between index and commit, nor when one that lost the partition commits. *)
(***************************************************************************)
NothingUnseen ==
    \A m \in 1 .. committed : Handled(m) \/ m \in skipped

(***************************************************************************)
(* The owner of the partition, when it asks for the next message, leaves   *)
(* none behind its reader that nobody saw, also none that it has not yet   *)
(* committed: an owner that waits at the end has nothing left to do,       *)
(* though a late commit of a former one may have set the offset back.      *)
(***************************************************************************)
OwnerLeavesNothing ==
    \A c \in Instances : owner = c /\ pc[c] = "fetching" =>
       \A m \in 1 .. pos[c] : Handled(m) \/ m \in skipped

\* The owner of the partition is in a call of Indexer.Index.
AwaitsElasticsearch(c) == owner = c /\ pc[c] = "handling"

(***************************************************************************)
(* Only Elasticsearch can stall the consumer, by never answering a call.   *)
(* Else the group's offset passes every message of the partition, also     *)
(* those that do not decode or that neither sink takes, whatever instances *)
(* die or lose the partition on the way.  (It need not stay there: a       *)
(* former owner's late commit moves it back until the next message or      *)
(* rebalance.)                                                             *)
(***************************************************************************)
EveryOffsetPassed ==
    \A m \in 1 .. MaxMessages :
       <>(m <= Len(log)) =>
          <>(m <= committed) \/ \E c \in Instances : <>[]AwaitsElasticsearch(c)

(***************************************************************************)
(* docs/architecture.md:310: "Kafka consumer commits offsets only after    *)
(* successful handling".                                                   *)
(***************************************************************************)
CommitsOnlyHandled == \A m \in 1 .. committed : Handled(m)
=============================================================================
