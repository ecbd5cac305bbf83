------------------------------- MODULE Replay -------------------------------
(***************************************************************************)
(* POST /replay: ReplayEngine.Execute (internal/application/replay) runs   *)
(* while other requests append to the store.  It reads the events that     *)
(* match a filter in one query, appends a copy of each of them, one after  *)
(* the other, and only then publishes the copies, best effort.             *)
(*                                                                         *)
(* The store is the log that EventStore implements.  An event's UUID is    *)
(* represented by the call that appends it: a client's request, or <<b,k>> *)
(* for the k-th copy of batch b.                                           *)
(***************************************************************************)
EXTENDS Naturals, Sequences, SequencesExt

CONSTANTS Originals,    \* requests to POST /events
          Batches,      \* requests to POST /replay
          MaxLimit,     \* bound: safety limits of a batch
          Tenants,
          Streams,
          AnyStream,    \* no stream_id in the filter
          NoEvent,
          MaxCrashes    \* bound: crashes of ingest-api

ASSUME AnyAssumption == AnyStream \notin Streams
ASSUME BoundsAssumption == MaxLimit \in Nat \ {0} /\ MaxCrashes \in Nat

Copies == Batches \X (1 .. MaxLimit)

ASSUME OriginalsAssumption == Originals \cap Copies = {}

Ids == Originals \cup Copies

VARIABLES log, request, reply, assigned,   \* EventLog's, one call per id
          born,      \* the ids in the order of occurred_at, set by event.New
          phase,     \* phase[b]: where Execute stands
          caller,    \* caller[b]: the tenant of the identity
          matched,   \* matched[b]: the events the query returned
          copied,    \* copied[b]: how many of them have been appended
          tried,     \* tried[b]: how many copies Publish was called for
          topic,     \* the copies that reached Kafka
          crashes

storeVars == <<log, request, reply, assigned>>
batchVars == <<phase, caller, matched, copied, tried>>
vars == <<storeVars, born, batchVars, topic, crashes>>

Store == INSTANCE EventLog WITH Calls <- Ids

\* Ids that are not in the store match nothing and are left out.
Filters == [tenant : Tenants, stream : Streams \cup {AnyStream},
            ids : SUBSET {i \in Ids : Store!Recorded(i)}]

Active == {"appending", "publishing"}

TypeOK ==
    /\ log \in [Streams -> Seq(Store!Event)]
    /\ request \in [Ids -> Store!Event \cup {NoEvent}]
    /\ reply \in [Ids -> {"none", "waiting", "ok", "error"}]
    /\ assigned \in [Ids -> Nat]
    /\ born \in Seq(Ids) /\ IsInjective(born)
    /\ phase \in [Batches -> Active \cup {"idle", "refused", "previewed",
                                          "done", "failed", "dead"}]
    /\ caller \in [Batches -> Tenants \cup {NoEvent}]
    /\ matched \in [Batches -> Seq(Ids)]
    /\ copied \in [Batches -> 0 .. MaxLimit]
    /\ tried \in [Batches -> 0 .. MaxLimit]
    /\ topic \subseteq Copies
    /\ crashes \in 0 .. MaxCrashes

Init == /\ Store!Init
        /\ born = <<>>
        /\ phase = [b \in Batches |-> "idle"]
        /\ caller = [b \in Batches |-> NoEvent]
        /\ matched = [b \in Batches |-> <<>>]
        /\ copied = [b \in Batches |-> 0]
        /\ tried = [b \in Batches |-> 0]
        /\ topic = {}
        /\ crashes = 0

-----------------------------------------------------------------------------
\* The store.  How POST /events is answered does not concern a replay: see Ingest.

\* event.New and Append, for event i.
Create(i, t, s) ==
    /\ Store!Call(i, [id |-> i, tenant |-> t, stream |-> s])
    /\ born' = Append(born, i)

Ingest(o, t, s) ==
    /\ Create(o, t, s)
    /\ UNCHANGED <<batchVars, topic, crashes>>

\* PostgreSQL commits a row, also one whose caller has given up.
TakeEffect(i) ==
    /\ Store!TakeEffect(i)
    /\ UNCHANGED <<born, batchVars, topic, crashes>>

-----------------------------------------------------------------------------
\* The query.

\* Variant: EventIDs override the tenant too.
MatchesAnyTenant(i, f) ==
    IF f.ids # {} THEN i \in f.ids
                  ELSE request[i].tenant = f.tenant /\ f.stream \in {AnyStream, request[i].stream}

\* EventIDs override the other fields, except for the tenant.
Matches(i, f) ==
    /\ request[i].tenant = f.tenant
    /\ IF f.ids # {} THEN i \in f.ids ELSE f.stream \in {AnyStream, request[i].stream}

Matching(f) == {i \in Ids : Store!Recorded(i) /\ Matches(i, f)}

BornBefore(i, j) == \E m, n \in DOMAIN born : m < n /\ born[m] = i /\ born[n] = j

\* What SELECT ... ORDER BY occurred_at ASC LIMIT limit may return.
Selections(f, limit) ==
    LET sorted == {q \in SetToSeqs(Matching(f)) :
                     \A m, n \in DOMAIN q : m < n => BornBefore(q[m], q[n])}
    IN {SubSeq(q, 1, IF Len(q) < limit THEN Len(q) ELSE limit) : q \in sorted}

\* No reason, another tenant's filter, a failed query: nothing is written.
Refuse(b) ==
    /\ phase[b] = "idle"
    /\ phase' = [phase EXCEPT ![b] = "refused"]
    /\ UNCHANGED <<storeVars, born, caller, matched, copied, tried, topic, crashes>>

\* QueryForReplay asks for one row more than the limit allows.
Exceeds(b, f, limit) ==
    /\ phase[b] = "idle"
    /\ \E rows \in Selections(f, limit + 1) : Len(rows) > limit
    /\ phase' = [phase EXCEPT ![b] = "refused"]
    /\ UNCHANGED <<storeVars, born, caller, matched, copied, tried, topic, crashes>>

\* A dry run answers with the matches and writes nothing.
Preview(b, f, limit) ==
    /\ phase[b] = "idle"
    /\ \E rows \in Selections(f, limit + 1) : Len(rows) <= limit
    /\ phase' = [phase EXCEPT ![b] = "previewed"]
    /\ UNCHANGED <<storeVars, born, caller, matched, copied, tried, topic, crashes>>

\* Variant: the query asks for no more rows than the limit allows.
QueryUpToLimit(b, f, limit) ==
    /\ phase[b] = "idle"
    /\ \E rows \in Selections(f, limit) : matched' = [matched EXCEPT ![b] = rows]
    /\ caller' = [caller EXCEPT ![b] = f.tenant]
    /\ phase' = [phase EXCEPT ![b] = "appending"]
    /\ UNCHANGED <<storeVars, born, copied, tried, topic, crashes>>

\* The query of an active replay returns every match.
Query(b, f, limit) ==
    /\ phase[b] = "idle"
    /\ \E rows \in Selections(f, limit + 1) :
          Len(rows) <= limit /\ matched' = [matched EXCEPT ![b] = rows]
    /\ caller' = [caller EXCEPT ![b] = f.tenant]
    /\ phase' = [phase EXCEPT ![b] = "appending"]
    /\ UNCHANGED <<storeVars, born, copied, tried, topic, crashes>>

-----------------------------------------------------------------------------
\* The append loop: one copy at a time.

Source(c) == matched[c[1]][c[2]]

\* A new event with the source's tenant and stream.
Copy(b) ==
    LET c == <<b, copied[b] + 1>>
    IN /\ phase[b] = "appending"
       /\ copied[b] < Len(matched[b])
       /\ Create(c, request[Source(c)].tenant, request[Source(c)].stream)
       /\ UNCHANGED <<batchVars, topic, crashes>>

Copied(b) ==
    /\ phase[b] = "appending"
    /\ copied[b] < Len(matched[b])
    /\ Store!Succeed(<<b, copied[b] + 1>>)
    /\ copied' = [copied EXCEPT ![b] = @ + 1]
    /\ UNCHANGED <<born, phase, caller, matched, tried, topic, crashes>>

\* Variant: the loop goes on with the next event.
CopySkipped(b) ==
    /\ phase[b] = "appending"
    /\ copied[b] < Len(matched[b])
    /\ Store!Fail(<<b, copied[b] + 1>>)
    /\ copied' = [copied EXCEPT ![b] = @ + 1]
    /\ UNCHANGED <<born, phase, caller, matched, tried, topic, crashes>>

\* The append fails or the 30 s are over: 500 or 504, nothing is published.
CopyFails(b) ==
    /\ phase[b] = "appending"
    /\ copied[b] < Len(matched[b])
    /\ Store!Fail(<<b, copied[b] + 1>>)
    /\ phase' = [phase EXCEPT ![b] = "failed"]
    /\ UNCHANGED <<born, caller, matched, copied, tried, topic, crashes>>

AllCopied(b) ==
    /\ phase[b] = "appending"
    /\ copied[b] = Len(matched[b])
    /\ phase' = [phase EXCEPT ![b] = "publishing"]
    /\ UNCHANGED <<storeVars, born, caller, matched, copied, tried, topic, crashes>>

\* Variants: each copy is published once it is appended; sources are published.
PublishEarly(b) ==
    /\ phase[b] \in Active
    /\ tried[b] < copied[b]
    /\ topic' \in {topic, topic \cup {<<b, tried[b] + 1>>}}
    /\ tried' = [tried EXCEPT ![b] = @ + 1]
    /\ UNCHANGED <<storeVars, born, phase, caller, matched, copied, crashes>>

PublishSource(b) ==
    /\ phase[b] = "publishing"
    /\ tried[b] < copied[b]
    /\ topic' \in {topic, topic \cup {matched[b][tried[b] + 1]}}
    /\ tried' = [tried EXCEPT ![b] = @ + 1]
    /\ UNCHANGED <<storeVars, born, phase, caller, matched, copied, crashes>>

\* Publish succeeds, or fails with the message delivered or not: the loop goes on.
Publish(b) ==
    /\ phase[b] = "publishing"
    /\ tried[b] < copied[b]
    /\ topic' \in {topic, topic \cup {<<b, tried[b] + 1>>}}
    /\ tried' = [tried EXCEPT ![b] = @ + 1]
    /\ UNCHANGED <<storeVars, born, phase, caller, matched, copied, crashes>>

\* 200 with the replay id and the copies.
Finish(b) ==
    /\ phase[b] = "publishing"
    /\ tried[b] = copied[b]
    /\ phase' = [phase EXCEPT ![b] = "done"]
    /\ UNCHANGED <<storeVars, born, caller, matched, copied, tried, topic, crashes>>

\* ingest-api dies; statements already at PostgreSQL run on.
Crash ==
    /\ crashes < MaxCrashes
    /\ crashes' = crashes + 1
    /\ phase' = [b \in Batches |-> IF phase[b] \in Active THEN "dead" ELSE phase[b]]
    /\ UNCHANGED <<storeVars, born, caller, matched, copied, tried, topic>>

Execute(b) == \/ Copy(b)
              \/ Copied(b)
              \/ CopyFails(b)
              \/ AllCopied(b)
              \/ Publish(b)
              \/ Finish(b)

Next == \/ \E o \in Originals, t \in Tenants, s \in Streams : Ingest(o, t, s)
        \/ \E i \in Ids : TakeEffect(i)
        \/ \E b \in Batches :
              \/ Refuse(b)
              \/ \E f \in Filters, limit \in 1 .. MaxLimit :
                    \/ Exceeds(b, f, limit)
                    \/ Preview(b, f, limit)
                    \/ Query(b, f, limit)
              \/ Execute(b)
        \/ Crash

Spec == Init /\ [][Next]_vars

-----------------------------------------------------------------------------
\* Where the copies of batch b stand.
Stored(b) == {k \in 1 .. MaxLimit : Store!Recorded(<<b, k>>)}

Position(c) == CHOOSE v \in Store!Positions(request[c].stream, c) : TRUE

(***************************************************************************)
(* A batch that stops half-way leaves the copies of the first events it    *)
(* matched, none missing in between, in the order of those events, even    *)
(* when the append it gave up on takes effect afterwards: what is left to  *)
(* replay is known from the last copy.                                     *)
(***************************************************************************)
CopiesArePrefix ==
    \A b \in Batches :
       /\ \E n \in copied[b] .. copied[b] + 1 : Stored(b) = 1 .. n
       /\ \A j, k \in Stored(b) :
             (/\ j < k
              /\ request[<<b, j>>].stream = request[<<b, k>>].stream)
             => Position(<<b, j>>) < Position(<<b, k>>)

(***************************************************************************)
(* Every copy has its source in the same stream, before it, of the         *)
(* caller's tenant, whatever is appended or replayed meanwhile: following  *)
(* replay_source_event_id always ends at an event that was ingested.       *)
(***************************************************************************)
CopyFollowsSource ==
    \A s \in Streams : \A v \in DOMAIN log[s] :
       LET i == log[s][v].id
       IN i \in Copies =>
             \E w \in 1 .. v - 1 : /\ log[s][w].id = Source(i)
                                   /\ log[s][w].tenant = log[s][v].tenant
                                   /\ log[s][v].tenant = caller[i[1]]

(***************************************************************************)
(* A consumer that reads one copy of a batch can rely on the store to have *)
(* them all: no message is published before the last append succeeded, and *)
(* none of a batch that failed.                                            *)
(***************************************************************************)
PublishedBatchIsStored ==
    \A c \in topic : Stored(c[1]) = 1 .. Len(matched[c[1]])

(***************************************************************************)
(* The limit refuses, it never cuts off: an active replay that starts has  *)
(* every event that matches, however many were added since a dry run.      *)
(***************************************************************************)
NothingCutOff ==
    [][ \A b \in Batches : phase[b] = "idle" /\ phase'[b] = "appending" =>
           \A f \in Filters, limit \in 1 .. MaxLimit :
              Query(b, f, limit) => ToSet(matched'[b]) = Matching(f) ]_vars
=============================================================================
