----------------------------- MODULE EventStore -----------------------------
(***************************************************************************)
(* The PostgreSQL event store: concurrent calls of EventStore.Append       *)
(* (internal/infrastructure/postgres/store.go).                            *)
(*                                                                         *)
(* Append sends one auto-committed INSERT.  Its sub-select computes        *)
(* MAX(version)+1 of the stream from the snapshot the statement started    *)
(* with (READ COMMITTED), so the calls race: several of them may carry the *)
(* same version to the UNIQUE (stream_id, version) index.  The INSERT's    *)
(* steps are those of INSERT ... ON CONFLICT (id) DO UPDATE, which enters  *)
(* its row speculatively, first in the index of id and then, while it      *)
(* holds that entry, in the index of (stream_id, version):                 *)
(*                                                                         *)
(*   sent -> planned (snapshot read) -> probed (id not found)              *)
(*        -> held (id entered) -> inserted (version entered) -> committed  *)
(*                                                                         *)
(* A statement that meets the id of another row as it enters its own goes  *)
(* on to the second index all the same, then withdraws its row and probes  *)
(* the id again: probed -> clashed -> doomed -> planned.  It ends          *)
(* "rejected" by the unique violation, "aborted" when the server gives it  *)
(* up.  The caller's side is separate: a cancelled context or a lost       *)
(* connection answers an error whatever the server does next.              *)
(***************************************************************************)
EXTENDS Naturals, FiniteSets, FiniteSetsExt

CONSTANTS Calls,      \* calls of Store.Append, each made once
          Ids,        \* event UUIDs
          Tenants,
          Streams,
          Requests,   \* the events that callers append
          NoEvent     \* a call that has not been made

ASSUME RequestsAssumption ==
    Requests \subseteq [id : Ids, tenant : Tenants, stream : Streams]

ASSUME NoEventAssumption ==
    NoEvent \notin [id : Ids, tenant : Tenants, stream : Streams]

VARIABLES events,     \* the committed rows of the events table
          request,    \* request[c]: the event call c was made with
          txn,        \* txn[c]: the state of c's statement on the server
          next,       \* next[c]: the version the statement computed or returned
          reply,      \* reply[c]: what the caller knows
          assigned,   \* assigned[c]: e.Version as scanned by the caller
          stored      \* stored[c]: was the id stored when c was made (history only)

serverVars == <<events, txn, next>>
clientVars == <<request, reply, assigned, stored>>
vars == <<events, request, txn, next, reply, assigned, stored>>

Event == [id : Ids, tenant : Tenants, stream : Streams]
Row == [id : Ids, tenant : Tenants, stream : Streams, version : Nat]

Running == {"sent", "planned", "probed", "held", "clashed", "inserted", "doomed"}
Ended == {"committed", "rejected", "aborted"}

TypeOK ==
    /\ events \subseteq Row
    /\ request \in [Calls -> Event \cup {NoEvent}]
    /\ txn \in [Calls -> Running \cup Ended \cup {"none"}]
    /\ next \in [Calls -> Nat]
    /\ reply \in [Calls -> {"none", "waiting", "ok", "error"}]
    /\ assigned \in [Calls -> Nat]
    /\ stored \in [Calls -> BOOLEAN]
    /\ \A c \in Calls : txn[c] = "none" <=> request[c] = NoEvent
    /\ \A c \in Calls : txn[c] = "none" <=> reply[c] = "none"

-----------------------------------------------------------------------------
\* The table.

Versions(rows, s) == {r.version : r \in {q \in rows : q.stream = s}}

\* COALESCE(MAX(version), 0) of a stream, over the rows of every tenant.
LastVersion(rows, s) == Max({0} \cup Versions(rows, s))

Stored(rows, i) == \E r \in rows : r.id = i

\* The row call c's statement inserts.
NewRow(c) == [id |-> request[c].id, tenant |-> request[c].tenant,
              stream |-> request[c].stream, version |-> next[c]]

\* UNIQUE (stream_id, version).
SameVersion(r, q) == r.stream = q.stream /\ r.version = q.version

\* The version c's statement computed is on a committed row.
VersionTaken(c) == \E r \in events : SameVersion(r, NewRow(c))

\* The statements that have an uncommitted entry in each unique index.
HoldsId(c) == txn[c] \in {"held", "clashed", "inserted", "doomed"}
HoldsVersion(c) == txn[c] \in {"inserted", "doomed"}

\* The index of id has an entry with c's id, of a row or of another statement.
IdTaken(c) ==
    \/ Stored(events, request[c].id)
    \/ \E d \in Calls \ {c} : HoldsId(d) /\ request[d].id = request[c].id

\* Variant: a statement that met its id waits for the other one before it
\* withdraws its own row.
WaitsInPlace(c) ==
    {d \in Calls \ {c} :
        \/ /\ txn[c] \in {"planned", "doomed"}
           /\ ~ Stored(events, request[c].id)
           /\ HoldsId(d) /\ request[d].id = request[c].id
        \/ /\ txn[c] \in {"held", "clashed"}
           /\ ~ VersionTaken(c)
           /\ HoldsVersion(d) /\ SameVersion(NewRow(d), NewRow(c))}

(***************************************************************************)
(* The statements that c's statement waits for: those with an uncommitted  *)
(* entry of its id while it probes, of its version while it enters it.     *)
(***************************************************************************)
WaitsFor(c) ==
    {d \in Calls \ {c} :
        \/ /\ txn[c] = "planned"
           /\ ~ Stored(events, request[c].id)
           /\ HoldsId(d) /\ request[d].id = request[c].id
        \/ /\ txn[c] \in {"held", "clashed"}
           /\ ~ VersionTaken(c)
           /\ HoldsVersion(d) /\ SameVersion(NewRow(d), NewRow(c))}

-----------------------------------------------------------------------------
Init == /\ events = {}
        /\ request = [c \in Calls |-> NoEvent]
        /\ txn = [c \in Calls |-> "none"]
        /\ next = [c \in Calls |-> 0]
        /\ reply = [c \in Calls |-> "none"]
        /\ assigned = [c \in Calls |-> 0]
        /\ stored = [c \in Calls |-> FALSE]

\* A caller enters Append and sends the statement.
Call(c, e) ==
    /\ reply[c] = "none"
    /\ request' = [request EXCEPT ![c] = e]
    /\ txn' = [txn EXCEPT ![c] = "sent"]
    /\ reply' = [reply EXCEPT ![c] = "waiting"]
    /\ stored' = [stored EXCEPT ![c] = Stored(events, e.id)]
    /\ UNCHANGED <<events, next, assigned>>

\* Variant: the sub-select sees uncommitted rows.
ReadMaxDirty(c) ==
    /\ txn[c] = "sent"
    /\ LET uncommitted == {NewRow(d) : d \in {x \in Calls : HoldsVersion(x)}}
       IN next' = [next EXCEPT ![c] =
                     LastVersion(events \cup uncommitted, request[c].stream) + 1]
    /\ txn' = [txn EXCEPT ![c] = "planned"]
    /\ UNCHANGED <<events, clientVars>>

(***************************************************************************)
(* The statement starts: the sub-select reads the rows committed by now.   *)
(***************************************************************************)
ReadMax(c) ==
    /\ txn[c] = "sent"
    /\ next' = [next EXCEPT ![c] = LastVersion(events, request[c].stream) + 1]
    /\ txn' = [txn EXCEPT ![c] = "planned"]
    /\ UNCHANGED <<events, clientVars>>

\* Variant: RETURNING gives the version the statement proposed.
ReturnProposed(c) ==
    /\ txn[c] = "planned"
    /\ Stored(events, request[c].id)
    /\ txn' = [txn EXCEPT ![c] = "committed"]
    /\ UNCHANGED <<events, next, clientVars>>

\* ON CONFLICT (id): the arbiter index holds the id.  DO UPDATE SET id = id
\* changes nothing and RETURNING gives the version of the row that is there.
\* (The row's lock is the last the statement takes: it is left out.)
ReturnExisting(c) ==
    /\ txn[c] = "planned"
    /\ \E r \in events : /\ r.id = request[c].id
                         /\ next' = [next EXCEPT ![c] = r.version]
    /\ txn' = [txn EXCEPT ![c] = "committed"]
    /\ UNCHANGED <<events, clientVars>>

\* Variant: no ON CONFLICT clause.
ProbeNothing(c) ==
    /\ txn[c] = "planned"
    /\ txn' = [txn EXCEPT ![c] = "probed"]
    /\ UNCHANGED <<events, next, clientVars>>

\* The arbiter index does not hold the id; while an uncommitted statement
\* has an entry with it, the probe waits for that statement.
ProbeId(c) ==
    /\ txn[c] = "planned"
    /\ ~ Stored(events, request[c].id)
    /\ WaitsFor(c) = {}
    /\ txn' = [txn EXCEPT ![c] = "probed"]
    /\ UNCHANGED <<events, next, clientVars>>

\* The id's entry is made, without waiting, whether or not the id has come to
\* be taken since the probe: that decides what becomes of the row.
EnterId(c) ==
    /\ txn[c] = "probed"
    /\ txn' = [txn EXCEPT ![c] = IF IdTaken(c) THEN "clashed" ELSE "held"]
    /\ UNCHANGED <<events, next, clientVars>>

\* Variant: no UNIQUE (stream_id, version).
EnterAnyVersion(c) ==
    /\ txn[c] \in {"held", "clashed"}
    /\ txn' = [txn EXCEPT ![c] = IF @ = "held" THEN "inserted" ELSE "doomed"]
    /\ UNCHANGED <<events, next, clientVars>>

\* The version's entry is free and made, by a row to be withdrawn too; an
\* uncommitted entry is waited for, with the id's entry in place.
EnterVersion(c) ==
    /\ txn[c] \in {"held", "clashed"}
    /\ ~ VersionTaken(c)
    /\ WaitsFor(c) = {}
    /\ txn' = [txn EXCEPT ![c] = IF @ = "held" THEN "inserted" ELSE "doomed"]
    /\ UNCHANGED <<events, next, clientVars>>

\* Variants: the unique index is on version alone; the statement does not fail.
RejectAnyStream(c) ==
    /\ txn[c] \in {"held", "clashed"}
    /\ \E r \in events : r.version = next[c]
    /\ txn' = [txn EXCEPT ![c] = "rejected"]
    /\ UNCHANGED <<events, next, clientVars>>

NeverReject(c) ==
    /\ txn[c] \in {"held", "clashed"}
    /\ VersionTaken(c)
    /\ UNCHANGED vars

(***************************************************************************)
(* UNIQUE (stream_id, version) is not the arbiter: a committed duplicate   *)
(* fails the statement, even when the same row also has the same id (it    *)
(* was committed between the probe and the insertion).                     *)
(***************************************************************************)
Reject(c) ==
    /\ txn[c] \in {"held", "clashed"}
    /\ VersionTaken(c)
    /\ txn' = [txn EXCEPT ![c] = "rejected"]
    /\ UNCHANGED <<events, next, clientVars>>

\* Variant: the row is withdrawn whatever was found.
ProbeAlways(c) ==
    /\ txn[c] \in {"inserted", "doomed"}
    /\ txn' = [txn EXCEPT ![c] = "planned"]
    /\ UNCHANGED <<events, next, clientVars>>

\* The row that met its id is withdrawn from both indexes and the arbiter
\* index probed again.
ProbeAgain(c) ==
    /\ txn[c] = "doomed"
    /\ txn' = [txn EXCEPT ![c] = "planned"]
    /\ UNCHANGED <<events, next, clientVars>>

Commit(c) ==
    /\ txn[c] = "inserted"
    /\ events' = events \cup {NewRow(c)}
    /\ txn' = [txn EXCEPT ![c] = "committed"]
    /\ UNCHANGED <<next, clientVars>>

\* The statement never arrives, is cancelled, or dies with its backend.
Abort(c) ==
    /\ txn[c] \in Running
    /\ txn' = [txn EXCEPT ![c] = "aborted"]
    /\ UNCHANGED <<events, next, clientVars>>

\* QueryRow(...).Scan(&e.Version) succeeds.
Succeed(c) ==
    /\ reply[c] = "waiting"
    /\ txn[c] = "committed"
    /\ assigned' = [assigned EXCEPT ![c] = next[c]]
    /\ reply' = [reply EXCEPT ![c] = "ok"]
    /\ UNCHANGED <<serverVars, request, stored>>

\* Variant: an answer to a call that was never made.
FailUnasked(c) ==
    /\ reply[c] \in {"none", "waiting"}
    /\ reply' = [reply EXCEPT ![c] = "error"]
    /\ UNCHANGED <<serverVars, request, assigned, stored>>

\* The statement failed, or the context was cancelled or the connection lost
\* at any point of it, its commit included: "insert event: ...".
Fail(c) ==
    /\ reply[c] = "waiting"
    /\ reply' = [reply EXCEPT ![c] = "error"]
    /\ UNCHANGED <<serverVars, request, assigned, stored>>

Server(c) == \/ ReadMax(c)
             \/ ReturnExisting(c)
             \/ ProbeId(c)
             \/ EnterId(c)
             \/ EnterVersion(c)
             \/ Reject(c)
             \/ ProbeAgain(c)
             \/ Commit(c)

Next == \E c \in Calls :
           \/ \E e \in Requests : Call(c, e)
           \/ Server(c)
           \/ Abort(c)
           \/ Succeed(c)
           \/ Fail(c)

Spec == Init /\ [][Next]_vars

\* The server runs every statement to its end and every answer arrives, or its
\* connection is found lost; nothing forces a statement to abort.
Fairness == \A c \in Calls : WF_vars(Server(c)) /\ WF_vars(Succeed(c) \/ Fail(c))

FairSpec == Spec /\ Fairness

-----------------------------------------------------------------------------
(***************************************************************************)
(* The versions of every stream are 1, 2, ..., n, each on one row, across  *)
(* all tenants and whatever statements abort: what validateContiguous of   *)
(* the replay service and every reader by version rely on.                 *)
(***************************************************************************)
VersionsContiguous ==
    /\ \A s \in Streams : Versions(events, s) = 1 .. LastVersion(events, s)
    /\ \A r, q \in events : SameVersion(r, q) => r = q

(***************************************************************************)
(* A row becomes visible only as the next version of its stream.  A reader *)
(* that resumes above the last version it saw (GetFromVersion) misses no   *)
(* row, however late the statement that computed the version commits.      *)
(***************************************************************************)
NewRowExtendsStream ==
    [][ \A r \in events' \ events :
           r.version = LastVersion(events, r.stream) + 1 ]_events

(***************************************************************************)
(* Append of an id that was stored before the call is never refused with a *)
(* unique violation: the probe of the id comes before the version is taken *)
(* to its index (store.go: "the existing row is returned without error").  *)
(***************************************************************************)
RetryOfStoredSucceeds ==
    \A c \in Calls : stored[c] => txn[c] # "rejected"

(***************************************************************************)
(* Contention on a stream has a winner: when every call on a stream has    *)
(* ended and the server aborted none of them, one of them succeeded.       *)
(* Nobody retries a rejected Append, so without this a burst of calls      *)
(* could all be lost.                                                      *)
(***************************************************************************)
CallsOn(s) == {c \in Calls : request[c] # NoEvent /\ request[c].stream = s}

ContentionHasAWinner ==
    \A s \in Streams :
       (/\ CallsOn(s) # {}
        /\ \A c \in CallsOn(s) : txn[c] \in {"committed", "rejected"})
       => \E c \in CallsOn(s) : txn[c] = "committed"

\* The other calls that may yet enter the id free of a clash: each does so once.
Contenders(c) ==
    {d \in Calls \ {c} : txn[d] \in {"none", "sent", "planned", "probed", "clashed", "doomed"}}

(***************************************************************************)
(* How far c's statement is from its end while no contender enters its id: *)
(* it may clash with an id that is taken, once, and then finds it decided. *)
(***************************************************************************)
Stage(c) ==
    IF txn[c] = "none" THEN 9
    ELSE IF txn[c] = "sent" THEN 8
    ELSE IF txn[c] = "probed" /\ IdTaken(c) THEN 7
    ELSE IF txn[c] = "clashed" THEN 6
    ELSE IF txn[c] = "doomed" THEN 5
    ELSE IF txn[c] = "planned" /\ ~ Stored(events, request[c].id) THEN 4
    ELSE IF txn[c] = "probed" THEN 3
    ELSE IF txn[c] = "held" THEN 2
    ELSE IF txn[c] \in {"planned", "inserted"} THEN 1
    ELSE 0

(***************************************************************************)
(* ON CONFLICT (id) keeps no Append going round between its two indexes    *)
(* (store.go:134): a statement is set back only when one of the contenders *)
(* has entered an id or ended, which each does once, and else its every    *)
(* step, and any step of another, leaves it no further from its end.       *)
(***************************************************************************)
ComesCloser(c) ==
    \/ Contenders(c)' \subseteq Contenders(c) /\ Contenders(c)' # Contenders(c)
    \/ /\ Contenders(c)' = Contenders(c)
       /\ Stage(c)' <= Stage(c)
       /\ txn'[c] # txn[c] => Stage(c)' < Stage(c)

StatementAdvances == [][ \A c \in Calls : ComesCloser(c) ]_vars

(***************************************************************************)
(* No deadlock at the two unique indexes, though a statement waits at the  *)
(* second with its entry in the first in place, and others wait for that:  *)
(* of any running statements one waits for none of them.                   *)
(***************************************************************************)
NoCircularWait ==
    \A W \in SUBSET {c \in Calls : txn[c] \in Running} :
       W # {} => \E c \in W : WaitsFor(c) \cap W = {}

(***************************************************************************)
(* Every statement ends, though statements wait for each other at the two  *)
(* unique indexes and go back to probe the id.                             *)
(***************************************************************************)
EveryStatementEnds ==
    \A c \in Calls : txn[c] = "sent" ~> txn[c] \in Ended

-----------------------------------------------------------------------------
\* The abstract log: each stream's rows in the order of their versions.
RowAt(s, v) == CHOOSE r \in events : r.stream = s /\ r.version = v

EventOf(r) == [id |-> r.id, tenant |-> r.tenant, stream |-> r.stream]

AbstractLog == [s \in Streams |->
                   [v \in 1 .. LastVersion(events, s) |-> EventOf(RowAt(s, v))]]

Abstract == INSTANCE EventLog WITH log <- AbstractLog

(***************************************************************************)
(* The store is an atomic append-only log to its callers: an acknowledged  *)
(* call took effect once, between call and answer, at the version answered.*)
(***************************************************************************)
ImplementsEventLog == Abstract!Spec
=============================================================================
