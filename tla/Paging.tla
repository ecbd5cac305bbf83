------------------------------- MODULE Paging -------------------------------
(***************************************************************************)
(* Reading a list page by page (limit, offset) while events are stored and *)
(* indexed: query.Service and its HTTP endpoints over PostgreSQL           *)
(* (timeline, correlation_id, causes) and Elasticsearch (list).            *)
(*                                                                         *)
(* The events are those the filter of the request selects.  Every page is  *)
(* a query of its own, so rows shift between one page and the next.        *)
(* (GET /streams/{id}/events answers no page: its route sets no identity.) *)
(***************************************************************************)
EXTENDS Naturals, Sequences, FiniteSets, SequencesExt

CONSTANTS Events,       \* the ids of the events, as numbers: they are compared
          Times,        \* the values of occurred_at
          DefaultLimit, \* defaultLimit
          MaxLimit,     \* maxLimit
          Window        \* index.max_result_window of Elasticsearch

ASSUME EventsAssumption == Events \subseteq Nat /\ Times \subseteq Nat
ASSUME LimitsAssumption ==
    DefaultLimit \in 1 .. MaxLimit /\ MaxLimit \in Nat /\ Window \in Nat

VARIABLES occurred,   \* occurred[x]: the time in event x (0: not stored yet)
          indexed,    \* the documents a search sees
          endpoint,   \* the endpoint the reader uses ("none" before it starts)
          asked,      \* the limit it asks for
          offset,     \* the offset it has come to
          page,       \* the last page
          total,      \* the total of the last page
          seen,       \* the events it has been given
          before,     \* those it could have been given when it started
          phase       \* "idle", "reading", "done" or "refused"

rowVars == <<occurred, indexed>>
readerVars == <<endpoint, asked, offset, page, total, seen, before, phase>>
vars == <<rowVars, readerVars>>

\* The endpoints, by the database that answers.
FromStore == {"timeline", "correlation", "causes"}
FromIndex == {"list"}

\* The rows a query sees.
Stored == {x \in Events : occurred[x] # 0}

TypeOK ==
    /\ occurred \in [Events -> Times \cup {0}]
    /\ indexed \subseteq Stored
    /\ endpoint \in FromStore \cup FromIndex \cup {"none"}
    /\ asked \in Nat
    /\ offset \in Nat
    /\ page \in Seq(Events)
    /\ total \in 0 .. Cardinality(Stored)
    /\ seen \subseteq Stored
    /\ before \subseteq Stored
    /\ phase \in {"idle", "reading", "done", "refused"}

Init == /\ occurred = [x \in Events |-> 0]
        /\ indexed = {}
        /\ endpoint = "none"
        /\ asked = 0
        /\ offset = 0
        /\ page = <<>>
        /\ total = 0
        /\ seen = {}
        /\ before = {}
        /\ phase = "idle"

\* A row becomes visible; occurred_at was set before, in no particular order.
Store(x, t) ==
    /\ occurred[x] = 0
    /\ occurred' = [occurred EXCEPT ![x] = t]
    /\ UNCHANGED <<indexed, readerVars>>

\* The consumer has indexed the event and the index was refreshed; events
\* come in any order and some not at all.
Index(x) ==
    /\ x \in Stored \ indexed
    /\ indexed' = indexed \cup {x}
    /\ UNCHANGED <<occurred, readerVars>>

-----------------------------------------------------------------------------
\* The orders of the queries.

\* ORDER BY occurred_at DESC
TimelinePrecedes(x, y) == occurred[x] > occurred[y]

\* ORDER BY occurred_at ASC
CausesPrecedes(x, y) == occurred[x] < occurred[y]

\* occurred_at desc, id desc
ListPrecedes(x, y) == \/ occurred[x] > occurred[y]
                      \/ occurred[x] = occurred[y] /\ x > y

Precedes(x, y) ==
    \/ endpoint \in {"timeline", "correlation"} /\ TimelinePrecedes(x, y)
    \/ endpoint = "causes" /\ CausesPrecedes(x, y)
    \/ endpoint = "list" /\ ListPrecedes(x, y)

\* Every result the query may give: the order of ties is the database's choice.
Results(rows) ==
    {q \in SetToSeqs(rows) :
       \A i, j \in DOMAIN q : i < j => ~ Precedes(q[j], q[i])}

-----------------------------------------------------------------------------
\* parseIntParam and the service: no limit or 0 is the default, above the
\* maximum is the maximum.
Limit(n) == IF n = 0 THEN DefaultLimit
                     ELSE IF n > MaxLimit THEN MaxLimit ELSE n

\* Variant: the limit that was asked for.
EchoedAsked(n) == n

\* The limit a response carries: the one that was used.
Echoed(n) == Limit(n)

Visible(e) == IF e \in FromStore THEN Stored ELSE indexed

Start(e, n) ==
    /\ phase = "idle"
    /\ phase' = "reading"
    /\ endpoint' = e
    /\ asked' = n
    /\ before' = Visible(e)
    /\ UNCHANGED <<rowVars, offset, page, total, seen>>

\* Variant: totals are added up over the pages.
ReceiveAdding(rows, count) ==
    /\ page' = rows
    /\ total' = total + count
    /\ seen' = seen \cup ToSet(rows)
    /\ offset' = offset + Echoed(asked)
    /\ phase' = IF Len(rows) < Echoed(asked) THEN "done" ELSE "reading"
    /\ UNCHANGED <<rowVars, endpoint, asked, before>>

\* The reader has its page, and goes on unless the page is not full.
Receive(rows, count) ==
    /\ page' = rows
    /\ total' = count
    /\ seen' = seen \cup ToSet(rows)
    /\ offset' = offset + Echoed(asked)
    /\ phase' = IF Len(rows) < Echoed(asked) THEN "done" ELSE "reading"
    /\ UNCHANGED <<rowVars, endpoint, asked, before>>

Slice(q) == SubSeq(q, offset + 1,
                   IF Len(q) < offset + Limit(asked) THEN Len(q)
                                                     ELSE offset + Limit(asked))

\* One SELECT with LIMIT, OFFSET and COUNT(*) OVER(): the count comes with the
\* rows, so there is none without them.
ReadStore ==
    /\ phase = "reading"
    /\ endpoint \in FromStore
    /\ \E q \in Results(Visible(endpoint)) :
          Receive(Slice(q), IF Slice(q) = <<>> THEN 0 ELSE Len(q))

\* One search with from, size and track_total_hits.
ReadIndex ==
    /\ phase = "reading"
    /\ endpoint \in FromIndex
    /\ offset + Limit(asked) <= Window
    /\ \E q \in Results(Visible(endpoint)) : Receive(Slice(q), Len(q))

\* Elasticsearch refuses a page that ends beyond its window: 500.
Refused ==
    /\ phase = "reading"
    /\ endpoint \in FromIndex
    /\ offset + Limit(asked) > Window
    /\ phase' = "refused"
    /\ UNCHANGED <<rowVars, endpoint, asked, offset, page, total, seen, before>>

Next == \/ \E x \in Events, t \in Times \ {0} : Store(x, t)
        \/ \E x \in Events : Index(x)
        \/ \E e \in FromStore \cup FromIndex, n \in 0 .. MaxLimit + 1 : Start(e, n)
        \/ ReadStore
        \/ ReadIndex
        \/ Refused

Spec == Init /\ [][Next]_vars

-----------------------------------------------------------------------------
\* No two rows that the database may order either way.
NoTies == \/ endpoint \in FromIndex
          \/ \A x, y \in Stored : occurred[x] = occurred[y] => x = y

(***************************************************************************)
(* A reader that pages to the end has been given every event that was      *)
(* there when it started, whatever was stored or indexed meanwhile and     *)
(* whatever limit it asked for: new rows push others to later pages, never *)
(* to earlier ones.  (The store's queries give no order to rows of the     *)
(* same time, and then a row may be missed; the index's do.)               *)
(***************************************************************************)
NothingMissed == phase = "done" /\ NoTies => before \subseteq seen
=============================================================================
