------------------------------ MODULE EventLog ------------------------------
(***************************************************************************)
(* What the event store promises its callers, with no SQL in sight: one    *)
(* append-only log per stream, to which a call of Append adds its event at *)
(* one instant between the call and a successful answer, and at most once  *)
(* per event id.  An error tells the caller nothing: the event may be in   *)
(* the log already, may appear later, or may never appear.                 *)
(*                                                                         *)
(* EventStore implements this module (EventStore!ImplementsEventLog).      *)
(***************************************************************************)
EXTENDS Naturals, Sequences

CONSTANTS Calls,      \* calls of Store.Append, each made once
          Ids,        \* event UUIDs
          Tenants,
          Streams,
          NoEvent     \* a call that has not been made

VARIABLES log,        \* log[s]: the entries of stream s; the version is the index
          request,    \* request[c]: the event the call was made with
          reply,      \* reply[c]: "none", "waiting", "ok" or "error"
          assigned    \* assigned[c]: the version a successful answer carried

vars == <<log, request, reply, assigned>>

Event == [id : Ids, tenant : Tenants, stream : Streams]

\* The positions of stream s that hold the event id i.
Positions(s, i) == {v \in DOMAIN log[s] : log[s][v].id = i}

Recorded(i) == \E s \in Streams : Positions(s, i) # {}

Init == /\ log = [s \in Streams |-> <<>>]
        /\ request = [c \in Calls |-> NoEvent]
        /\ reply = [c \in Calls |-> "none"]
        /\ assigned = [c \in Calls |-> 0]

Call(c, e) ==
    /\ reply[c] = "none"
    /\ request' = [request EXCEPT ![c] = e]
    /\ reply' = [reply EXCEPT ![c] = "waiting"]
    /\ UNCHANGED <<log, assigned>>

(***************************************************************************)
(* The call takes effect, which it may still do after its caller was told  *)
(* of an error.  An event id that is in a log is never appended again.     *)
(***************************************************************************)
TakeEffect(c) ==
    /\ reply[c] \in {"waiting", "error"}
    /\ ~ Recorded(request[c].id)
    /\ log' = [log EXCEPT ![request[c].stream] = Append(@, request[c])]
    /\ UNCHANGED <<request, reply, assigned>>

\* Success: the version answered is where the event stands in a log.
Succeed(c) ==
    /\ reply[c] = "waiting"
    /\ \E s \in Streams : \E v \in Positions(s, request[c].id) :
          assigned' = [assigned EXCEPT ![c] = v]
    /\ reply' = [reply EXCEPT ![c] = "ok"]
    /\ UNCHANGED <<log, request>>

Fail(c) ==
    /\ reply[c] = "waiting"
    /\ reply' = [reply EXCEPT ![c] = "error"]
    /\ UNCHANGED <<log, request, assigned>>

Next == \E c \in Calls :
           \/ \E e \in Event : Call(c, e)
           \/ TakeEffect(c)
           \/ Succeed(c)
           \/ Fail(c)

Spec == Init /\ [][Next]_vars
=============================================================================
