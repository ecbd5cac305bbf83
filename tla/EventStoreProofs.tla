--------------------------- MODULE EventStoreProofs ---------------------------
(***************************************************************************)
(* Proofs about EventStore, for every set of calls, ids, tenants, streams. *)
(*                                                                         *)
(* VersionsContiguous is not inductive: that a committing row extends its  *)
(* stream needs what its statement did earlier.  IInv adds that a version  *)
(* computed from a snapshot is at most one above the last (streams only    *)
(* grow), that the id of a row that will not be withdrawn is exclusively   *)
(* its own, and so is the version of a row that has entered it (so it is   *)
(* not one of 1..n, and n + 1 is what remains).                            *)
(*                                                                         *)
(* Then the refinement of EventLog, and two results that statements owe    *)
(* each other: none goes round for ever (Advances), and none wait for each *)
(* other in a circle (NoDeadlock).                                         *)
(***************************************************************************)
EXTENDS EventStore, Sequences, TLAPS

\* LastVersion is the number it is meant to be (Max is a CHOOSE).
LastIsNat == \A s \in Streams : LastVersion(events, s) \in Nat

IdsUnique == \A r, q \in events : r.id = q.id => r = q

\* A version read from a snapshot leaves no gap, however stale the snapshot.
PlannedVersions ==
    \A c \in Calls :
       txn[c] \in Running \ {"sent"} =>
          next[c] \in 1 .. (LastVersion(events, request[c].stream) + 1)

\* The id of a row that will be committed unless it is rejected or aborted is
\* on no other such row.
IdsExclusive ==
    \A c \in Calls : txn[c] \in {"held", "inserted"} =>
       /\ \A r \in events : r.id # request[c].id
       /\ \A d \in Calls : txn[d] \in {"held", "inserted"} /\ d # c =>
             request[d].id # request[c].id

\* The version that an uncommitted row has entered is on no other row.
VersionsExclusive ==
    \A c \in Calls : HoldsVersion(c) =>
       /\ \A r \in events : ~ SameVersion(r, NewRow(c))
       /\ \A d \in Calls : HoldsVersion(d) /\ d # c => ~ SameVersion(NewRow(d), NewRow(c))

\* A call whose id was stored when it was made never gets past the probe.
StoredNeverProbed ==
    \A c \in Calls : stored[c] =>
       /\ Stored(events, request[c].id)
       /\ txn[c] \in {"none", "sent", "planned", "committed", "aborted"}

\* A committed statement holds the version of the row that has its id.
CommittedHasRow ==
    \A c \in Calls : txn[c] = "committed" =>
       \E r \in events : r.id = request[c].id /\ r.version = next[c]

\* A caller that got a version has a committed statement.
OkIsCommitted == \A c \in Calls : reply[c] = "ok" => txn[c] = "committed"

IInv == /\ TypeOK
        /\ LastIsNat
        /\ VersionsContiguous
        /\ IdsUnique
        /\ PlannedVersions
        /\ IdsExclusive
        /\ VersionsExclusive
        /\ StoredNeverProbed
        /\ CommittedHasRow
        /\ OkIsCommitted

-----------------------------------------------------------------------------
\* COALESCE(MAX(version), 0) of the versions 1..n is n.
LEMMA LastOfInterval ==
    ASSUME NEW rows, NEW s, NEW n \in Nat, Versions(rows, s) = 1 .. n
    PROVE  LastVersion(rows, s) = n
<1>1. {0} \cup Versions(rows, s) = 0 .. n
  OBVIOUS
<1>2. \A x \in 0 .. n : (\A y \in 0 .. n : x >= y) <=> x = n
  OBVIOUS
<1>3. Max(0 .. n) = n
  BY <1>2 DEF Max
<1>. QED
  BY <1>1, <1>3 DEF LastVersion

\* A row that carries the version after the last extends its stream by one,
\* and no other stream changes.
LEMMA LastOfExtension ==
    ASSUME NEW rows \in SUBSET Row, NEW row \in Row, NEW s \in Streams,
           LastVersion(rows, s) \in Nat,
           Versions(rows, s) = 1 .. LastVersion(rows, s),
           s = row.stream => row.version = LastVersion(rows, s) + 1
    PROVE  LET n == IF s = row.stream THEN LastVersion(rows, s) + 1
                                      ELSE LastVersion(rows, s)
           IN /\ LastVersion(rows \cup {row}, s) = n
              /\ Versions(rows \cup {row}, s) = 1 .. n
<1>1. CASE s = row.stream
  <2>1. Versions(rows \cup {row}, s) = Versions(rows, s) \cup {row.version}
    BY <1>1 DEF Versions
  <2>2. \A n \in Nat : (1 .. n) \cup {n + 1} = 1 .. (n + 1)
    OBVIOUS
  <2>3. Versions(rows \cup {row}, s) = 1 .. (LastVersion(rows, s) + 1)
    BY <1>1, <2>1, <2>2
  <2>. QED
    BY <1>1, <2>3, LastOfInterval
<1>2. CASE s # row.stream
  <2>1. Versions(rows \cup {row}, s) = Versions(rows, s)
    BY <1>2 DEF Versions
  <2>. QED
    BY <1>2, <2>1, LastOfInterval
<1>. QED
  BY <1>1, <1>2

\* The row about to be committed is the next version of its stream.
LEMMA InsertedIsNext ==
    ASSUME IInv, NEW c \in Calls, txn[c] = "inserted"
    PROVE  /\ NewRow(c) \in Row
           /\ NewRow(c) \notin events
           /\ next[c] = LastVersion(events, request[c].stream) + 1
<1>1. request[c] \in Event /\ next[c] \in Nat
  BY DEF IInv, TypeOK
<1>2. NewRow(c) \in Row
  BY <1>1 DEF NewRow, Event, Row
<1>3. \A r \in events : r.id # request[c].id /\ ~ SameVersion(r, NewRow(c))
  BY DEF IInv, IdsExclusive, VersionsExclusive, HoldsVersion
<1>4. NewRow(c) \notin events
  BY <1>3 DEF NewRow
<1>5. next[c] \notin Versions(events, request[c].stream)
  BY <1>3 DEF Versions, SameVersion, NewRow
<1>6. next[c] \notin 1 .. LastVersion(events, request[c].stream)
  BY <1>1, <1>5 DEF IInv, VersionsContiguous, Event
<1>7. /\ next[c] \in 1 .. (LastVersion(events, request[c].stream) + 1)
      /\ LastVersion(events, request[c].stream) \in Nat
  BY <1>1 DEF IInv, PlannedVersions, LastIsNat, Event, Running
<1>. QED
  BY <1>2, <1>4, <1>6, <1>7

-----------------------------------------------------------------------------
LEMMA InitIInv == Init => IInv
<1> SUFFICES ASSUME Init PROVE IInv
  OBVIOUS
<1>1. \A s : Versions(events, s) = 1 .. 0
  BY DEF Init, Versions
<1>2. \A s : LastVersion(events, s) = 0
  BY <1>1, LastOfInterval
<1>3. TypeOK
  BY DEF Init, TypeOK
<1>4. LastIsNat
  BY <1>2 DEF LastIsNat
<1>5. VersionsContiguous /\ IdsUnique
  BY <1>1, <1>2 DEF Init, VersionsContiguous, IdsUnique
<1>6. PlannedVersions /\ IdsExclusive /\ VersionsExclusive
  BY DEF Init, PlannedVersions, IdsExclusive, VersionsExclusive, HoldsVersion, Running
<1>7. StoredNeverProbed /\ CommittedHasRow /\ OkIsCommitted
  BY DEF Init, StoredNeverProbed, CommittedHasRow, OkIsCommitted
<1>. QED
  BY <1>3, <1>4, <1>5, <1>6, <1>7 DEF IInv

\* Every action but Commit leaves the table as it is.
LEMMA CallIInv ==
    ASSUME IInv, NEW c \in Calls, NEW e \in Requests, Call(c, e)
    PROVE  IInv'
<1> USE DEF IInv, Call
<1>1. TypeOK'
  BY RequestsAssumption, NoEventAssumption DEF TypeOK, Event, Running, Ended, Stored
<1>2. LastIsNat' /\ VersionsContiguous' /\ IdsUnique'
  BY DEF LastIsNat, VersionsContiguous, IdsUnique
<1>3. /\ txn'[c] = "sent" /\ request'[c] = e
      /\ \A d \in Calls \ {c} : /\ txn'[d] = txn[d]
                                /\ request'[d] = request[d]
                                /\ stored'[d] = stored[d]
      /\ stored'[c] => Stored(events, e.id)
  BY DEF TypeOK
<1>4. \A d \in Calls \ {c} : NewRow(d)' = NewRow(d)
  BY <1>3 DEF NewRow
<1>5. PlannedVersions'
  BY <1>3 DEF PlannedVersions
<1>6. IdsExclusive' /\ VersionsExclusive'
  <2>1. \A d \in Calls : /\ txn'[d] \in {"held", "inserted", "doomed"} => d # c
                         /\ HoldsVersion(d)' => HoldsVersion(d) /\ d # c
    BY <1>3 DEF HoldsVersion
  <2>. QED
    BY <1>3, <1>4, <2>1 DEF IdsExclusive, VersionsExclusive
<1>7. StoredNeverProbed'
  BY <1>3 DEF StoredNeverProbed
<1>8. CommittedHasRow'
  BY <1>3 DEF CommittedHasRow
<1>9. OkIsCommitted'
  BY DEF OkIsCommitted, TypeOK
<1>. QED
  BY <1>1, <1>2, <1>5, <1>6, <1>7, <1>8, <1>9

LEMMA ServerIInv ==
    ASSUME IInv, NEW c \in Calls,
           \/ ReadMax(c) \/ ReturnExisting(c) \/ ProbeId(c) \/ EnterId(c)
           \/ EnterVersion(c) \/ Reject(c) \/ ProbeAgain(c) \/ Abort(c)
    PROVE  IInv'
<1> USE DEF IInv
<1>0. /\ UNCHANGED <<events, request, reply, assigned, stored>>
      /\ txn[c] \in Running /\ txn[c] # "none" /\ txn'[c] # "none"
      /\ txn'[c] \in Running \cup Ended
      /\ txn' = [txn EXCEPT ![c] = txn'[c]]
      /\ \A d \in Calls \ {c} : txn'[d] = txn[d] /\ next'[d] = next[d]
  BY DEF TypeOK, ReadMax, ReturnExisting, ProbeId, EnterId, EnterVersion, Reject,
     ProbeAgain, Abort, clientVars, Running, Ended
<1>1. request[c] \in Event
  BY <1>0 DEF TypeOK
<1>2. LastVersion(events, request[c].stream) \in Nat
  BY <1>1 DEF LastIsNat, Event
<1>3. next' \in [Calls -> Nat]
  BY <1>2 DEF TypeOK, Row, ReadMax, ReturnExisting, ProbeId, EnterId, EnterVersion,
     Reject, ProbeAgain, Abort
<1>4. TypeOK'
  BY <1>0, <1>3 DEF TypeOK
<1>5. LastIsNat' /\ VersionsContiguous' /\ IdsUnique'
  BY <1>0 DEF LastIsNat, VersionsContiguous, IdsUnique
<1>6. \A d \in Calls \ {c} : NewRow(d)' = NewRow(d)
  BY <1>0 DEF NewRow
<1>7. PlannedVersions'
  <2>1. txn'[c] \in Running \ {"sent"} =>
           next'[c] \in 1 .. (LastVersion(events, request[c].stream) + 1)
    BY <1>2 DEF PlannedVersions, TypeOK, Running, ReadMax, ReturnExisting, ProbeId,
       EnterId, EnterVersion, Reject, ProbeAgain, Abort
  <2>. QED
    BY <1>0, <2>1 DEF PlannedVersions
<1>8. IdsExclusive'
  <2>1. CASE txn'[c] = "held"
    <3>1. EnterId(c) /\ ~ IdTaken(c)
      BY <2>1 DEF TypeOK, ReadMax, ReturnExisting, ProbeId, EnterId, EnterVersion,
         Reject, ProbeAgain, Abort
    <3>2. /\ \A r \in events : r.id # request[c].id
          /\ \A d \in Calls \ {c} :
                txn[d] \in {"held", "inserted"} => request[d].id # request[c].id
      BY <3>1 DEF IdTaken, Stored, HoldsId
    <3>. QED
      BY <1>0, <2>1, <3>2 DEF IdsExclusive
  <2>2. CASE txn'[c] # "held"
    <3>1. txn'[c] = "inserted" => txn[c] = "held"
      BY DEF TypeOK, ReadMax, ReturnExisting, ProbeId, EnterId, EnterVersion,
         Reject, ProbeAgain, Abort
    <3>. QED
      BY <1>0, <2>2, <3>1 DEF IdsExclusive
  <2>. QED
    BY <2>1, <2>2
<1>9. VersionsExclusive'
  <2>0. \A d \in Calls \ {c} : HoldsVersion(d)' <=> HoldsVersion(d)
    BY <1>0 DEF HoldsVersion
  <2>1. CASE HoldsVersion(c)'
    <3>1. EnterVersion(c)
      BY <2>1 DEF HoldsVersion, TypeOK, ReadMax, ReturnExisting, ProbeId, EnterId,
         EnterVersion, Reject, ProbeAgain, Abort
    <3>2. NewRow(c)' = NewRow(c)
      BY <3>1 DEF EnterVersion, clientVars, NewRow
    <3>3. /\ \A r \in events : ~ SameVersion(r, NewRow(c))
          /\ \A d \in Calls \ {c} : HoldsVersion(d) => ~ SameVersion(NewRow(d), NewRow(c))
      BY <3>1 DEF EnterVersion, VersionTaken, WaitsFor
    <3>. QED
      BY <1>0, <1>6, <2>0, <3>2, <3>3 DEF VersionsExclusive, SameVersion
  <2>2. CASE ~ HoldsVersion(c)'
    BY <1>0, <1>6, <2>0, <2>2 DEF VersionsExclusive
  <2>. QED
    BY <2>1, <2>2
<1>10. StoredNeverProbed'
  <2>1. stored[c] => txn'[c] \in {"none", "sent", "planned", "committed", "aborted"}
    BY DEF StoredNeverProbed, TypeOK, Stored, ReadMax, ReturnExisting, ProbeId, EnterId,
       EnterVersion, Reject, ProbeAgain, Abort
  <2>. QED
    BY <1>0, <2>1 DEF StoredNeverProbed
<1>11. CommittedHasRow'
  <2>1. txn'[c] = "committed" =>
           \E r \in events : r.id = request[c].id /\ r.version = next'[c]
    BY DEF TypeOK, ReadMax, ReturnExisting, ProbeId, EnterId, EnterVersion, Reject,
       ProbeAgain, Abort
  <2>. QED
    BY <1>0, <2>1 DEF CommittedHasRow
<1>12. OkIsCommitted'
  BY <1>0 DEF OkIsCommitted, TypeOK, Running
<1>. QED
  BY <1>4, <1>5, <1>7, <1>8, <1>9, <1>10, <1>11, <1>12

LEMMA CommitIInv ==
    ASSUME IInv, NEW c \in Calls, Commit(c)
    PROVE  IInv'
<1> DEFINE row == NewRow(c)
<1>0. /\ txn[c] = "inserted"
      /\ events' = events \cup {row}
      /\ txn' = [txn EXCEPT ![c] = "committed"]
      /\ UNCHANGED <<next, request, reply, assigned, stored>>
  BY DEF Commit, clientVars
<1>1. /\ row \in Row
      /\ row.id = request[c].id
      /\ row.stream = request[c].stream
      /\ row.version = next[c]
      /\ row.version = LastVersion(events, row.stream) + 1
  BY <1>0, InsertedIsNext DEF NewRow
<1>2. \A d \in Calls : NewRow(d)' = NewRow(d)
  BY <1>0 DEF NewRow
<1> HIDE DEF row
<1>3. TypeOK'
  BY <1>0, <1>1 DEF IInv, TypeOK, Running, Ended
<1>4. \A s \in Streams :
         /\ LastVersion(events, s)' \in Nat
         /\ LastVersion(events, s)' >= LastVersion(events, s)
         /\ Versions(events, s)' = 1 .. LastVersion(events, s)'
  <2> TAKE s \in Streams
  <2>1. /\ LastVersion(events, s) \in Nat
        /\ Versions(events, s) = 1 .. LastVersion(events, s)
        /\ events \in SUBSET Row
    BY DEF IInv, LastIsNat, VersionsContiguous, TypeOK
  <2>. QED
    BY <1>0, <1>1, <2>1, LastOfExtension
<1>5. \A r \in events : r.id # row.id /\ ~ SameVersion(r, row)
  BY <1>0, <1>1 DEF IInv, IdsExclusive, VersionsExclusive, HoldsVersion, row
<1>6. VersionsContiguous'
  BY <1>0, <1>4, <1>5 DEF IInv, VersionsContiguous, SameVersion
<1>7. IdsUnique'
  BY <1>0, <1>5 DEF IInv, IdsUnique
<1>8. PlannedVersions'
  <2> SUFFICES ASSUME NEW d \in Calls, txn'[d] \in Running \ {"sent"}
               PROVE  next[d] \in 1 .. (LastVersion(events, request[d].stream)' + 1)
    BY <1>0 DEF PlannedVersions
  <2>1. txn[d] = txn'[d]
    BY <1>0 DEF IInv, TypeOK, Running
  <2>2. request[d].stream \in Streams
    BY <2>1 DEF IInv, TypeOK, Event, Running
  <2>3. /\ next[d] \in 1 .. (LastVersion(events, request[d].stream) + 1)
        /\ LastVersion(events, request[d].stream) \in Nat
    BY <2>1, <2>2 DEF IInv, PlannedVersions, LastIsNat
  <2>4. /\ LastVersion(events, request[d].stream)' \in Nat
        /\ LastVersion(events, request[d].stream)' >= LastVersion(events, request[d].stream)
    BY <1>0, <1>4, <2>2
  <2>. QED
    BY <2>3, <2>4
<1>9. \A d \in Calls : txn'[d] \in {"held", "inserted", "doomed"} => d # c /\ txn[d] = txn'[d]
  BY <1>0 DEF IInv, TypeOK
<1>10. IdsExclusive'
  <2>1. \A d \in Calls : txn'[d] \in {"held", "inserted"} => row.id # request[d].id
    BY <1>0, <1>1, <1>9 DEF IInv, IdsExclusive
  <2>. QED
    BY <1>0, <1>9, <2>1 DEF IInv, IdsExclusive
<1>11. VersionsExclusive'
  <2>1. \A d \in Calls : HoldsVersion(d)' => HoldsVersion(d) /\ d # c
    BY <1>9 DEF HoldsVersion
  <2>2. \A d \in Calls : HoldsVersion(d)' => ~ SameVersion(row, NewRow(d))
    BY <1>0, <2>1 DEF IInv, VersionsExclusive, HoldsVersion, row
  <2>. QED
    BY <1>0, <1>2, <2>1, <2>2 DEF IInv, VersionsExclusive
<1>12. StoredNeverProbed'
  BY <1>0 DEF IInv, TypeOK, StoredNeverProbed, Stored
<1>13. CommittedHasRow'
  BY <1>0, <1>1 DEF IInv, TypeOK, CommittedHasRow
<1>14. OkIsCommitted'
  BY <1>0 DEF IInv, TypeOK, OkIsCommitted
<1>. QED
  BY <1>3, <1>4, <1>6, <1>7, <1>8, <1>10, <1>11, <1>12, <1>13, <1>14 DEF IInv, LastIsNat

\* Answering a caller, or no step at all, leaves the server as it is.
LEMMA ReplyIInv ==
    ASSUME IInv, UNCHANGED serverVars, UNCHANGED <<request, stored>>,
           TypeOK', OkIsCommitted'
    PROVE  IInv'
<1>1. \A d : NewRow(d)' = NewRow(d)
  BY DEF serverVars, NewRow
<1>. QED
  BY <1>1 DEF serverVars, IInv, LastIsNat, VersionsContiguous, IdsUnique,
     PlannedVersions, IdsExclusive, VersionsExclusive, HoldsVersion, StoredNeverProbed,
     CommittedHasRow

LEMMA NextIInv == IInv /\ [Next]_vars => IInv'
<1> SUFFICES ASSUME IInv, [Next]_vars PROVE IInv'
  OBVIOUS
<1>1. ASSUME NEW c \in Calls, NEW e \in Requests, Call(c, e) PROVE IInv'
  BY <1>1, CallIInv
<1>2. ASSUME NEW c \in Calls, Server(c) PROVE IInv'
  BY <1>2, ServerIInv, CommitIInv DEF Server
<1>3. ASSUME NEW c \in Calls, Abort(c) PROVE IInv'
  BY <1>3, ServerIInv
<1>4. ASSUME NEW c \in Calls, Succeed(c) PROVE IInv'
  <2>1. TypeOK' /\ OkIsCommitted'
    BY <1>4 DEF Succeed, IInv, TypeOK, OkIsCommitted, serverVars
  <2>. QED
    BY <1>4, <2>1, ReplyIInv DEF Succeed
<1>5. ASSUME NEW c \in Calls, Fail(c) PROVE IInv'
  <2>1. TypeOK' /\ OkIsCommitted'
    BY <1>5 DEF Fail, IInv, TypeOK, OkIsCommitted, serverVars
  <2>. QED
    BY <1>5, <2>1, ReplyIInv DEF Fail
<1>6. CASE UNCHANGED vars
  <2>1. TypeOK' /\ OkIsCommitted'
    BY <1>6 DEF vars, IInv, TypeOK, OkIsCommitted
  <2>. QED
    BY <1>6, <2>1, ReplyIInv DEF vars, serverVars
<1>. QED
  BY <1>1, <1>2, <1>3, <1>4, <1>5, <1>6 DEF Next

THEOREM Invariance == Spec => []IInv
BY InitIInv, NextIInv, PTL DEF Spec

-----------------------------------------------------------------------------
(***************************************************************************)
(* The results.  First, type correctness of the store and its callers.     *)
(***************************************************************************)
THEOREM TypeCorrect == Spec => []TypeOK
<1>1. IInv => TypeOK
  BY DEF IInv
<1>. QED
  BY <1>1, Invariance, PTL

\* The versions of a stream are 1..n, one row each, under any concurrency.
THEOREM Contiguity == Spec => []VersionsContiguous
<1>1. IInv => VersionsContiguous
  BY DEF IInv
<1>. QED
  BY <1>1, Invariance, PTL

-----------------------------------------------------------------------------
\* A statement of a call on the stream has committed.
Won(s) == \E c \in CallsOn(s) : txn[c] = "committed"

\* Whoever was rejected lost to a row, and every row has a call that won it.
LostToWinner ==
    /\ \A r \in events : Won(r.stream)
    /\ \A c \in Calls : txn[c] = "rejected" => Won(request[c].stream)

\* A committed statement stays committed and its call is not made again.
LEMMA WonStays ==
    ASSUME TypeOK, [Next]_vars, NEW s, Won(s)
    PROVE  Won(s)'
<1>1. PICK d \in Calls : /\ request[d] # NoEvent /\ request[d].stream = s
                         /\ txn[d] = "committed"
  BY DEF Won, CallsOn
<1>2. reply[d] # "none"
  BY <1>1 DEF TypeOK
<1>3. request'[d] = request[d] /\ txn'[d] = "committed"
  <2>1. CASE UNCHANGED vars
    BY <1>1, <2>1 DEF vars
  <2>2. ASSUME NEW c \in Calls, NEW e \in Requests, Call(c, e)
        PROVE  request'[d] = request[d] /\ txn'[d] = "committed"
    BY <1>1, <1>2, <2>2 DEF Call, TypeOK
  <2>3. ASSUME NEW c \in Calls, Server(c) \/ Abort(c) \/ Succeed(c) \/ Fail(c)
        PROVE  request'[d] = request[d] /\ txn'[d] = "committed"
    BY <1>1, <2>3 DEF Server, ReadMax, ReturnExisting, ProbeId, EnterId, EnterVersion,
                      Reject, ProbeAgain, Commit, Abort, Succeed, Fail, clientVars,
                      serverVars, TypeOK, Running
  <2>. QED
    BY <2>1, <2>2, <2>3 DEF Next
<1>. QED
  BY <1>1, <1>3 DEF Won, CallsOn

LEMMA NextLost == IInv /\ LostToWinner /\ [Next]_vars => LostToWinner'
<1>. SUFFICES ASSUME IInv, LostToWinner, [Next]_vars PROVE LostToWinner'
  OBVIOUS
<1>. USE DEF IInv
<1>1. ASSUME NEW r \in events' PROVE Won(r.stream)'
  <2>1. CASE r \in events
    BY <2>1, WonStays DEF LostToWinner
  <2>2. CASE r \notin events
    <3>1. PICK c \in Calls : Commit(c)
      BY <2>2 DEF Next, vars, Call, Server, ReadMax, ReturnExisting, ProbeId, EnterId,
                  EnterVersion, Reject, ProbeAgain, Abort, Succeed, Fail, clientVars,
                  serverVars
    <3>2. r.stream = request[c].stream
      BY <2>2, <3>1 DEF Commit, NewRow
    <3>3. request[c] # NoEvent /\ request' = request /\ txn'[c] = "committed"
      BY <3>1 DEF Commit, TypeOK, clientVars
    <3>. QED
      BY <3>2, <3>3 DEF Won, CallsOn
  <2>. QED
    BY <2>1, <2>2
<1>2. ASSUME NEW c \in Calls, txn'[c] = "rejected", NEW s, s = request'[c].stream
      PROVE  Won(s)'
  <2>1. CASE txn[c] = "rejected"
    <3>1. Won(request[c].stream) /\ reply[c] # "none"
      BY <2>1 DEF LostToWinner, TypeOK
    <3>2. request'[c] = request[c]
      BY <3>1 DEF Next, vars, Call, Server, ReadMax, ReturnExisting, ProbeId, EnterId,
                  EnterVersion,
                  Reject, ProbeAgain, Commit, Abort, Succeed, Fail, clientVars, serverVars,
                  TypeOK
    <3>. QED
      BY <1>2, <3>1, <3>2, WonStays
  <2>2. CASE txn[c] # "rejected"
    <3>1. Reject(c)
      BY <1>2, <2>2 DEF Next, vars, Call, Server, ReadMax, ReturnExisting, ProbeId,
                  EnterId, EnterVersion, Reject, ProbeAgain, Commit, Abort, Succeed, Fail,
                  clientVars, serverVars,
                  TypeOK
    <3>2. PICK r \in events : r.stream = request[c].stream
      BY <3>1 DEF Reject, VersionTaken, SameVersion, NewRow
    <3>3. Won(s)
      BY <1>2, <3>1, <3>2 DEF LostToWinner, Reject, clientVars
    <3>. QED
      BY <3>3, WonStays
  <2>. QED
    BY <2>1, <2>2
<1>. QED
  BY <1>1, <1>2 DEF LostToWinner, Won, CallsOn

\* A burst of Appends to a stream is never lost as a whole: where all of them
\* ended and the server aborted none, one has its row.
THEOREM AWinner == Spec => []ContentionHasAWinner
<1>1. Init => LostToWinner
  BY DEF Init, LostToWinner
<1>2. LostToWinner => ContentionHasAWinner
  BY DEF LostToWinner, ContentionHasAWinner, Won, CallsOn
<1>. QED
  BY <1>1, <1>2, NextLost, Invariance, PTL DEF Spec

\* Append of an id stored before the call is never refused as a duplicate.
THEOREM RetrySucceeds == Spec => []RetryOfStoredSucceeds
<1>1. IInv => RetryOfStoredSucceeds
  BY DEF IInv, StoredNeverProbed, RetryOfStoredSucceeds
<1>. QED
  BY <1>1, Invariance, PTL
\* Rows become visible in the order of their versions.
THEOREM ExtendsStream == Spec => NewRowExtendsStream
<1>1. IInv /\ [Next]_vars =>
         [\A r \in events' \ events :
             r.version = LastVersion(events, r.stream) + 1]_events
  <2> SUFFICES ASSUME IInv, [Next]_vars, NEW r \in events' \ events
               PROVE  r.version = LastVersion(events, r.stream) + 1
    OBVIOUS
  <2>1. PICK c \in Calls : Commit(c)
    BY DEF Next, vars, Call, Server, ReadMax, ReturnExisting, ProbeId, EnterId,
           EnterVersion,
       Reject, ProbeAgain, Abort, Succeed, Fail, serverVars
  <2>2. r = NewRow(c)
    BY <2>1 DEF Commit
  <2>. QED
    BY <2>1, <2>2, InsertedIsNext DEF Commit, NewRow
<1>. QED
  BY <1>1, Invariance, PTL DEF Spec, NewRowExtendsStream

-----------------------------------------------------------------------------
\* The refinement.  The abstract entry at version v of stream s is the event of
\* the one row that carries it.
LEMMA RowAtIsRow ==
    ASSUME VersionsContiguous, NEW r \in events, r.stream \in Streams
    PROVE  RowAt(r.stream, r.version) = r
BY DEF RowAt, VersionsContiguous, SameVersion

\* Committing a row appends its event to the abstract log of its stream.
LEMMA CommitAppends ==
    ASSUME IInv, NEW c \in Calls, Commit(c)
    PROVE  AbstractLog' = [AbstractLog EXCEPT ![request[c].stream] =
                              Append(@, request[c])]
<1> DEFINE row == NewRow(c)
           n(s) == LastVersion(events, s)
<1>0. IInv'
  BY CommitIInv
<1>1. /\ txn[c] = "inserted"
      /\ events' = events \cup {row}
      /\ row' = row
      /\ request[c] \in Event /\ request[c].stream \in Streams
  BY DEF Commit, clientVars, NewRow, IInv, TypeOK, Event
<1>2. /\ row \in Row /\ row \notin events
      /\ row.stream = request[c].stream
      /\ row.version = n(row.stream) + 1
      /\ EventOf(row) = request[c]
  BY <1>1, InsertedIsNext DEF NewRow, EventOf, Event
<1> HIDE DEF row
<1>3. ASSUME NEW s \in Streams
      PROVE  /\ n(s) \in Nat
             /\ Versions(events, s) = 1 .. n(s)
             /\ n(s)' = IF s = row.stream THEN n(s) + 1 ELSE n(s)
  <2>1. /\ n(s) \in Nat
        /\ Versions(events, s) = 1 .. n(s)
        /\ events \in SUBSET Row
    BY DEF IInv, LastIsNat, VersionsContiguous, TypeOK
  <2>. QED
    BY <1>1, <1>2, <2>1, LastOfExtension
<1>4. ASSUME NEW s \in Streams, NEW v \in 1 .. n(s)
      PROVE  RowAt(s, v)' = RowAt(s, v)
  <2>1. v \in Versions(events, s)
    BY <1>3
  <2>2. PICK r \in events : r.stream = s /\ r.version = v
    BY <2>1 DEF Versions
  <2>3. VersionsContiguous'
    BY <1>0 DEF IInv
  <2>4. \A q \in events' : q.stream = s /\ q.version = v => q = r
    BY <1>1, <2>2, <2>3 DEF VersionsContiguous, SameVersion
  <2>. QED
    BY <1>1, <2>2, <2>4 DEF RowAt
<1>5. RowAt(row.stream, row.version)' = row
  <2>1. \A q \in events' : q.stream = row.stream /\ q.version = row.version => q = row
    BY <1>0, <1>1 DEF IInv, VersionsContiguous, SameVersion
  <2>. QED
    BY <1>1, <2>1 DEF RowAt
<1>6. ASSUME NEW s \in Streams, s # row.stream
      PROVE  AbstractLog'[s] = AbstractLog[s]
  BY <1>3, <1>4, <1>6 DEF AbstractLog
<1>7. AbstractLog'[row.stream] = Append(AbstractLog[row.stream], request[c])
  <2> DEFINE s == row.stream
             old == AbstractLog[s]
             new == AbstractLog'[s]
             m == n(s)
  <2>1. s \in Streams /\ s' = s
    BY <1>1, <1>2
  <2>2. m \in Nat /\ n(s)' = m + 1
    BY <1>3, <2>1
  <2>3. old = [v \in 1 .. m |-> EventOf(RowAt(s, v))]
    BY <2>1 DEF AbstractLog
  <2>4. new = [v \in 1 .. (m + 1) |-> EventOf(RowAt(s, v)')]
    BY <2>1, <2>2 DEF AbstractLog, EventOf
  <2>5. \A v \in 1 .. m : new[v] = old[v]
    BY <1>4, <2>1, <2>2, <2>3, <2>4
  <2>6. new[m + 1] = request[c]
    BY <1>1, <1>2, <1>5, <2>2, <2>4
  <2>7. new \in Seq(Range(new)) /\ Len(new) = m + 1 /\ DOMAIN new = 1 .. (m + 1)
    BY <2>2, <2>4 DEF Range
  <2>8. old \in Seq(Range(old)) /\ Len(old) = m /\ DOMAIN old = 1 .. m
    BY <2>2, <2>3 DEF Range
  <2> HIDE DEF old, new, m, s
  <2>9. new = Append(old, request[c])
    BY <2>2, <2>5, <2>6, <2>7, <2>8
  <2>. QED
    BY <2>9 DEF old, new, s
<1>. QED
  BY <1>1, <1>2, <1>6, <1>7 DEF AbstractLog

\* An abstract entry is the event of a stored row.
LEMMA EntryIsRow ==
    ASSUME IInv, NEW s \in Streams, NEW v \in DOMAIN AbstractLog[s]
    PROVE  \E r \in events : /\ r.stream = s /\ r.version = v
                             /\ AbstractLog[s][v] = EventOf(r)
<1>1. v \in 1 .. LastVersion(events, s) /\ AbstractLog[s][v] = EventOf(RowAt(s, v))
  BY DEF AbstractLog
<1>2. v \in Versions(events, s)
  BY <1>1 DEF IInv, VersionsContiguous
<1>3. PICK r \in events : r.stream = s /\ r.version = v
  BY <1>2 DEF Versions
<1>4. RowAt(s, v) = r
  BY <1>3, RowAtIsRow DEF IInv
<1>. QED
  BY <1>1, <1>3, <1>4

\* A stored row has its entry.
LEMMA RowHasEntry ==
    ASSUME IInv, NEW r \in events
    PROVE  /\ r.stream \in Streams
           /\ r.version \in DOMAIN AbstractLog[r.stream]
           /\ AbstractLog[r.stream][r.version] = EventOf(r)
<1>1. r \in Row /\ r.stream \in Streams
  BY DEF IInv, TypeOK, Row
<1>2. r.version \in 1 .. LastVersion(events, r.stream)
  BY <1>1 DEF IInv, VersionsContiguous, Versions
<1>. QED
  BY <1>1, <1>2, RowAtIsRow DEF IInv, AbstractLog

LEMMA InitRefines == Init => Abstract!Init
<1> SUFFICES ASSUME Init PROVE Abstract!Init
  OBVIOUS
<1>1. \A s : Versions(events, s) = 1 .. 0
  BY DEF Init, Versions
<1>2. \A s : LastVersion(events, s) = 0
  BY <1>1, LastOfInterval
<1>3. AbstractLog = [s \in Streams |-> <<>>]
  BY <1>2 DEF AbstractLog
<1>. QED
  BY <1>3 DEF Init, Abstract!Init

LEMMA StepRefines == IInv /\ [Next]_vars => [Abstract!Next]_(Abstract!vars)
<1> SUFFICES ASSUME IInv, [Next]_vars PROVE [Abstract!Next]_(Abstract!vars)
  OBVIOUS
<1>0. events' = events => AbstractLog' = AbstractLog
  BY DEF AbstractLog, RowAt, EventOf
<1>1. ASSUME NEW c \in Calls, NEW e \in Requests, Call(c, e)
      PROVE  Abstract!Call(c, e)
  BY <1>0, <1>1 DEF Call, Abstract!Call
<1>2. ASSUME NEW c \in Calls, Commit(c) PROVE Abstract!TakeEffect(c)
  <2>1. /\ txn[c] = "inserted" /\ reply[c] \in {"waiting", "error"}
        /\ UNCHANGED <<request, reply, assigned>>
    BY <1>2 DEF Commit, clientVars, IInv, TypeOK, OkIsCommitted
  <2>2. \A r \in events : r.id # request[c].id
    BY <2>1 DEF IInv, IdsExclusive
  <2>3. \A s \in Streams : \A v \in DOMAIN AbstractLog[s] :
           AbstractLog[s][v].id # request[c].id
    <3> TAKE s \in Streams
    <3> TAKE v \in DOMAIN AbstractLog[s]
    <3>1. PICK r \in events : AbstractLog[s][v] = EventOf(r)
      BY EntryIsRow
    <3>. QED
      BY <2>2, <3>1 DEF EventOf
  <2>4. ~ Abstract!Recorded(request[c].id)
    BY <2>3 DEF Abstract!Recorded, Abstract!Positions
  <2>. QED
    BY <1>2, <2>1, <2>4, CommitAppends DEF Abstract!TakeEffect
<1>3. ASSUME NEW c \in Calls, Succeed(c) PROVE Abstract!Succeed(c)
  <2>1. PICK r \in events : r.id = request[c].id /\ r.version = next[c]
    BY <1>3 DEF Succeed, IInv, CommittedHasRow
  <2>2. /\ r.stream \in Streams
        /\ next[c] \in DOMAIN AbstractLog[r.stream]
        /\ AbstractLog[r.stream][next[c]] = EventOf(r)
    BY <2>1, RowHasEntry
  <2>3. next[c] \in Abstract!Positions(r.stream, request[c].id)
    BY <2>1, <2>2 DEF Abstract!Positions, EventOf
  <2>. QED
    BY <1>0, <1>3, <2>2, <2>3 DEF Succeed, serverVars, Abstract!Succeed
<1>4. ASSUME NEW c \in Calls, Fail(c) PROVE Abstract!Fail(c)
  BY <1>0, <1>4 DEF Fail, serverVars, Abstract!Fail
<1>5. ASSUME NEW c \in Calls,
             \/ ReadMax(c) \/ ReturnExisting(c) \/ ProbeId(c) \/ EnterId(c)
             \/ EnterVersion(c) \/ Reject(c) \/ ProbeAgain(c) \/ Abort(c)
      PROVE  UNCHANGED Abstract!vars
  BY <1>0, <1>5 DEF ReadMax, ReturnExisting, ProbeId, EnterId, EnterVersion, Reject,
                    ProbeAgain,
     Abort, clientVars, Abstract!vars
<1>6. CASE UNCHANGED vars
  BY <1>0, <1>6 DEF vars, Abstract!vars
<1>7. Requests \subseteq Abstract!Event
  BY RequestsAssumption DEF Abstract!Event
<1>. QED
  BY <1>1, <1>2, <1>3, <1>4, <1>5, <1>6, <1>7 DEF Next, Server, Abstract!Next

\* The store behaves as an atomic append-only log to its callers.
THEOREM Refinement == Spec => ImplementsEventLog
BY InitRefines, StepRefines, Invariance, PTL DEF Spec, ImplementsEventLog, Abstract!Spec

-----------------------------------------------------------------------------
\* Rows stay, and a call keeps its event.
LEMMA RowsStay ==
    ASSUME TypeOK, [Next]_vars
    PROVE  /\ events \subseteq events'
           /\ \A c \in Calls : txn[c] # "none" => request'[c] = request[c]
<1>1. CASE UNCHANGED vars
  BY <1>1 DEF vars
<1>2. ASSUME NEW c \in Calls, NEW e \in Requests, Call(c, e)
      PROVE  /\ events \subseteq events'
             /\ \A d \in Calls : txn[d] # "none" => request'[d] = request[d]
  BY <1>2 DEF Call, TypeOK
<1>3. ASSUME NEW c \in Calls, Server(c) \/ Abort(c) \/ Succeed(c) \/ Fail(c)
      PROVE  events \subseteq events' /\ request' = request
  BY <1>3 DEF Server, ReadMax, ReturnExisting, ProbeId, EnterId, EnterVersion, Reject,
              ProbeAgain,
              Commit, Abort, Succeed, Fail, clientVars, serverVars
<1>. QED
  BY <1>1, <1>2, <1>3 DEF Next

\* A step of call c's statement, or the call itself.
Step(c) == (\E e \in Requests : Call(c, e)) \/ Server(c) \/ Abort(c)

\* What a step does to its statement, and to nothing of the others.
LEMMA StepMoves ==
    ASSUME TypeOK, NEW c \in Calls, Step(c)
    PROVE  /\ \A d \in Calls \ {c} : txn'[d] = txn[d] /\ request'[d] = request[d]
           /\ txn[c] # "none" => request'[c] = request[c]
           /\ <<txn[c], txn'[c]>> \in
                 {<<"none", "sent">>, <<"sent", "planned">>, <<"planned", "committed">>,
                  <<"planned", "probed">>, <<"probed", "clashed">>, <<"probed", "held">>,
                  <<"held", "inserted">>, <<"clashed", "doomed">>, <<"held", "rejected">>,
                  <<"clashed", "rejected">>, <<"doomed", "planned">>,
                  <<"inserted", "committed">>} \cup (Running \X {"aborted"})
<1>1. ASSUME NEW e \in Requests, Call(c, e)
      PROVE  /\ \A d \in Calls \ {c} : txn'[d] = txn[d] /\ request'[d] = request[d]
             /\ txn[c] = "none" /\ txn'[c] = "sent"
  BY <1>1 DEF Call, TypeOK
<1>2. CASE Server(c) \/ Abort(c)
  <2>1. /\ request' = request
        /\ \A d \in Calls \ {c} : txn'[d] = txn[d]
    BY <1>2 DEF TypeOK, Server, ReadMax, ReturnExisting, ProbeId, EnterId, EnterVersion,
                Reject, ProbeAgain, Commit, Abort, clientVars
  <2>2. CASE ReadMax(c) \/ ReturnExisting(c) \/ ProbeId(c)
    BY <2>1, <2>2 DEF TypeOK, ReadMax, ReturnExisting, ProbeId
  <2>3. CASE EnterId(c) \/ EnterVersion(c) \/ Reject(c)
    BY <2>1, <2>3 DEF TypeOK, EnterId, EnterVersion, Reject
  <2>4. CASE ProbeAgain(c) \/ Commit(c) \/ Abort(c)
    BY <2>1, <2>4 DEF TypeOK, ProbeAgain, Commit, Abort
  <2>. QED
    BY <1>2, <2>2, <2>3, <2>4 DEF Server
<1>. QED
  BY <1>1, <1>2 DEF Step

\* Every step of the store is a call's or leaves all statements as they are.
LEMMA WhoSteps ==
    ASSUME TypeOK, [Next]_vars
    PROVE  (\E c \in Calls : Step(c)) \/ UNCHANGED <<events, txn, request>>
BY DEF Next, vars, Step, Succeed, Fail, serverVars

\* A statement's own step, whatever the others are doing.
LEMMA OwnAdvances ==
    ASSUME TypeOK, NEW c \in Calls, Step(c)
    PROVE  Contenders(c)' = Contenders(c) /\ Stage(c)' < Stage(c)
<1>1. \A d \in Calls \ {c} : txn'[d] = txn[d] /\ request'[d] = request[d]
  BY StepMoves
<1>2. Contenders(c)' = Contenders(c)
  BY <1>1 DEF Contenders
<1>3. CASE txn[c] = "planned" /\ txn'[c] = "probed"
  <2>1. ProbeId(c)
    BY <1>3 DEF Step, Call, Server, ReadMax, ReturnExisting, EnterId, EnterVersion,
                Reject, ProbeAgain, Commit, Abort, TypeOK
  <2>2. /\ ~ Stored(events, request[c].id)
        /\ \A d \in Calls \ {c} : ~ (HoldsId(d) /\ request[d].id = request[c].id)
        /\ events' = events /\ request'[c] = request[c]
    BY <2>1 DEF ProbeId, WaitsFor, clientVars
  <2>3. ~ IdTaken(c)'
    BY <1>1, <2>2 DEF IdTaken, Stored, HoldsId
  <2>. QED
    BY <1>2, <1>3, <2>2, <2>3 DEF Stage
<1>4. CASE txn[c] = "probed" /\ txn'[c] \in {"clashed", "held"}
  <2>1. EnterId(c)
    BY <1>4 DEF Step, Call, Server, ReadMax, ReturnExisting, ProbeId, EnterVersion,
                Reject, ProbeAgain, Commit, Abort, TypeOK
  <2>2. txn'[c] = IF IdTaken(c) THEN "clashed" ELSE "held"
    BY <2>1 DEF EnterId, TypeOK
  <2>. QED
    BY <1>2, <1>4, <2>2 DEF Stage
<1>5. CASE /\ ~ (txn[c] = "planned" /\ txn'[c] = "probed")
           /\ ~ (txn[c] = "probed" /\ txn'[c] \in {"clashed", "held"})
  <2>1. \/ txn[c] = "none" /\ txn'[c] = "sent"
        \/ txn[c] \in {"sent", "doomed"} /\ txn'[c] = "planned"
        \/ txn[c] = "clashed" /\ txn'[c] = "doomed"
        \/ txn[c] = "held" /\ txn'[c] = "inserted"
        \/ txn[c] \in Running /\ txn'[c] \in {"committed", "rejected", "aborted"}
    BY <1>5, StepMoves DEF Running
  <2>. QED
    BY <1>2, <2>1 DEF Stage, Running
<1>. QED
  BY <1>3, <1>4, <1>5

\* A contender that enters an id free of a clash, or ends, is none any more.
LEMMA ContendersShrink ==
    ASSUME TypeOK, NEW c \in Calls, NEW d \in Calls, c # d, Step(c)
    PROVE  /\ Contenders(d)' \subseteq Contenders(d)
           /\ c \in Contenders(d) /\ txn'[c] \in {"held", "rejected", "committed", "aborted"}
                 => Contenders(d)' # Contenders(d)
<1>1. Contenders(d)' \ {c} = Contenders(d) \ {c}
  BY StepMoves DEF Contenders
<1>2. c \in Contenders(d)' => c \in Contenders(d)
  BY StepMoves DEF Contenders, Running
<1>3. txn'[c] \in {"held", "rejected", "committed", "aborted"} => c \notin Contenders(d)'
  BY DEF Contenders
<1>. QED
  BY <1>1, <1>2, <1>3

\* While no contender enters its id, nobody sets a statement back.
LEMMA OthersAdvance ==
    ASSUME TypeOK, NEW c \in Calls, NEW d \in Calls, c # d, Step(c),
           Contenders(d)' = Contenders(d)
    PROVE  Stage(d)' <= Stage(d)
<1>1. /\ \A b \in Calls \ {c} : txn'[b] = txn[b] /\ request'[b] = request[b]
      /\ txn'[d] = txn[d] /\ request'[d] = request[d]
  BY StepMoves
<1>2. events \subseteq events'
  BY DEF Step, Call, Server, ReadMax, ReturnExisting, ProbeId, EnterId, EnterVersion,
         Reject, ProbeAgain, Commit, Abort
<1>3. Stored(events, request[d].id) => Stored(events, request[d].id)'
  BY <1>1, <1>2 DEF Stored
<1>4. ASSUME txn[d] = "probed", IdTaken(d)' PROVE IdTaken(d)
  <2>1. CASE Stored(events, request[d].id)'
    <3>1. CASE events' = events
      BY <1>1, <2>1, <3>1 DEF IdTaken, Stored
    <3>2. CASE events' # events
      <4>1. txn[c] = "inserted" /\ events' = events \cup {NewRow(c)}
        BY <3>2 DEF Step, Call, Server, ReadMax, ReturnExisting, ProbeId, EnterId,
                    EnterVersion, Reject, ProbeAgain, Commit, Abort
      <4>2. request[d].id = request[c].id \/ Stored(events, request[d].id)
        BY <1>1, <2>1, <4>1 DEF Stored, NewRow
      <4>. QED
        BY <4>1, <4>2 DEF IdTaken, HoldsId
    <3>. QED
      BY <3>1, <3>2
  <2>2. CASE \E b \in Calls \ {d, c} : HoldsId(b)' /\ request'[b].id = request'[d].id
    BY <1>1, <2>2 DEF IdTaken, HoldsId
  <2>3. CASE HoldsId(c)' /\ request'[c].id = request'[d].id
    <3>1. CASE HoldsId(c)
      <4>1. request'[c] = request[c]
        BY <3>1, StepMoves DEF HoldsId
      <4>. QED
        BY <1>1, <2>3, <3>1, <4>1 DEF IdTaken
    <3>2. CASE ~ HoldsId(c)
      <4>1. txn[c] = "probed" /\ txn'[c] \in {"clashed", "held"} /\ request'[c] = request[c]
        BY <2>3, <3>2, StepMoves DEF HoldsId, Running
      <4>2. c \in Contenders(d)
        BY <4>1 DEF Contenders
      <4>3. EnterId(c) /\ IdTaken(c)
        <5>1. EnterId(c)
          BY <4>1 DEF Step, Call, Server, ReadMax, ReturnExisting, ProbeId, EnterVersion,
                      Reject, ProbeAgain, Commit, Abort, TypeOK
        <5>2. txn'[c] # "held"
          BY <4>2, ContendersShrink
        <5>. QED
          BY <5>1, <5>2 DEF EnterId, TypeOK
      <4>4. request[c].id = request[d].id
        BY <1>1, <2>3, <4>1
      <4>. QED
        BY <1>4, <4>3, <4>4 DEF IdTaken, HoldsId
    <3>. QED
      BY <3>1, <3>2
  <2>. QED
    BY <1>1, <1>4, <2>1, <2>2, <2>3 DEF IdTaken
<1>. QED
  BY <1>1, <1>3, <1>4 DEF Stage

\* A statement goes from the id's index to the version's and on, whatever the
\* others do; only a contender that enters its id may have it probe once more.
THEOREM Advances == Spec => StatementAdvances
<1>1. ASSUME TypeOK, [Next]_vars, NEW d \in Calls
      PROVE  ComesCloser(d)
  <2>0. Stage(d) \in Nat /\ Stage(d)' \in Nat
    BY DEF Stage
  <2>1. CASE UNCHANGED <<events, txn, request>>
    <3>1. Contenders(d)' = Contenders(d)
      BY <2>1 DEF Contenders
    <3>2. IdTaken(d)' = IdTaken(d)
      BY <2>1 DEF IdTaken, Stored, HoldsId
    <3>3. Stage(d)' = Stage(d)
      BY <2>1, <3>2 DEF Stage, Stored
    <3>. QED
      BY <2>0, <2>1, <3>1, <3>3 DEF ComesCloser
  <2>2. CASE Step(d)
    BY <2>0, <2>2, <1>1, OwnAdvances DEF ComesCloser
  <2>3. ASSUME NEW c \in Calls, c # d, Step(c)
        PROVE  ComesCloser(d)
    BY <1>1, <2>3, ContendersShrink, OthersAdvance, StepMoves DEF ComesCloser
  <2>. QED
    BY <1>1, <2>1, <2>2, <2>3, WhoSteps
<1>2. TypeOK /\ [Next]_vars => [\A c \in Calls : ComesCloser(c)]_vars
  BY <1>1
<1>. QED
  BY <1>2, TypeCorrect, PTL DEF Spec, StatementAdvances

(***************************************************************************)
(* No circle of statements that wait for each other.  One that probes has  *)
(* no entry and waits for those that have; one that enters its version has *)
(* its id's entry and waits for those that have both; one that has both    *)
(* waits for nobody, since a row that met its id is withdrawn first.       *)
(***************************************************************************)
THEOREM NoDeadlock == Spec => []NoCircularWait
<1>1. NoCircularWait
  <2> SUFFICES ASSUME NEW W \in SUBSET {c \in Calls : txn[c] \in Running}, W # {}
               PROVE  \E c \in W : WaitsFor(c) \cap W = {}
    BY DEF NoCircularWait
  <2>1. CASE \E c \in W : txn[c] \notin {"planned", "held", "clashed"}
    <3>1. PICK c \in W : txn[c] \notin {"planned", "held", "clashed"}
      BY <2>1
    <3>2. WaitsFor(c) = {}
      BY <3>1 DEF WaitsFor
    <3>. QED
      BY <3>2
  <2>2. CASE /\ \A c \in W : txn[c] \in {"planned", "held", "clashed"}
             /\ \E c \in W : txn[c] # "planned"
    <3>1. PICK c \in W : txn[c] \in {"held", "clashed"}
      BY <2>2
    <3>2. \A d \in WaitsFor(c) : HoldsVersion(d)
      BY <3>1 DEF WaitsFor
    <3>3. \A d \in W : ~ HoldsVersion(d)
      BY <2>2 DEF HoldsVersion
    <3>. QED
      BY <3>2, <3>3
  <2>3. CASE \A c \in W : txn[c] = "planned"
    <3>1. PICK c \in W : txn[c] = "planned"
      BY <2>3
    <3>2. \A d \in WaitsFor(c) : HoldsId(d)
      BY <3>1 DEF WaitsFor
    <3>3. \A d \in W : ~ HoldsId(d)
      BY <2>3 DEF HoldsId
    <3>. QED
      BY <3>2, <3>3
  <2>. QED
    BY <2>1, <2>2, <2>3
<1>. QED
  BY <1>1, PTL

-----------------------------------------------------------------------------
\* A version that was answered is that of the row with the id of the call.
AnsweredHasRow ==
    \A c \in Calls : reply[c] = "ok" =>
       \E r \in events : r.id = request[c].id /\ r.version = assigned[c]

LEMMA NextAnswered == IInv /\ AnsweredHasRow /\ [Next]_vars => AnsweredHasRow'
<1> SUFFICES ASSUME IInv, AnsweredHasRow, [Next]_vars, NEW d \in Calls, reply'[d] = "ok"
             PROVE  \E r \in events' : r.id = request'[d].id /\ r.version = assigned'[d]
  BY DEF AnsweredHasRow
<1>1. events \subseteq events' /\ \A c \in Calls : txn[c] # "none" => request'[c] = request[c]
  BY RowsStay DEF IInv
<1>2. CASE reply[d] = "ok"
  <2>1. PICK r \in events : r.id = request[d].id /\ r.version = assigned[d]
    BY <1>2 DEF AnsweredHasRow
  <2>2. request'[d] = request[d]
    BY <1>1, <1>2 DEF IInv, OkIsCommitted
  <2>3. assigned'[d] = assigned[d]
    BY <1>2 DEF IInv, TypeOK, Next, vars, Call, Server, ReadMax, ReturnExisting, ProbeId,
       EnterId, EnterVersion, Reject, ProbeAgain, Commit, Abort, Succeed, Fail, serverVars,
       clientVars
  <2>. QED
    BY <1>1, <2>1, <2>2, <2>3
<1>3. CASE reply[d] # "ok"
  <2>1. PICK c \in Calls : Succeed(c)
    BY <1>3 DEF IInv, TypeOK, Next, vars, Call, Server, ReadMax, ReturnExisting, ProbeId,
       EnterId, EnterVersion, Reject, ProbeAgain, Commit, Abort, Fail, serverVars,
       clientVars
  <2>2. c = d /\ assigned'[d] = next[d] /\ request' = request /\ events' = events
        /\ txn[d] = "committed"
    BY <1>3, <2>1 DEF IInv, TypeOK, Succeed, serverVars
  <2>. QED
    BY <2>2 DEF IInv, CommittedHasRow
<1>. QED
  BY <1>2, <1>3

(***************************************************************************)
(* Idempotence as the caller sees it: all successful Appends of one event  *)
(* id, at the same time or after one another, are answered with the same   *)
(* version, that of the one row that has the id (store.go:134-138).        *)
(***************************************************************************)
THEOREM AnswersAgree ==
    Spec => [](\A c, d \in Calls :
                  (reply[c] = "ok" /\ reply[d] = "ok" /\ request[c].id = request[d].id)
                     => assigned[c] = assigned[d])
<1>1. Init => AnsweredHasRow
  BY DEF Init, AnsweredHasRow
<1>2. IInv /\ AnsweredHasRow =>
         \A c, d \in Calls :
            (reply[c] = "ok" /\ reply[d] = "ok" /\ request[c].id = request[d].id)
               => assigned[c] = assigned[d]
  BY DEF IInv, IdsUnique, AnsweredHasRow
<1>. QED
  BY <1>1, <1>2, NextAnswered, Invariance, PTL DEF Spec
=============================================================================
