---------------------------- MODULE PagingProofs ----------------------------
(***************************************************************************)
(* Proof that a reader who pages to the end misses nothing, for any number *)
(* of events, times, limits and result windows.                            *)
(*                                                                         *)
(* NothingMissed speaks of the end.  While the reader is on its way, an    *)
(* event it could have been given at its start and has not been given has  *)
(* at least as many rows ahead of it as the reader has skipped (Ranked):   *)
(* rows only arrive, so the events ahead of it only grow in number, and a  *)
(* page gives it every event whose turn has come.                          *)
(***************************************************************************)
EXTENDS Paging, FiniteSetTheorems, TLAPS

Endpoints == FromStore \cup FromIndex

\* The rows that a query puts ahead of event x.
Ahead(x) == {y \in Visible(endpoint) : Precedes(y, x)}

Finite == IsFiniteSet(Stored)

NotStarted == phase = "idle" => offset = 0 /\ seen = {} /\ before = {}

\* What was visible at the start still is.
Started == phase # "idle" => endpoint \in Endpoints /\ before \subseteq Visible(endpoint)

Ranked ==
    phase = "reading" /\ NoTies =>
       \A x \in before \ seen : offset <= Cardinality(Ahead(x))

IInv == /\ TypeOK
        /\ Finite
        /\ NotStarted
        /\ Started
        /\ Ranked
        /\ NothingMissed

-----------------------------------------------------------------------------
\* The orders of the queries and the place of a row in a result.

LEMMA VisibleStored ==
    ASSUME TypeOK, Finite, NEW e
    PROVE  /\ Visible(e) \subseteq Stored /\ IsFiniteSet(Visible(e))
           /\ Cardinality(Visible(e)) \in Nat
           /\ Cardinality(Visible(e)) <= Cardinality(Stored)
           /\ Cardinality(Stored) \in Nat
<1>1. Visible(e) \subseteq Stored
  BY DEF TypeOK, Visible
<1>. QED
  BY <1>1, FS_Subset, FS_CardinalityType DEF Finite

\* Without ties the rows of a query are in a strict total order.
LEMMA TotalOrder ==
    ASSUME TypeOK, NoTies, endpoint \in Endpoints, NEW x \in Stored, NEW y \in Stored
    PROVE  /\ x = y => ~ Precedes(x, y)
           /\ x # y => (Precedes(x, y) <=> ~ Precedes(y, x))
<1>1. /\ x \in Nat /\ y \in Nat /\ occurred[x] \in Nat /\ occurred[y] \in Nat
  BY EventsAssumption DEF TypeOK, Stored
<1>2. CASE endpoint \in {"timeline", "correlation"}
  <2>1. /\ Precedes(x, y) <=> occurred[x] > occurred[y]
        /\ Precedes(y, x) <=> occurred[y] > occurred[x]
    BY <1>2 DEF Precedes, TimelinePrecedes
  <2>. QED
    BY <1>1, <1>2, <2>1 DEF NoTies, FromIndex
<1>3. CASE endpoint = "causes"
  <2>1. /\ Precedes(x, y) <=> occurred[x] < occurred[y]
        /\ Precedes(y, x) <=> occurred[y] < occurred[x]
    BY <1>3 DEF Precedes, CausesPrecedes
  <2>. QED
    BY <1>1, <1>3, <2>1 DEF NoTies, FromIndex
<1>4. CASE endpoint = "list"
  <2>1. /\ Precedes(x, y) <=> ListPrecedes(x, y)
        /\ Precedes(y, x) <=> ListPrecedes(y, x)
    BY <1>4 DEF Precedes
  <2>. QED
    BY <1>1, <2>1 DEF ListPrecedes
<1>. QED
  BY <1>2, <1>3, <1>4 DEF Endpoints, FromStore, FromIndex

LEMMA ResultType ==
    ASSUME TypeOK, Finite, NEW e, NEW q \in Results(Visible(e))
    PROVE  /\ q \in Seq(Visible(e)) /\ Len(q) = Cardinality(Visible(e))
           /\ \A i, j \in 1 .. Len(q) : i # j => q[i] # q[j]
           /\ \A x \in Visible(e) : \E p \in 1 .. Len(q) : q[p] = x
<1>. DEFINE V == Visible(e)
            n == Cardinality(V)
<1>1. IsFiniteSet(V) /\ n \in Nat
  BY VisibleStored
<1>2. q \in [1 .. n -> V] /\ \A i, j \in 1 .. n : i # j => q[i] # q[j]
  BY DEF Results, SetToSeqs
<1>. HIDE DEF n, V
<1>3. q \in Seq(V) /\ Len(q) = n
  BY <1>1, <1>2
<1>4. q \in Surjection(1 .. n, V)
  <2>1. q \in Injection(1 .. n, V)
    BY <1>2 DEF Injection, IsInjective
  <2>2. Cardinality(1 .. n) = n
    BY <1>1, FS_Interval
  <2>. QED
    BY <1>1, <2>1, <2>2, FS_Injection DEF n
<1>. QED
  BY <1>2, <1>3, <1>4 DEF Surjection, V, n

\* A row's place is one more than the number of rows ahead of it.
LEMMA PlaceIsRank ==
    ASSUME IInv, phase = "reading", NoTies, NEW q \in Results(Visible(endpoint)),
           NEW p \in 1 .. Len(q)
    PROVE  Cardinality(Ahead(q[p])) = p - 1
<1>. USE DEF IInv
<1>1. /\ q \in Seq(Visible(endpoint)) /\ Len(q) \in Nat
      /\ \A i, j \in 1 .. Len(q) : i # j => q[i] # q[j]
      /\ \A y \in Visible(endpoint) : \E i \in 1 .. Len(q) : q[i] = y
  BY ResultType
<1>2. endpoint \in Endpoints /\ Visible(endpoint) \subseteq Stored
  BY VisibleStored DEF Started
<1>3. \A i \in 1 .. Len(q) : q[i] \in Visible(endpoint) /\ q[i] \in Stored
  BY <1>1, <1>2
<1>4. \A i, j \in 1 .. Len(q) : i < j => ~ Precedes(q[j], q[i])
  <2>1. DOMAIN q = 1 .. Len(q)
    BY <1>1
  <2>2. \A i, j \in DOMAIN q : i < j => ~ Precedes(q[j], q[i])
    BY DEF Results
  <2>. QED
    BY <2>1, <2>2
<1>5. \A i \in 1 .. Len(q) : Precedes(q[i], q[p]) <=> i < p
  <2>. SUFFICES ASSUME NEW i \in 1 .. Len(q) PROVE Precedes(q[i], q[p]) <=> i < p
    OBVIOUS
  <2>1. CASE i < p
    <3>1. q[i] # q[p] /\ ~ Precedes(q[p], q[i])
      BY <1>1, <1>4, <2>1
    <3>2. q[i] \in Stored /\ q[p] \in Stored
      BY <1>3
    <3>. QED
      BY <1>2, <2>1, <3>1, <3>2, TotalOrder
  <2>2. CASE i = p
    BY <1>2, <1>3, <2>2, TotalOrder
  <2>3. CASE i > p
    BY <1>4, <2>3
  <2>. QED
    BY <1>1, <2>1, <2>2, <2>3
<1>. DEFINE h == [i \in 1 .. (p - 1) |-> q[i]]
<1>6. h \in Bijection(1 .. (p - 1), Ahead(q[p]))
  <2>1. \A i \in 1 .. (p - 1) : i \in 1 .. Len(q) /\ i < p
    BY <1>1
  <2>2. h \in [1 .. (p - 1) -> Ahead(q[p])]
    BY <1>3, <1>5, <2>1 DEF Ahead
  <2>3. IsInjective(h)
    BY <1>1, <2>1 DEF IsInjective
  <2>4. ASSUME NEW y \in Ahead(q[p]) PROVE \E i \in 1 .. (p - 1) : h[i] = y
    <3>1. PICK i \in 1 .. Len(q) : q[i] = y
      BY <1>1 DEF Ahead
    <3>2. i < p
      BY <1>5, <3>1 DEF Ahead
    <3>. QED
      BY <1>1, <3>1, <3>2
  <2>. QED
    BY <2>2, <2>3, <2>4 DEF Bijection, Injection, Surjection
<1>7. IsFiniteSet(1 .. (p - 1)) /\ Cardinality(1 .. (p - 1)) = p - 1
  <2>1. 1 \in Int /\ p - 1 \in Int /\ (1 > p - 1 => p - 1 = 0)
    BY <1>1
  <2>. QED
    BY <2>1, FS_Interval
<1>. QED
  BY <1>6, <1>7, FS_Bijection DEF ExistsBijection

-----------------------------------------------------------------------------
LEMMA LimitIsPositive ==
    ASSUME TypeOK
    PROVE  Limit(asked) \in Nat \ {0} /\ Echoed(asked) = Limit(asked)
BY LimitsAssumption DEF TypeOK, Limit, Echoed

\* A page: what it holds and which places it covers.
LEMMA PageHolds ==
    ASSUME TypeOK, NEW S, NEW q \in Seq(S)
    PROVE  /\ Slice(q) \in Seq(S)
           /\ \A p \in 1 .. Len(q) :
                 offset < p /\ p <= offset + Limit(asked) => q[p] \in ToSet(Slice(q))
           /\ Len(q) >= offset + Limit(asked) => Len(Slice(q)) = Limit(asked)
<1>. DEFINE m == IF Len(q) < offset + Limit(asked) THEN Len(q) ELSE offset + Limit(asked)
<1>1. /\ offset \in Nat /\ Limit(asked) \in Nat \ {0} /\ Len(q) \in Nat
  BY LimitIsPositive DEF TypeOK
<1>2. /\ m \in Nat /\ m <= Len(q) /\ m <= offset + Limit(asked)
      /\ Slice(q) = SubSeq(q, offset + 1, m)
  BY <1>1 DEF Slice
<1>. HIDE DEF m
<1>3. Slice(q) \in Seq(S)
  BY <1>1, <1>2
<1>4. ASSUME NEW p \in 1 .. Len(q), offset < p, p <= offset + Limit(asked)
      PROVE  q[p] \in ToSet(Slice(q))
  <2>1. p <= m
    BY <1>1, <1>4 DEF m
  <2>2. p - offset \in DOMAIN Slice(q) /\ Slice(q)[p - offset] = q[p]
    BY <1>1, <1>2, <1>4, <2>1
  <2>. QED
    BY <2>2 DEF ToSet
<1>5. ASSUME Len(q) >= offset + Limit(asked) PROVE Len(Slice(q)) = Limit(asked)
  <2>1. m = offset + Limit(asked)
    BY <1>1, <1>5 DEF m
  <2>. QED
    BY <1>1, <1>2, <2>1
<1>. QED
  BY <1>3, <1>4, <1>5

\* An event whose turn has come is in the page.
LEMMA ReceiveIInv ==
    ASSUME IInv, phase = "reading", NEW q \in Results(Visible(endpoint)),
           NEW count \in 0 .. Cardinality(Stored), Receive(Slice(q), count)
    PROVE  IInv'
<1>. USE DEF IInv
<1>. DEFINE rows == Slice(q)
<1>1. /\ occurred' = occurred /\ indexed' = indexed /\ endpoint' = endpoint
      /\ asked' = asked /\ before' = before /\ page' = rows /\ total' = count
      /\ seen' = seen \cup ToSet(rows) /\ offset' = offset + Limit(asked)
      /\ phase' = IF Len(rows) < Limit(asked) THEN "done" ELSE "reading"
  BY LimitIsPositive DEF Receive, rowVars
<1>2. /\ q \in Seq(Visible(endpoint)) /\ Len(q) \in Nat
      /\ \A x \in Visible(endpoint) : \E p \in 1 .. Len(q) : q[p] = x
      /\ Visible(endpoint) \subseteq Stored
  BY ResultType, VisibleStored
<1>3. /\ rows \in Seq(Visible(endpoint)) /\ ToSet(rows) \subseteq Visible(endpoint)
  <2>1. rows \in Seq(Visible(endpoint))
    BY <1>2, PageHolds
  <2>. QED
    BY <2>1 DEF ToSet
<1>. HIDE DEF rows
<1>4. TypeOK'
  <2>1. offset' \in Nat
    BY <1>1, LimitIsPositive DEF TypeOK
  <2>2. page' \in Seq(Events)
    BY <1>1, <1>2, <1>3 DEF Stored
  <2>3. Stored' = Stored
    BY <1>1 DEF Stored
  <2>. QED
    BY <1>1, <1>2, <1>3, <2>1, <2>2, <2>3 DEF TypeOK
<1>5. Finite' /\ NotStarted' /\ Started'
  BY <1>1 DEF Finite, Stored, NotStarted, Started, Visible
<1>6. NoTies' <=> NoTies
  BY <1>1 DEF NoTies, Stored
<1>7. ASSUME NoTies, NEW x \in before \ seen'
      PROVE  offset' <= Cardinality(Ahead(x)) /\ phase' # "done"
  <2>1. x \in before \ seen /\ x \in Visible(endpoint)
    BY <1>1, <1>7 DEF Started
  <2>2. PICK p \in 1 .. Len(q) : q[p] = x
    BY <1>2, <2>1
  <2>3. Cardinality(Ahead(x)) = p - 1
    BY <1>7, <2>2, PlaceIsRank
  <2>4. offset <= p - 1
    BY <1>7, <2>1, <2>3 DEF Ranked
  <2>5. ~ (offset < p /\ p <= offset + Limit(asked))
    BY <1>1, <1>2, <1>7, <2>2, PageHolds DEF rows
  <2>6. p > offset + Limit(asked)
    <3>1. offset \in Nat /\ Limit(asked) \in Nat
      BY LimitIsPositive DEF TypeOK
    <3>. QED
      BY <2>4, <2>5, <3>1
  <2>7. Len(rows) = Limit(asked)
    <3>1. Len(q) >= offset + Limit(asked)
      <4>1. offset \in Nat /\ Limit(asked) \in Nat
        BY LimitIsPositive DEF TypeOK
      <4>. QED
        BY <1>2, <2>6, <4>1
    <3>. QED
      BY <1>2, <3>1, PageHolds DEF rows
  <2>8. phase' # "done"
    <3>1. Limit(asked) \in Nat
      BY LimitIsPositive
    <3>2. ~ Len(rows) < Limit(asked)
      BY <2>7, <3>1
    <3>. QED
      BY <1>1, <3>2
  <2>9. offset' <= Cardinality(Ahead(x))
    <3>1. offset \in Nat /\ Limit(asked) \in Nat
      BY LimitIsPositive DEF TypeOK
    <3>2. offset + Limit(asked) <= p - 1
      BY <2>6, <3>1
    <3>. QED
      BY <1>1, <2>3, <3>2
  <2>. QED
    BY <2>8, <2>9
<1>8. ASSUME NEW x PROVE Ahead(x)' = Ahead(x)
  BY <1>1 DEF Ahead, Visible, Stored, Precedes, TimelinePrecedes, CausesPrecedes, ListPrecedes
<1>9. Ranked'
  BY <1>1, <1>6, <1>7, <1>8 DEF Ranked
<1>10. NothingMissed'
  BY <1>1, <1>6, <1>7 DEF NothingMissed
<1>. QED
  BY <1>4, <1>5, <1>9, <1>10

\* Rows that arrive are ahead of an event or behind it.
LEMMA ArrivalIInv ==
    ASSUME IInv,
           \/ \E x \in Events, t \in Times \ {0} : Store(x, t)
           \/ \E x \in Events : Index(x)
    PROVE  IInv'
<1>. USE DEF IInv
<1>1. /\ endpoint' = endpoint /\ asked' = asked /\ offset' = offset /\ page' = page
      /\ total' = total /\ seen' = seen /\ before' = before /\ phase' = phase
  BY DEF Store, Index, readerVars
<1>2. /\ occurred' \in [Events -> Times \cup {0}]
      /\ Stored \subseteq Stored' /\ indexed \subseteq indexed'
      /\ indexed' \subseteq Stored'
      /\ \A x \in Stored : occurred'[x] = occurred[x]
  BY DEF Store, Index, TypeOK, Stored
<1>3. Finite'
  <2>1. \E z : Stored' \subseteq Stored \cup {z}
    BY DEF Store, Index, TypeOK, Stored
  <2>. QED
    BY <2>1, FS_AddElement, FS_Subset DEF Finite
<1>4. Cardinality(Stored) <= Cardinality(Stored')
      /\ Cardinality(Stored) \in Nat /\ Cardinality(Stored') \in Nat
  BY <1>2, <1>3, FS_Subset, FS_CardinalityType DEF Finite
<1>5. TypeOK'
  BY <1>1, <1>2, <1>4 DEF TypeOK
<1>6. Visible(endpoint) \subseteq Visible(endpoint)'
  BY <1>1, <1>2 DEF Visible
<1>7. NotStarted' /\ Started'
  BY <1>1, <1>6 DEF NotStarted, Started
<1>8. NoTies' => NoTies
  BY <1>1, <1>2 DEF NoTies
<1>9. ASSUME NEW x \in Stored
      PROVE  /\ Cardinality(Ahead(x)) \in Nat /\ Cardinality(Ahead(x)') \in Nat
             /\ Cardinality(Ahead(x)) <= Cardinality(Ahead(x)')
  <2>1. Ahead(x) \subseteq Ahead(x)'
    <3>. SUFFICES ASSUME NEW y \in Visible(endpoint), Precedes(y, x)
                  PROVE  y \in Visible(endpoint)' /\ Precedes(y, x)'
      BY DEF Ahead
    <3>1. y \in Stored
      BY VisibleStored
    <3>. QED
      BY <1>1, <1>2, <1>6, <3>1 DEF Precedes, TimelinePrecedes, CausesPrecedes, ListPrecedes
  <2>2. Ahead(x) \subseteq Stored /\ Ahead(x)' \subseteq Stored'
    BY <1>5, <1>2, VisibleStored DEF Ahead, Visible, TypeOK
  <2>. QED
    BY <1>3, <2>1, <2>2, FS_Subset, FS_CardinalityType DEF Finite
<1>10. Ranked'
  <2>. SUFFICES ASSUME phase = "reading", NoTies, NEW x \in before \ seen
                PROVE  offset <= Cardinality(Ahead(x)')
    BY <1>1, <1>8 DEF Ranked
  <2>1. offset <= Cardinality(Ahead(x)) /\ x \in Stored /\ offset \in Nat
    BY DEF Ranked, TypeOK
  <2>. QED
    BY <1>9, <2>1
<1>11. NothingMissed'
  BY <1>1, <1>8 DEF NothingMissed
<1>. QED
  BY <1>3, <1>5, <1>7, <1>10, <1>11

LEMMA StartIInv ==
    ASSUME IInv, NEW e \in Endpoints, NEW n \in 0 .. MaxLimit + 1, Start(e, n)
    PROVE  IInv'
<1>. USE DEF IInv
<1>1. /\ occurred' = occurred /\ indexed' = indexed /\ offset' = offset /\ page' = page
      /\ total' = total /\ seen' = seen /\ phase = "idle" /\ phase' = "reading"
      /\ endpoint' = e /\ asked' = n /\ before' = Visible(e)
  BY DEF Start, rowVars
<1>2. Stored' = Stored /\ Visible(endpoint)' = Visible(e)
  BY <1>1 DEF Stored, Visible
<1>3. TypeOK'
  <2>1. asked' \in Nat
    BY <1>1, LimitsAssumption
  <2>. QED
    BY <1>1, <1>2, <2>1, VisibleStored DEF TypeOK, Endpoints
<1>4. Finite' /\ NotStarted' /\ Started' /\ NothingMissed'
  BY <1>1, <1>2 DEF Finite, NotStarted, Started, NothingMissed
<1>5. Ranked'
  <2>1. ASSUME NEW x PROVE Cardinality(Ahead(x)') \in Nat
    <3>1. Ahead(x)' \subseteq Visible(e)
      BY <1>2 DEF Ahead
    <3>. QED
      BY <3>1, VisibleStored, FS_Subset, FS_CardinalityType
  <2>2. offset' = 0
    BY <1>1 DEF NotStarted
  <2>. QED
    BY <2>1, <2>2 DEF Ranked
<1>. QED
  BY <1>3, <1>4, <1>5

LEMMA InitIInv == Init => IInv
<1>. SUFFICES ASSUME Init PROVE IInv
  OBVIOUS
<1>1. Stored = {}
  BY DEF Init, Stored
<1>2. IsFiniteSet(Stored) /\ Cardinality(Stored) = 0
  BY <1>1, FS_EmptySet
<1>. QED
  BY <1>1, <1>2 DEF Init, IInv, TypeOK, Finite, NotStarted, Started, Ranked, NothingMissed

LEMMA NextIInv == IInv /\ [Next]_vars => IInv'
<1>. SUFFICES ASSUME IInv, [Next]_vars PROVE IInv'
  OBVIOUS
<1>. USE DEF IInv
<1>1. CASE UNCHANGED vars
  BY <1>1 DEF vars, rowVars, readerVars, TypeOK, Finite, NotStarted, Started, Ranked,
              NothingMissed, NoTies, Ahead, Visible, Stored, Precedes, TimelinePrecedes,
              CausesPrecedes, ListPrecedes
<1>2. CASE ReadStore
  <2>1. PICK q \in Results(Visible(endpoint)) :
           Receive(Slice(q), IF Slice(q) = <<>> THEN 0 ELSE Len(q))
    BY <1>2 DEF ReadStore
  <2>2. Len(q) \in 0 .. Cardinality(Stored) /\ 0 \in 0 .. Cardinality(Stored)
    BY ResultType, VisibleStored
  <2>. QED
    BY <1>2, <2>1, <2>2, ReceiveIInv DEF ReadStore
<1>3. CASE ReadIndex
  <2>1. PICK q \in Results(Visible(endpoint)) : Receive(Slice(q), Len(q))
    BY <1>3 DEF ReadIndex
  <2>2. Len(q) \in 0 .. Cardinality(Stored)
    BY ResultType, VisibleStored
  <2>. QED
    BY <1>3, <2>1, <2>2, ReceiveIInv DEF ReadIndex
<1>4. CASE Refused
  BY <1>4 DEF Refused, rowVars, TypeOK, Finite, NotStarted, Started, Ranked,
              NothingMissed, Visible, Stored
<1>. QED
  BY <1>1, <1>2, <1>3, <1>4, ArrivalIInv, StartIInv DEF Next, Endpoints

-----------------------------------------------------------------------------
THEOREM Invariance == Spec => []IInv
BY InitIInv, NextIInv, PTL DEF Spec

(***************************************************************************)
(* The reader's state is well-typed: in particular it is given nothing but *)
(* stored events, and no total is above their number.                      *)
(***************************************************************************)
THEOREM TypeCorrect == Spec => []TypeOK
<1>1. IInv => TypeOK
  BY DEF IInv
<1>. QED
  BY Invariance, <1>1, PTL

(***************************************************************************)
(* Paging by offset to the first page that is not full gives every event   *)
(* that was visible at the start, whatever arrives meanwhile, if no two    *)
(* rows can be put in either order.                                        *)
(***************************************************************************)
THEOREM ReaderMissesNothing == Spec => []NothingMissed
<1>1. IInv => NothingMissed
  BY DEF IInv
<1>. QED
  BY Invariance, <1>1, PTL
=============================================================================
