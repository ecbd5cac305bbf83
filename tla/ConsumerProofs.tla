---------------------------- MODULE ConsumerProofs ----------------------------
(***************************************************************************)
(* Proof that the consumer group's offset passes no message unseen, for    *)
(* any number of instances, faults and rebalances and any partition.       *)
(*                                                                         *)
(* NothingUnseen is not inductive: a commit sets the offset to the message *)
(* the instance has in hand, so everything up to that message must have    *)
(* been seen (InHandSeen).  That holds because the reader of an owner      *)
(* resumes at the committed offset and hands out one message after the     *)
(* other (Resumed), and it stays true of a message in hand when the        *)
(* partition has been taken away, because what has been seen stays seen.   *)
(* An owner's reader leaves nothing unseen behind for the same reason.     *)
(***************************************************************************)
EXTENDS Consumer, TLAPS

\* The messages of which nothing is known yet.
Unseen == {m \in 1 .. Len(log) : ~ (Handled(m) \/ m \in skipped)}

SeenUpTo(n) == \A m \in 1 .. n : m \notin Unseen

\* All messages before the one in hand were seen, and after index or
\* dead-letter queue (or if it does not decode) that one too.
InHandSeen ==
    \A c \in Instances :
       /\ pc[c] \in {"handling", "routing"} =>
             /\ cur[c] \in 1 .. Len(log)
             /\ log[cur[c]] \in Events
             /\ SeenUpTo(cur[c] - 1)
       /\ pc[c] \in {"skipping", "committing"} => SeenUpTo(cur[c])

\* The owner's reader stands at the message in hand, or all before it is seen.
Resumed ==
    \A c \in Instances :
       owner = c /\ pc[c] \in Alive =>
          \/ SeenUpTo(pos[c])
          \/ pc[c] \in {"handling", "routing"} /\ pos[c] = cur[c]

IInv == TypeOK /\ SeenUpTo(committed) /\ InHandSeen /\ Resumed

-----------------------------------------------------------------------------
\* The partition and the sinks only grow.
Grows == /\ Len(log') \in Nat /\ Len(log) <= Len(log')
         /\ \A m \in 1 .. Len(log) : log'[m] = log[m]
         /\ index \subseteq index' /\ dlq \subseteq dlq' /\ skipped \subseteq skipped'

LEMMA NextGrows == TypeOK /\ [Next]_vars => Grows
<1> SUFFICES ASSUME TypeOK, [Next]_vars PROVE Grows
  OBVIOUS
<1>0. Len(log) \in Nat
  BY DEF TypeOK
<1>1. ASSUME NEW m \in Events \cup {Poison}, Produce(m) PROVE Grows
  BY <1>0, <1>1 DEF Produce, Grows, TypeOK, sinks
<1>2. ASSUME NEW c \in Instances, Loop(c) PROVE Grows
  BY <1>0, <1>2 DEF Grows, sinks, Loop, KafkaCall, IndexCall, Fetch, FetchFails, Index, IndexFails,
     Route, RouteFails, Commit, CommitFails
<1>3. ASSUME NEW c \in Instances,
             FirstAssign(c) \/ Rebalance(c) \/ Terminate(c) \/ Crash(c) \/ Restart(c)
      PROVE Grows
  BY <1>0, <1>3 DEF Grows, sinks, FirstAssign, Rebalance, Assign, Terminate, Crash, Restart
<1>4. CASE UNCHANGED vars
  BY <1>0, <1>4 DEF Grows, vars, sinks
<1>. QED
  BY <1>1, <1>2, <1>3, <1>4 DEF Next

\* A message that was seen is seen forever.
LEMMA SeenStays ==
    ASSUME TypeOK, Grows, NEW m \in 1 .. Len(log), m \notin Unseen
    PROVE  m \notin Unseen'
<1>1. log'[m] = log[m] /\ m \in 1 .. Len(log')
  BY DEF Grows, TypeOK
<1>2. Handled(m) \/ m \in skipped
  BY DEF Unseen
<1>3. (Handled(m) \/ m \in skipped)'
  BY <1>1, <1>2 DEF Grows, Handled
<1>. QED
  BY <1>3 DEF Unseen

LEMMA InitIInv == Init => IInv
BY NoneAssumption, BoundsAssumption
   DEF Init, IInv, TypeOK, InHandSeen, Resumed, SeenUpTo, Alive, Gone

LEMMA StepIInv == IInv /\ [Next]_vars => IInv'
<1> SUFFICES ASSUME IInv, [Next]_vars PROVE IInv'
  OBVIOUS
<1> USE DEF IInv
<1>a. Grows
  BY NextGrows
<1>b. \A m \in 1 .. Len(log) : m \notin Unseen => m \notin Unseen'
  BY <1>a, SeenStays
<1>c. Len(log) \in Nat
  BY DEF TypeOK
<1>1. ASSUME NEW m \in Events \cup {Poison}, Produce(m) PROVE IInv'
  <2>1. TypeOK'
    BY <1>1, BoundsAssumption DEF Produce, TypeOK, InHandSeen, Alive, Gone, sinks
  <2>2. SeenUpTo(committed)'
    BY <1>1, <1>b, <1>c DEF Produce, TypeOK, SeenUpTo, InHandSeen, sinks
  <2>3. InHandSeen'
    BY <1>1, <1>b, <1>c DEF Produce, TypeOK, SeenUpTo, InHandSeen, Resumed, Alive, Gone, sinks
  <2>4. Resumed'
    BY <1>1, <1>b, <1>c DEF Produce, TypeOK, SeenUpTo, InHandSeen, Resumed, Alive, Gone, sinks
  <2>. QED
    BY <2>1, <2>2, <2>3, <2>4
<1>2. ASSUME NEW c \in Instances, Fetch(c) PROVE IInv'
  <2>0. log[pos[c] + 1] = Poison => pos[c] + 1 \notin Unseen'
    BY <1>2 DEF Fetch, Unseen, Handled
  <2>1. TypeOK'
    BY <1>2, BoundsAssumption DEF Fetch, TypeOK, InHandSeen, Alive, Gone, sinks
  <2>2. SeenUpTo(committed)'
    BY <1>2, <1>b, <1>c DEF Fetch, TypeOK, SeenUpTo, InHandSeen, sinks
  <2>3. InHandSeen'
    BY <1>2, <1>b, <1>c, <2>0 DEF Fetch, TypeOK, SeenUpTo, InHandSeen, Resumed, Alive, Gone, sinks
  <2>4. Resumed'
    BY <1>2, <1>b, <1>c, <2>0 DEF Fetch, TypeOK, SeenUpTo, InHandSeen, Resumed, Alive, Gone, sinks
  <2>. QED
    BY <2>1, <2>2, <2>3, <2>4
<1>3. ASSUME NEW c \in Instances, FetchFails(c) PROVE IInv'
  <2>1. TypeOK'
    BY <1>3, BoundsAssumption DEF FetchFails, TypeOK, InHandSeen, Alive, Gone, sinks
  <2>2. SeenUpTo(committed)'
    BY <1>3, <1>b, <1>c DEF FetchFails, TypeOK, SeenUpTo, InHandSeen, sinks
  <2>3. InHandSeen'
    BY <1>3, <1>b, <1>c DEF FetchFails, TypeOK, SeenUpTo, InHandSeen, Resumed, Alive, Gone, sinks
  <2>4. Resumed'
    BY <1>3, <1>b, <1>c DEF FetchFails, TypeOK, SeenUpTo, InHandSeen, Resumed, Alive, Gone, sinks
  <2>. QED
    BY <2>1, <2>2, <2>3, <2>4
<1>4. ASSUME NEW c \in Instances, Index(c) PROVE IInv'
  <2>0. cur[c] \notin Unseen'
    BY <1>4 DEF Index, InHandSeen, Unseen, Handled
  <2>1. TypeOK'
    BY <1>4, BoundsAssumption DEF Index, TypeOK, InHandSeen, Alive, Gone, sinks
  <2>2. SeenUpTo(committed)'
    BY <1>4, <1>b, <1>c DEF Index, TypeOK, SeenUpTo, InHandSeen, sinks
  <2>3. InHandSeen'
    BY <1>4, <1>b, <1>c, <2>0 DEF Index, TypeOK, SeenUpTo, InHandSeen, Resumed, Alive, Gone, sinks
  <2>4. Resumed'
    BY <1>4, <1>b, <1>c, <2>0 DEF Index, TypeOK, SeenUpTo, InHandSeen, Resumed, Alive, Gone, sinks
  <2>. QED
    BY <2>1, <2>2, <2>3, <2>4
<1>5. ASSUME NEW c \in Instances, IndexFails(c) PROVE IInv'
  <2>1. TypeOK'
    BY <1>5, BoundsAssumption DEF IndexFails, TypeOK, InHandSeen, Alive, Gone, sinks
  <2>2. SeenUpTo(committed)'
    BY <1>5, <1>b, <1>c DEF IndexFails, TypeOK, SeenUpTo, InHandSeen, sinks
  <2>3. InHandSeen'
    BY <1>5, <1>b, <1>c DEF IndexFails, TypeOK, SeenUpTo, InHandSeen, Resumed, Alive, Gone, sinks
  <2>4. Resumed'
    BY <1>5, <1>b, <1>c DEF IndexFails, TypeOK, SeenUpTo, InHandSeen, Resumed, Alive, Gone, sinks
  <2>. QED
    BY <2>1, <2>2, <2>3, <2>4
<1>6. ASSUME NEW c \in Instances, Route(c) PROVE IInv'
  <2>0. cur[c] \notin Unseen'
    BY <1>6 DEF Route, InHandSeen, Unseen, Handled
  <2>1. TypeOK'
    BY <1>6, BoundsAssumption DEF Route, TypeOK, InHandSeen, Alive, Gone, sinks
  <2>2. SeenUpTo(committed)'
    BY <1>6, <1>b, <1>c DEF Route, TypeOK, SeenUpTo, InHandSeen, sinks
  <2>3. InHandSeen'
    BY <1>6, <1>b, <1>c, <2>0 DEF Route, TypeOK, SeenUpTo, InHandSeen, Resumed, Alive, Gone, sinks
  <2>4. Resumed'
    BY <1>6, <1>b, <1>c, <2>0 DEF Route, TypeOK, SeenUpTo, InHandSeen, Resumed, Alive, Gone, sinks
  <2>. QED
    BY <2>1, <2>2, <2>3, <2>4
<1>7. ASSUME NEW c \in Instances, RouteFails(c) PROVE IInv'
  <2>0. cur[c] \notin Unseen'
    BY <1>7 DEF RouteFails, InHandSeen, Unseen, Handled
  <2>1. TypeOK'
    BY <1>7, BoundsAssumption DEF RouteFails, TypeOK, InHandSeen, Alive, Gone, sinks
  <2>2. SeenUpTo(committed)'
    BY <1>7, <1>b, <1>c DEF RouteFails, TypeOK, SeenUpTo, InHandSeen, sinks
  <2>3. InHandSeen'
    BY <1>7, <1>b, <1>c, <2>0 DEF RouteFails, TypeOK, SeenUpTo, InHandSeen, Resumed, Alive, Gone, sinks
  <2>4. Resumed'
    BY <1>7, <1>b, <1>c, <2>0 DEF RouteFails, TypeOK, SeenUpTo, InHandSeen, Resumed, Alive, Gone, sinks
  <2>. QED
    BY <2>1, <2>2, <2>3, <2>4
<1>8. ASSUME NEW c \in Instances, Commit(c) PROVE IInv'
  <2>1. TypeOK'
    BY <1>8, BoundsAssumption DEF Commit, TypeOK, InHandSeen, Alive, Gone, sinks
  <2>2. SeenUpTo(committed)'
    BY <1>8, <1>b, <1>c DEF Commit, TypeOK, SeenUpTo, InHandSeen, sinks
  <2>3. InHandSeen'
    BY <1>8, <1>b, <1>c DEF Commit, TypeOK, SeenUpTo, InHandSeen, Resumed, Alive, Gone, sinks
  <2>4. Resumed'
    BY <1>8, <1>b, <1>c DEF Commit, TypeOK, SeenUpTo, InHandSeen, Resumed, Alive, Gone, sinks
  <2>. QED
    BY <2>1, <2>2, <2>3, <2>4
<1>9. ASSUME NEW c \in Instances, CommitFails(c) PROVE IInv'
  <2>1. TypeOK'
    BY <1>9, BoundsAssumption DEF CommitFails, TypeOK, InHandSeen, Alive, Gone, sinks
  <2>2. SeenUpTo(committed)'
    BY <1>9, <1>b, <1>c DEF CommitFails, TypeOK, SeenUpTo, InHandSeen, sinks
  <2>3. InHandSeen'
    BY <1>9, <1>b, <1>c DEF CommitFails, TypeOK, SeenUpTo, InHandSeen, Resumed, Alive, Gone, sinks
  <2>4. Resumed'
    BY <1>9, <1>b, <1>c DEF CommitFails, TypeOK, SeenUpTo, InHandSeen, Resumed, Alive, Gone, sinks
  <2>. QED
    BY <2>1, <2>2, <2>3, <2>4
<1>10. ASSUME NEW c \in Instances, FirstAssign(c) PROVE IInv'
  <2>1. TypeOK'
    BY <1>10, BoundsAssumption DEF FirstAssign, Assign, TypeOK, InHandSeen, Alive, Gone, sinks
  <2>2. SeenUpTo(committed)'
    BY <1>10, <1>b, <1>c DEF FirstAssign, Assign, TypeOK, SeenUpTo, InHandSeen, sinks
  <2>3. InHandSeen'
    BY <1>10, <1>b, <1>c DEF FirstAssign, Assign, TypeOK, SeenUpTo, InHandSeen, Resumed, Alive, Gone, sinks
  <2>4. Resumed'
    BY <1>10, <1>b, <1>c DEF FirstAssign, Assign, TypeOK, SeenUpTo, InHandSeen, Resumed, Alive, Gone, sinks
  <2>. QED
    BY <2>1, <2>2, <2>3, <2>4
<1>11. ASSUME NEW c \in Instances, Rebalance(c) PROVE IInv'
  <2>1. TypeOK'
    BY <1>11, BoundsAssumption DEF Rebalance, Assign, TypeOK, InHandSeen, Alive, Gone, sinks
  <2>2. SeenUpTo(committed)'
    BY <1>11, <1>b, <1>c DEF Rebalance, Assign, TypeOK, SeenUpTo, InHandSeen, sinks
  <2>3. InHandSeen'
    BY <1>11, <1>b, <1>c DEF Rebalance, Assign, TypeOK, SeenUpTo, InHandSeen, Resumed, Alive, Gone, sinks
  <2>4. Resumed'
    BY <1>11, <1>b, <1>c DEF Rebalance, Assign, TypeOK, SeenUpTo, InHandSeen, Resumed, Alive, Gone, sinks
  <2>. QED
    BY <2>1, <2>2, <2>3, <2>4
<1>12. ASSUME NEW c \in Instances, Terminate(c) PROVE IInv'
  <2>1. TypeOK'
    BY <1>12, BoundsAssumption DEF Terminate, TypeOK, InHandSeen, Alive, Gone, sinks
  <2>2. SeenUpTo(committed)'
    BY <1>12, <1>b, <1>c DEF Terminate, TypeOK, SeenUpTo, InHandSeen, sinks
  <2>3. InHandSeen'
    BY <1>12, <1>b, <1>c DEF Terminate, TypeOK, SeenUpTo, InHandSeen, Resumed, Alive, Gone, sinks
  <2>4. Resumed'
    BY <1>12, <1>b, <1>c DEF Terminate, TypeOK, SeenUpTo, InHandSeen, Resumed, Alive, Gone, sinks
  <2>. QED
    BY <2>1, <2>2, <2>3, <2>4
<1>13. ASSUME NEW c \in Instances, Crash(c) PROVE IInv'
  <2>1. TypeOK'
    BY <1>13, BoundsAssumption DEF Crash, TypeOK, InHandSeen, Alive, Gone, sinks
  <2>2. SeenUpTo(committed)'
    BY <1>13, <1>b, <1>c DEF Crash, TypeOK, SeenUpTo, InHandSeen, sinks
  <2>3. InHandSeen'
    BY <1>13, <1>b, <1>c DEF Crash, TypeOK, SeenUpTo, InHandSeen, Resumed, Alive, Gone, sinks
  <2>4. Resumed'
    BY <1>13, <1>b, <1>c DEF Crash, TypeOK, SeenUpTo, InHandSeen, Resumed, Alive, Gone, sinks
  <2>. QED
    BY <2>1, <2>2, <2>3, <2>4
<1>14. ASSUME NEW c \in Instances, Restart(c) PROVE IInv'
  <2>1. TypeOK'
    BY <1>14, BoundsAssumption DEF Restart, TypeOK, InHandSeen, Alive, Gone, sinks
  <2>2. SeenUpTo(committed)'
    BY <1>14, <1>b, <1>c DEF Restart, TypeOK, SeenUpTo, InHandSeen, sinks
  <2>3. InHandSeen'
    BY <1>14, <1>b, <1>c DEF Restart, TypeOK, SeenUpTo, InHandSeen, Resumed, Alive, Gone, sinks
  <2>4. Resumed'
    BY <1>14, <1>b, <1>c, NoneAssumption DEF Restart, TypeOK, SeenUpTo, InHandSeen, Resumed, Alive, Gone, sinks
  <2>. QED
    BY <2>1, <2>2, <2>3, <2>4
<1>15. CASE UNCHANGED vars
  BY <1>15 DEF vars, sinks, TypeOK, SeenUpTo, Unseen, Handled, InHandSeen, Resumed
<1>. QED
  BY <1>1, <1>2, <1>3, <1>4, <1>5, <1>6, <1>7, <1>8, <1>9, <1>10, <1>11, <1>12,
     <1>13, <1>14, <1>15
  DEF Next, Loop, KafkaCall, IndexCall

-----------------------------------------------------------------------------
THEOREM Invariance == Spec => []IInv
BY InitIInv, StepIInv, PTL DEF Spec

(***************************************************************************)
(* Every state of the group is well-typed: in particular an offset, a      *)
(* reader and a message in hand never stand past the partition's end.      *)
(***************************************************************************)
THEOREM TypeCorrect == Spec => []TypeOK
<1>1. IInv => TypeOK
  BY DEF IInv
<1>. QED
  BY Invariance, <1>1, PTL

(***************************************************************************)
(* At-least-once: whatever instances crash, stop, lose the partition or    *)
(* commit late, the group's offset has passed only messages that were      *)
(* indexed, dead-lettered, undecodable or logged as skipped.               *)
(***************************************************************************)
THEOREM OffsetPassesNothingUnseen == Spec => []NothingUnseen
<1>1. IInv => NothingUnseen
  BY DEF IInv, TypeOK, SeenUpTo, Unseen, NothingUnseen
<1>. QED
  BY Invariance, <1>1, PTL

(***************************************************************************)
(* An owner that asks for the next message has left none unseen behind its *)
(* reader, wherever it resumed and whoever else still has a message of the *)
(* partition in hand.                                                      *)
(***************************************************************************)
THEOREM ReaderLeavesNothing == Spec => []OwnerLeavesNothing
<1>1. ASSUME IInv PROVE OwnerLeavesNothing
  <2> SUFFICES ASSUME NEW c \in Instances, owner = c, pc[c] = "fetching",
                      NEW m \in 1 .. pos[c]
               PROVE  Handled(m) \/ m \in skipped
    BY DEF OwnerLeavesNothing
  <2>1. SeenUpTo(pos[c])
    BY <1>1 DEF IInv, Resumed, Alive
  <2>2. m \in 1 .. Len(log)
    BY <1>1 DEF IInv, TypeOK
  <2> QED
    BY <2>1, <2>2 DEF SeenUpTo, Unseen
<1> QED
  BY Invariance, <1>1, PTL
=============================================================================
