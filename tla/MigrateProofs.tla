----------------------------- MODULE MigrateProofs -----------------------------
(***************************************************************************)
(* Proofs for any number of runs and files: each file is executed once,    *)
(* after those before it, and a run that reports success has them all.     *)
(*                                                                         *)
(* A run has ended with the first files of its binary and no others        *)
(* (EndedFirst), all of which are recorded (EndedTracked): its next file   *)
(* is the one after them (NextFile), so that a commit records no file      *)
(* before its predecessors.  And what an open transaction has recorded is  *)
(* neither in the table nor in another open transaction (KeyHeld): so that *)
(* a commit records no file twice.                                         *)
(*                                                                         *)
(* The files recorded are then always the first ones, and runs implement   *)
(* Schema (Refinement).  No step takes a run back (RunsAdvance).           *)
(***************************************************************************)
EXTENDS Migrate, TLAPS

EndedFirst ==
    \A r \in Runs : /\ \E k \in 0 .. known[r] : ended[r] = 1 .. k
                    /\ pc[r] = "idle" => ended[r] = {}
                    /\ pc[r] \in {"executed", "recorded"} => Pending(r) # {}

EndedTracked ==
    \A r \in Runs : ended[r] \subseteq tracked /\ applied[r] \subseteq tracked

KeyHeld ==
    \A r \in Runs : pc[r] = "recorded" =>
        /\ File(r) \notin tracked
        /\ \A q \in Runs \ {r} : pc[q] = "recorded" => File(q) # File(r)

IInv == /\ TypeOK
        /\ EndedFirst
        /\ EndedTracked
        /\ KeyHeld
        /\ ExecutedOnce
        /\ AppliedInOrder

-----------------------------------------------------------------------------
\* The file a run is at comes right after those it has ended with.
LEMMA NextFile ==
  ASSUME TypeOK, EndedFirst, NEW r \in Runs, Pending(r) # {}
  PROVE  /\ File(r) \in Files /\ File(r) <= known[r]
         /\ ended[r] = 1 .. (File(r) - 1)
<1>1. PICK k \in 0 .. known[r] : ended[r] = 1 .. k
  BY DEF EndedFirst
<1>2. known[r] \in Nat /\ known[r] <= Last /\ k \in Nat /\ k <= known[r]
  BY <1>1, LastAssumption DEF TypeOK
<1>3. Pending(r) = (k + 1) .. known[r]
  BY <1>1, <1>2 DEF Pending
<1>4. k + 1 \in Pending(r) /\ \A f \in Pending(r) : k + 1 <= f
  BY <1>2, <1>3
<1>5. File(r) \in Pending(r) /\ \A f \in Pending(r) : File(r) <= f
  BY <1>4 DEF File, Min
<1>6. File(r) = k + 1 /\ File(r) - 1 = k
  BY <1>2, <1>3, <1>4, <1>5
<1>7. k + 1 \in 1 .. Last /\ k + 1 <= known[r]
  BY <1>2, <1>3, <1>4, LastAssumption
<1> QED
  BY <1>1, <1>6, <1>7 DEF Files

\* A step of another run moves neither the file of this one nor where it is.
LEMMA FileStays ==
  ASSUME NEW r \in Runs, known'[r] = known[r], ended'[r] = ended[r]
  PROVE  Pending(r)' = Pending(r) /\ File(r)' = File(r)
  BY DEF Pending, File

LEMMA InitIInv == Init => IInv
<1> SUFFICES ASSUME Init PROVE IInv
  OBVIOUS
<1>1. TypeOK
  BY LastAssumption DEF Init, TypeOK
<1>2. EndedFirst
  <2>1. ASSUME NEW r \in Runs PROVE ended[r] = 1 .. 0 /\ 0 \in 0 .. known[r] /\ pc[r] = "idle"
    BY DEF Init
  <2> QED
    BY <2>1 DEF EndedFirst, Init
<1>3. EndedTracked /\ KeyHeld /\ ExecutedOnce /\ AppliedInOrder
  BY DEF Init, EndedTracked, KeyHeld, ExecutedOnce, AppliedInOrder
<1> QED
  BY <1>1, <1>2, <1>3 DEF IInv

\* The steps that leave the tables and the files a run has ended with alone.
LEMMA QuietIInv ==
  ASSUME IInv, NEW r \in Runs,
         Execute(r) \/ Record(r) \/ Duplicate(r) \/ Finish(r) \/ Fail(r)
  PROVE  IInv'
<1> USE DEF IInv
<1>1. UNCHANGED <<executed, tracked, known, applied, ended>>
  BY DEF Execute, Record, Duplicate, Finish, Fail
<1>2. \A q \in Runs : Pending(q)' = Pending(q) /\ File(q)' = File(q)
  BY <1>1, FileStays
<1>3. /\ \A q \in Runs \ {r} : pc'[q] = pc[q]
      /\ pc'[r] \in {"executed", "recorded", "done", "failed"}
      /\ pc' = [pc EXCEPT ![r] = pc'[r]]
  BY DEF TypeOK, Execute, Record, Duplicate, Finish, Fail
<1>4. TypeOK'
  BY <1>1, <1>3 DEF TypeOK
<1>5. EndedTracked' /\ ExecutedOnce' /\ AppliedInOrder'
  BY <1>1 DEF EndedTracked, ExecutedOnce, AppliedInOrder
<1>6. EndedFirst'
  <2>1. pc'[r] \in {"executed", "recorded"} => Pending(r) # {}
    BY DEF TypeOK, EndedFirst, Execute, Record, Duplicate, Finish, Fail
  <2> QED
    BY <1>1, <1>2, <1>3, <2>1 DEF EndedFirst
<1>7. KeyHeld'
  <2>1. pc'[r] = "recorded" => /\ File(r) \notin tracked
                               /\ \A q \in Runs : pc[q] = "recorded" => File(q) # File(r)
    BY DEF TypeOK, Execute, Record, Duplicate, Finish, Fail
  <2> QED
    BY <1>1, <1>2, <1>3, <2>1 DEF KeyHeld
<1> QED
  BY <1>4, <1>5, <1>6, <1>7

\* The list of applied files is read.
LEMMA LoadIInv ==
  ASSUME IInv, NEW r \in Runs, Load(r)
  PROVE  IInv'
<1> USE DEF IInv
<1>1. PICK n \in 0 .. Last : applied' = [applied EXCEPT ![r] = tracked \cap (1 .. n)]
  BY DEF Load
<1>2. PICK l \in Files : known' = [known EXCEPT ![r] = l]
  BY DEF Load
<1>3. /\ pc[r] = "idle" /\ pc' = [pc EXCEPT ![r] = "loop"]
      /\ executed' = executed /\ tracked' = tracked /\ ended' = ended
  BY DEF Load
<1>4. TypeOK'
  BY <1>1, <1>2, <1>3, LastAssumption DEF TypeOK, Files
<1>5. EndedTracked' /\ ExecutedOnce' /\ AppliedInOrder'
  BY <1>1, <1>3 DEF TypeOK, EndedTracked, ExecutedOnce, AppliedInOrder
<1>6. \A q \in Runs \ {r} : /\ pc'[q] = pc[q] /\ known'[q] = known[q]
                            /\ Pending(q)' = Pending(q) /\ File(q)' = File(q)
  BY <1>2, <1>3, FileStays DEF TypeOK
<1>7. pc'[r] = "loop" /\ known'[r] = l /\ ended[r] = {} /\ {} = 1 .. 0 /\ 0 \in 0 .. l
  BY <1>2, <1>3 DEF TypeOK, EndedFirst, Files
<1>8. EndedFirst'
  <2> SUFFICES ASSUME NEW q \in Runs
               PROVE  /\ \E k \in 0 .. known'[q] : ended'[q] = 1 .. k
                      /\ pc'[q] = "idle" => ended'[q] = {}
                      /\ pc'[q] \in {"executed", "recorded"} => Pending(q)' # {}
    BY DEF EndedFirst
  <2> QED
    BY <1>3, <1>6, <1>7 DEF EndedFirst
<1>9. KeyHeld'
  BY <1>3, <1>6, <1>7 DEF KeyHeld
<1> QED
  BY <1>4, <1>5, <1>8, <1>9

\* One more file is done with: skipped as applied, or committed.
LEMMA EndedGrows ==
  ASSUME TypeOK, EndedFirst, NEW r \in Runs, Pending(r) # {}
  PROVE  \E k \in 0 .. known[r] : ended[r] \cup {File(r)} = 1 .. k
<1>1. /\ File(r) \in 1 .. known[r] /\ ended[r] = 1 .. (File(r) - 1) /\ known[r] \in Nat
  BY NextFile, LastAssumption DEF TypeOK, Files
<1>2. ended[r] \cup {File(r)} = 1 .. File(r) /\ File(r) \in 0 .. known[r]
  BY <1>1
<1> QED
  BY <1>2

LEMMA SkipIInv ==
  ASSUME IInv, NEW r \in Runs, Skip(r)
  PROVE  IInv'
<1> USE DEF IInv
<1>1. /\ pc[r] = "loop" /\ Pending(r) # {} /\ File(r) \in applied[r]
      /\ ended' = [ended EXCEPT ![r] = @ \cup {File(r)}]
      /\ UNCHANGED <<executed, tracked, pc, known, applied>>
  BY DEF Skip
<1>2. File(r) \in tracked /\ ended'[r] = ended[r] \cup {File(r)}
  BY <1>1 DEF TypeOK, EndedTracked
<1>3. TypeOK' /\ EndedTracked' /\ ExecutedOnce' /\ AppliedInOrder'
  BY <1>1, <1>2 DEF TypeOK, EndedTracked, ExecutedOnce, AppliedInOrder
<1>4. \A q \in Runs \ {r} : /\ ended'[q] = ended[q]
                            /\ Pending(q)' = Pending(q) /\ File(q)' = File(q)
  BY <1>1, FileStays DEF TypeOK
<1>5. \E k \in 0 .. known[r] : ended'[r] = 1 .. k
  BY <1>1, <1>2, EndedGrows
<1>6. EndedFirst'
  <2> SUFFICES ASSUME NEW q \in Runs
               PROVE  /\ \E k \in 0 .. known[q] : ended'[q] = 1 .. k
                      /\ pc[q] = "idle" => ended'[q] = {}
                      /\ pc[q] \in {"executed", "recorded"} => Pending(q)' # {}
    BY <1>1 DEF EndedFirst
  <2> QED
    BY <1>1, <1>4, <1>5 DEF EndedFirst
<1>7. KeyHeld'
  BY <1>1, <1>4 DEF KeyHeld
<1> QED
  BY <1>3, <1>6, <1>7

\* A transaction commits: its file was not recorded, and those before it were.
LEMMA CommitIInv ==
  ASSUME IInv, NEW r \in Runs, Commit(r)
  PROVE  IInv'
<1> USE DEF IInv
<1> DEFINE f == File(r)
<1>1. /\ pc[r] = "recorded" /\ Pending(r) # {} /\ f \notin tracked
      /\ \A q \in Runs \ {r} : pc[q] = "recorded" => File(q) # f
  BY DEF Commit, EndedFirst, KeyHeld
<1>2. f \in Files /\ ended[r] = 1 .. (f - 1)
  BY <1>1, NextFile
<1>3. /\ executed' = [executed EXCEPT ![f] = @ + 1]
      /\ tracked' = tracked \cup {f}
      /\ known' = known /\ applied' = applied
  BY DEF Commit
<1>4. \/ pc' = [pc EXCEPT ![r] = "loop"] /\ ended' = [ended EXCEPT ![r] = @ \cup {f}]
      \/ pc' = [pc EXCEPT ![r] = "failed"] /\ ended' = ended
  BY DEF Commit
<1>5. \/ pc'[r] = "loop" /\ ended'[r] = ended[r] \cup {f}
      \/ pc'[r] = "failed" /\ ended'[r] = ended[r]
  BY <1>4 DEF TypeOK
<1>6. \A q \in Runs \ {r} : /\ pc'[q] = pc[q] /\ ended'[q] = ended[q]
                            /\ Pending(q)' = Pending(q) /\ File(q)' = File(q)
  BY <1>3, <1>4, FileStays DEF TypeOK
<1>7. \E k \in 0 .. known[r] : ended'[r] = 1 .. k
  BY <1>1, <1>5, EndedGrows DEF EndedFirst
<1> HIDE DEF f
<1>8. TypeOK'
  <2>1. executed' \in [Files -> Nat]
    BY <1>2, <1>3 DEF TypeOK
  <2>2. tracked' \subseteq Files /\ known' = known /\ applied' = applied
    BY <1>2, <1>3 DEF TypeOK
  <2>3. ended' \in [Runs -> SUBSET Files]
    <3>1. ended \in [Runs -> SUBSET Files] /\ {f} \subseteq Files
      BY <1>2 DEF TypeOK
    <3>2. CASE ended' = [ended EXCEPT ![r] = @ \cup {f}]
      <4>1. ended[r] \cup {f} \in SUBSET Files
        BY <3>1
      <4> QED
        BY <3>1, <3>2, <4>1
    <3> QED
      BY <1>4, <3>1, <3>2
  <2>4. pc' \in [Runs -> {"idle", "loop", "executed", "recorded", "done", "failed"}]
    BY <1>4 DEF TypeOK
  <2> QED
    BY <2>1, <2>2, <2>3, <2>4 DEF TypeOK
<1>9. EndedFirst'
  BY <1>3, <1>5, <1>6, <1>7 DEF EndedFirst
<1>10. EndedTracked'
  BY <1>3, <1>5, <1>6 DEF EndedTracked
<1>11. KeyHeld'
  BY <1>1, <1>3, <1>5, <1>6 DEF KeyHeld
<1>12. ExecutedOnce'
  BY <1>1, <1>2, <1>3 DEF TypeOK, ExecutedOnce
<1>13. AppliedInOrder'
  <2>1. 1 .. f = (1 .. (f - 1)) \cup {f}
    BY <1>2 DEF Files
  <2>2. 1 .. (f - 1) \subseteq tracked
    BY <1>2 DEF EndedTracked
  <2> QED
    BY <1>3, <2>1, <2>2 DEF AppliedInOrder
<1> QED
  BY <1>8, <1>9, <1>10, <1>11, <1>12, <1>13

LEMMA StepIInv == IInv /\ [Next]_vars => IInv'
<1> SUFFICES ASSUME IInv, [Next]_vars PROVE IInv'
  OBVIOUS
<1>1. ASSUME NEW r \in Runs, Step(r) \/ Fail(r) PROVE IInv'
  BY <1>1, LoadIInv, SkipIInv, CommitIInv, QuietIInv DEF Step
<1>2. CASE UNCHANGED vars
  BY <1>2 DEF vars, IInv, TypeOK, EndedFirst, EndedTracked, KeyHeld, ExecutedOnce,
              AppliedInOrder, Pending, File
<1> QED
  BY <1>1, <1>2 DEF Next

LEMMA Inductive == Spec => []IInv
<1> QED
  BY InitIInv, StepIInv, PTL DEF Spec

\* The state is well-typed.
THEOREM TypeCorrect == Spec => []TypeOK
<1>1. IInv => TypeOK
  BY DEF IInv
<1> QED
  BY <1>1, Inductive, PTL

\* A file is executed once if it is recorded and not at all if it is not,
\* whatever runs overlap and wherever they stop.
THEOREM EachOnce == Spec => []ExecutedOnce
<1>1. IInv => ExecutedOnce
  BY DEF IInv
<1> QED
  BY <1>1, Inductive, PTL

\* No file is applied before one that comes before it.
THEOREM InOrder == Spec => []AppliedInOrder
<1>1. IInv => AppliedInOrder
  BY DEF IInv
<1> QED
  BY <1>1, Inductive, PTL

-----------------------------------------------------------------------------
(***************************************************************************)
(* Refinement of Schema.  A commit adds the file that comes right after    *)
(* those recorded, and a run has a last file from the step that reads the  *)
(* table on (Started).                                                     *)
(***************************************************************************)
Started ==
    \A r \in Runs : /\ pc[r] = "idle" => known[r] = 0
                    /\ pc[r] \in {"loop", "executed", "recorded"} => known[r] # 0

LEMMA StepStarted == TypeOK /\ Started /\ [Next]_vars => Started'
<1> SUFFICES ASSUME TypeOK, Started, [Next]_vars PROVE Started'
  OBVIOUS
<1>1. ASSUME NEW r \in Runs, Load(r) PROVE Started'
  <2>1. PICK n \in Files : known' = [known EXCEPT ![r] = n]
    BY <1>1 DEF Load
  <2>2. pc' = [pc EXCEPT ![r] = "loop"] /\ n # 0
    BY <1>1, LastAssumption DEF Load, Files
  <2>3. known'[r] # 0 /\ pc'[r] = "loop"
    BY <2>1, <2>2 DEF TypeOK
  <2>4. \A q \in Runs \ {r} : known'[q] = known[q] /\ pc'[q] = pc[q]
    BY <2>1, <2>2 DEF TypeOK
  <2> QED
    BY <2>3, <2>4 DEF Started
<1>2. ASSUME NEW r \in Runs,
             \/ Skip(r) \/ Execute(r) \/ Record(r) \/ Duplicate(r)
             \/ Commit(r) \/ Finish(r) \/ Fail(r)
      PROVE  Started'
  <2>1. /\ known' = known
        /\ \A q \in Runs \ {r} : pc'[q] = pc[q]
        /\ pc'[r] # "idle"
    BY <1>2 DEF TypeOK, Skip, Execute, Record, Duplicate, Commit, Finish, Fail
  <2>2. pc'[r] \in {"loop", "executed", "recorded"}
        => pc[r] \in {"loop", "executed", "recorded"}
    BY <1>2 DEF TypeOK, Skip, Execute, Record, Duplicate, Commit, Finish, Fail
  <2> QED
    BY <2>1, <2>2 DEF Started
<1>3. CASE UNCHANGED vars
  BY <1>3 DEF vars, Started
<1> QED
  BY <1>1, <1>2, <1>3 DEF Next, Step

\* What is recorded when a transaction commits are the files before its own.
LEMMA SchemaIsPrefix ==
  ASSUME IInv, NEW r \in Runs, pc[r] = "recorded"
  PROVE  /\ File(r) \in Files /\ File(r) <= known[r]
         /\ tracked = 1 .. (File(r) - 1)
         /\ tracked \cup {File(r)} = 1 .. File(r)
<1>1. Pending(r) # {} /\ File(r) \notin tracked
  BY DEF IInv, EndedFirst, KeyHeld
<1>2. /\ File(r) \in Files /\ File(r) <= known[r]
      /\ ended[r] = 1 .. (File(r) - 1)
  BY <1>1, NextFile DEF IInv
<1>3. File(r) \in Nat \ {0}
  BY <1>2, LastAssumption DEF Files
<1>4. 1 .. (File(r) - 1) \subseteq tracked
  BY <1>2 DEF IInv, EndedTracked
<1>5. ASSUME NEW g \in tracked PROVE g \in 1 .. (File(r) - 1)
  <2>1. g \in Nat \ {0} /\ 1 .. g \subseteq tracked
    BY LastAssumption DEF IInv, TypeOK, Files, AppliedInOrder
  <2>2. File(r) \notin 1 .. g
    BY <1>1, <2>1
  <2> QED
    BY <1>3, <2>1, <2>2
<1>6. tracked = 1 .. (File(r) - 1)
  BY <1>4, <1>5
<1> QED
  BY <1>2, <1>3, <1>6

LEMMA OutcomeOf ==
  ASSUME NEW r \in Runs
  PROVE  Outcome[r] = IF pc[r] \in {"done", "failed"} THEN pc[r] ELSE "running"
  BY DEF Outcome

\* A run's step shows in its own outcome at most.
LEMMA OutcomeStep ==
  ASSUME TypeOK, NEW r \in Runs, NEW s, pc' = [pc EXCEPT ![r] = s]
  PROVE  /\ s \in {"done", "failed"} => Outcome' = [Outcome EXCEPT ![r] = s]
         /\ s \notin {"done", "failed"} /\ pc[r] \notin {"done", "failed"}
            => Outcome' = Outcome
<1>1. pc'[r] = s /\ \A q \in Runs \ {r} : pc'[q] = pc[q]
  BY DEF TypeOK
<1> QED
  BY <1>1 DEF Outcome

LEMMA InitRefines == Init => Abstract!Init
  BY DEF Init, Abstract!Init, Outcome

\* Reading the table starts a run.
LEMMA LoadRefines ==
  ASSUME IInv, Started, NEW r \in Runs, Load(r)
  PROVE  \E n \in 1 .. Last : Abstract!Start(r, n)
<1>1. PICK n \in 1 .. Last : known' = [known EXCEPT ![r] = n]
  BY DEF Load, Files
<1>2. pc[r] = "idle" /\ pc' = [pc EXCEPT ![r] = "loop"] /\ tracked' = tracked
  BY DEF Load
<1>3. known[r] = 0 /\ Outcome[r] = "running"
  BY <1>2, OutcomeOf DEF Started
<1>4. Outcome' = Outcome
  BY <1>2, OutcomeStep DEF IInv
<1> QED
  BY <1>1, <1>2, <1>3, <1>4 DEF Abstract!Start

\* A commit applies the next file, whether or not the run learns of it.
LEMMA CommitRefines ==
  ASSUME IInv, NEW r \in Runs, Commit(r)
  PROVE  \E f \in 1 .. Last : Abstract!Apply(r, f)
<1>1. pc[r] = "recorded"
  BY DEF Commit
<1>2. /\ File(r) \in 1 .. Last /\ File(r) <= known[r]
      /\ tracked = 1 .. (File(r) - 1)
      /\ tracked \cup {File(r)} = 1 .. File(r)
  BY <1>1, SchemaIsPrefix DEF Files
<1>3. tracked' = 1 .. File(r) /\ known' = known
  BY <1>2 DEF Commit
<1>4. Outcome[r] = "running"
  BY <1>1, OutcomeOf
<1>5. Outcome' \in {Outcome, [Outcome EXCEPT ![r] = "failed"]}
  <2>1. CASE pc' = [pc EXCEPT ![r] = "loop"]
    BY <1>1, <2>1, OutcomeStep DEF IInv
  <2>2. CASE pc' = [pc EXCEPT ![r] = "failed"]
    BY <2>2, OutcomeStep DEF IInv
  <2> QED
    BY <2>1, <2>2 DEF Commit
<1>6. Abstract!Apply(r, File(r))
  BY <1>2, <1>3, <1>4, <1>5 DEF Abstract!Apply
<1> QED
  BY <1>2, <1>6

\* A run that finishes has ended with every file of its binary.
LEMMA FinishRefines ==
  ASSUME IInv, Started, NEW r \in Runs, Finish(r)
  PROVE  Abstract!Succeed(r)
<1>1. /\ pc[r] = "loop" /\ 1 .. known[r] \subseteq ended[r]
      /\ pc' = [pc EXCEPT ![r] = "done"] /\ tracked' = tracked /\ known' = known
  BY DEF Finish, Pending
<1>2. 1 .. known[r] \subseteq tracked /\ known[r] # 0
  BY <1>1 DEF IInv, EndedTracked, Started
<1>3. Outcome[r] = "running" /\ Outcome' = [Outcome EXCEPT ![r] = "done"]
  BY <1>1, OutcomeOf, OutcomeStep DEF IInv
<1> QED
  BY <1>1, <1>2, <1>3 DEF Abstract!Succeed

\* A key that is there already, like any other error, fails the run alone.
LEMMA FailRefines ==
  ASSUME IInv, NEW r \in Runs, Duplicate(r) \/ Fail(r)
  PROVE  Abstract!Fail(r)
<1>1. /\ pc[r] \in {"idle", "loop", "executed", "recorded"}
      /\ pc' = [pc EXCEPT ![r] = "failed"] /\ tracked' = tracked /\ known' = known
  BY DEF Duplicate, Fail
<1>2. Outcome[r] = "running" /\ Outcome' = [Outcome EXCEPT ![r] = "failed"]
  BY <1>1, OutcomeOf, OutcomeStep DEF IInv
<1> QED
  BY <1>1, <1>2 DEF Abstract!Fail

\* The steps inside a transaction are not seen.
LEMMA QuietRefines ==
  ASSUME IInv, NEW r \in Runs, Skip(r) \/ Execute(r) \/ Record(r)
  PROVE  UNCHANGED <<tracked, known, Outcome>>
<1>1. tracked' = tracked /\ known' = known
  BY DEF Skip, Execute, Record
<1>2. ASSUME Skip(r) PROVE Outcome' = Outcome
  BY <1>2 DEF Skip, Outcome
<1>3. ASSUME Execute(r) PROVE Outcome' = Outcome
  <2>1. pc[r] = "loop" /\ pc' = [pc EXCEPT ![r] = "executed"]
    BY <1>3 DEF Execute
  <2> QED
    BY <2>1, OutcomeStep DEF IInv
<1>4. ASSUME Record(r) PROVE Outcome' = Outcome
  <2>1. pc[r] = "executed" /\ pc' = [pc EXCEPT ![r] = "recorded"]
    BY <1>4 DEF Record
  <2> QED
    BY <2>1, OutcomeStep DEF IInv
<1> QED
  BY <1>1, <1>2, <1>3, <1>4

LEMMA StepRefines ==
  ASSUME IInv, Started, [Next]_vars
  PROVE  [Abstract!Next]_(Abstract!vars)
<1>1. ASSUME NEW r \in Runs, Step(r) \/ Fail(r)
      PROVE  Abstract!Next \/ UNCHANGED <<tracked, known, Outcome>>
  BY <1>1, LoadRefines, CommitRefines, FinishRefines, FailRefines, QuietRefines
     DEF Step, Abstract!Next
<1>2. CASE UNCHANGED vars
  BY <1>2 DEF vars, Abstract!vars, Outcome
<1> QED
  BY <1>1, <1>2 DEF Next, Abstract!vars

\* Whatever runs overlap, read part of the table, stop or lose the answer of a
\* commit: the schema moves forward a file at a time, and a run that reports
\* success leaves no file of its binary out.
THEOREM Refinement == Spec => ImplementsSchema
<1>1. Init => Started
  BY DEF Init, Started
<1>2. IInv => TypeOK
  BY DEF IInv
<1>3. Spec => []Started
  BY <1>1, <1>2, Inductive, StepStarted, PTL DEF Spec
<1> QED
  BY <1>3, Inductive, InitRefines, StepRefines, PTL
     DEF Spec, ImplementsSchema, Abstract!Spec

-----------------------------------------------------------------------------
\* How far run r is with the file it is at.
Stage(r) == IF pc[r] = "idle" THEN 0
            ELSE IF pc[r] = "loop" THEN 1
            ELSE IF pc[r] = "executed" THEN 2
            ELSE IF pc[r] = "recorded" THEN 3
            ELSE 4

Advances(r) == \/ ended'[r] = ended[r] /\ pc'[r] = pc[r]
               \/ ended'[r] = ended[r] /\ Stage(r) < Stage(r)'
               \/ \E f \in Files \ ended[r] : ended'[r] = ended[r] \cup {f}

(***************************************************************************)
(* No run ever tries a file again: each of its steps takes it further with *)
(* the file it is at or ends with one more file, also when it meets other  *)
(* runs at the primary key.  With Last files, that bounds the steps of a   *)
(* run (the safety part of EveryRunEnds).                                  *)
(***************************************************************************)
THEOREM RunsAdvance == Spec => [][\A r \in Runs : Advances(r)]_vars
<1>1. ASSUME IInv, [Next]_vars, NEW r \in Runs PROVE Advances(r)
  <2>1. CASE UNCHANGED vars
    BY <2>1 DEF vars, Advances
  <2>2. ASSUME NEW q \in Runs, Step(q) \/ Fail(q), q # r PROVE Advances(r)
    <3>1. pc'[r] = pc[r]
      BY <1>1, <2>2 DEF IInv, TypeOK, Step, Load, Skip, Execute, Record, Duplicate, Commit,
                  Finish, Fail
    <3>2. ended'[r] = ended[r]
      BY <1>1, <2>2 DEF IInv, TypeOK, Step, Load, Skip, Execute, Record, Duplicate, Commit,
                  Finish, Fail
    <3> QED
      BY <3>1, <3>2 DEF Advances
  <2>3. CASE \/ Load(r) \/ Execute(r) \/ Record(r) \/ Duplicate(r)
             \/ Finish(r) \/ Fail(r)
    <3>1. ended' = ended /\ Stage(r) < Stage(r)'
      BY <1>1, <2>3 DEF IInv, TypeOK, Stage, Load, Execute, Record, Duplicate, Finish, Fail
    <3> QED
      BY <3>1 DEF Advances
  <2>4. ASSUME Pending(r) # {} PROVE File(r) \in Files \ ended[r]
    <3>1. File(r) \in Files /\ ended[r] = 1 .. (File(r) - 1)
      BY <1>1, <2>4, NextFile DEF IInv
    <3> QED
      BY <3>1, LastAssumption DEF Files
  <2>5. CASE Skip(r)
    <3>1. ended'[r] = ended[r] \cup {File(r)} /\ Pending(r) # {}
      BY <1>1, <2>5 DEF IInv, TypeOK, Skip
    <3> QED
      BY <2>4, <3>1 DEF Advances
  <2>6. CASE Commit(r)
    <3>1. pc[r] = "recorded" /\ Pending(r) # {}
      BY <1>1, <2>6 DEF Commit, IInv, EndedFirst
    <3>2. CASE pc' = [pc EXCEPT ![r] = "failed"] /\ ended' = ended
      <4>1. pc'[r] = "failed"
        BY <1>1, <3>2 DEF IInv, TypeOK
      <4>2. Stage(r) = 3 /\ Stage(r)' = 4
        BY <3>1, <4>1 DEF Stage
      <4> QED
        BY <3>2, <4>2 DEF Advances
    <3>3. CASE ended' = [ended EXCEPT ![r] = @ \cup {File(r)}]
      <4>1. ended'[r] = ended[r] \cup {File(r)}
        BY <1>1, <3>3 DEF IInv, TypeOK
      <4> QED
        BY <2>4, <3>1, <4>1 DEF Advances
    <3> QED
      BY <2>6, <3>2, <3>3 DEF Commit
  <2> QED
    BY <1>1, <2>1, <2>2, <2>3, <2>5, <2>6 DEF Next, Step
<1>2. IInv /\ [Next]_vars => [\A r \in Runs : Advances(r)]_vars
  BY <1>1
<1> QED
  BY <1>2, Inductive, PTL DEF Spec
=============================================================================
