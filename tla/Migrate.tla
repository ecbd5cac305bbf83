------------------------------- MODULE Migrate -------------------------------
(***************************************************************************)
(* cmd/migrate: each run reads which files are recorded as applied, once,  *)
(* and then executes the others in order, each in a transaction that also  *)
(* records it.  Nothing keeps two runs apart but the primary key of        *)
(* schema_migrations; a run may stop anywhere and be started again.        *)
(***************************************************************************)
EXTENDS Naturals, FiniteSets, FiniteSetsExt

CONSTANTS Runs,      \* invocations of cmd/migrate
          Last       \* the files are 1 .. Last, in the order of their names

ASSUME LastAssumption == Last \in Nat

Files == 1 .. Last

VARIABLES executed,  \* executed[f]: commits that contain the SQL of file f
          tracked,   \* the rows of schema_migrations
          pc,        \* pc[r]: where run r stands
          known,     \* known[r]: the last file embedded in r's binary
          applied,   \* applied[r]: what r read from schema_migrations
          ended      \* ended[r]: the files r applied or skipped

vars == <<executed, tracked, pc, known, applied, ended>>

TypeOK == /\ executed \in [Files -> Nat]
          /\ tracked \subseteq Files
          /\ pc \in [Runs -> {"idle", "loop", "executed", "recorded", "done", "failed"}]
          /\ known \in [Runs -> 0 .. Last]
          /\ applied \in [Runs -> SUBSET Files]
          /\ ended \in [Runs -> SUBSET Files]

Init == /\ executed = [f \in Files |-> 0]
        /\ tracked = {}
        /\ pc = [r \in Runs |-> "idle"]
        /\ known = [r \in Runs |-> 0]
        /\ applied = [r \in Runs |-> {}]
        /\ ended = [r \in Runs |-> {}]

\* The files the loop of run r has still to look at, and the one it is at.
Pending(r) == 1 .. known[r] \ ended[r]

\* Variant: the files are not sorted.
FileUnsorted(r) == Max(Pending(r))

File(r) == Min(Pending(r))

-----------------------------------------------------------------------------
\* The rows come in the order of the names.  When the connection breaks,
\* rows.Next ends the loop early and rows.Err is not asked.
Load(r) ==
    /\ pc[r] = "idle"
    /\ \E n \in 0 .. Last : applied' = [applied EXCEPT ![r] = tracked \cap (1 .. n)]
    /\ known' \in {[known EXCEPT ![r] = n] : n \in Files}
    /\ pc' = [pc EXCEPT ![r] = "loop"]
    /\ UNCHANGED <<executed, tracked, ended>>

Skip(r) ==
    /\ pc[r] = "loop" /\ Pending(r) # {}
    /\ File(r) \in applied[r]
    /\ ended' = [ended EXCEPT ![r] = @ \cup {File(r)}]
    /\ UNCHANGED <<executed, tracked, pc, known, applied>>

\* tx.Exec(sql): the files are written so that they can be executed again.
Execute(r) ==
    /\ pc[r] = "loop" /\ Pending(r) # {}
    /\ File(r) \notin applied[r]
    /\ pc' = [pc EXCEPT ![r] = "executed"]
    /\ UNCHANGED <<executed, tracked, known, applied, ended>>

\* Variant: no primary key.
RecordAgain(r) ==
    /\ pc[r] = "executed"
    /\ pc' = [pc EXCEPT ![r] = "recorded"]
    /\ UNCHANGED <<executed, tracked, known, applied, ended>>

\* INSERT INTO schema_migrations; it waits while another run has the same key
\* in an open transaction.
Record(r) ==
    /\ pc[r] = "executed"
    /\ File(r) \notin tracked
    /\ \A q \in Runs : pc[q] = "recorded" => File(q) # File(r)
    /\ pc' = [pc EXCEPT ![r] = "recorded"]
    /\ UNCHANGED <<executed, tracked, known, applied, ended>>

\* Variant: the file is tried again.
DuplicateRetried(r) ==
    /\ pc[r] = "executed"
    /\ File(r) \in tracked
    /\ pc' = [pc EXCEPT ![r] = "loop"]
    /\ UNCHANGED <<executed, tracked, known, applied, ended>>

\* The key is there: the transaction is rolled back, the run fails.
Duplicate(r) ==
    /\ pc[r] = "executed"
    /\ File(r) \in tracked
    /\ pc' = [pc EXCEPT ![r] = "failed"]
    /\ UNCHANGED <<executed, tracked, known, applied, ended>>

\* Variant: a row too far.
CommitNext(r) ==
    /\ pc[r] = "recorded"
    /\ executed' = [executed EXCEPT ![File(r)] = @ + 1]
    /\ tracked' = tracked \cup {File(r) + 1}
    /\ ended' = [ended EXCEPT ![r] = @ \cup {File(r)}]
    /\ pc' = [pc EXCEPT ![r] = "loop"]
    /\ UNCHANGED <<known, applied>>

\* tx.Commit; the run may not learn of it.
Commit(r) ==
    /\ pc[r] = "recorded"
    /\ executed' = [executed EXCEPT ![File(r)] = @ + 1]
    /\ tracked' = tracked \cup {File(r)}
    /\ \/ /\ pc' = [pc EXCEPT ![r] = "loop"]
          /\ ended' = [ended EXCEPT ![r] = @ \cup {File(r)}]
       \/ /\ pc' = [pc EXCEPT ![r] = "failed"]
          /\ UNCHANGED ended
    /\ UNCHANGED <<known, applied>>

\* Variant: the run ends at the first file that is applied already.
FinishAtApplied(r) ==
    /\ pc[r] = "loop" /\ (Pending(r) # {} => File(r) \in applied[r])
    /\ pc' = [pc EXCEPT ![r] = "done"]
    /\ UNCHANGED <<executed, tracked, known, applied, ended>>

Finish(r) ==
    /\ pc[r] = "loop" /\ Pending(r) = {}
    /\ pc' = [pc EXCEPT ![r] = "done"]
    /\ UNCHANGED <<executed, tracked, known, applied, ended>>

\* An error or a crash at any point: an open transaction is rolled back.
Fail(r) ==
    /\ pc[r] \in {"idle", "loop", "executed", "recorded"}
    /\ pc' = [pc EXCEPT ![r] = "failed"]
    /\ UNCHANGED <<executed, tracked, known, applied, ended>>

Step(r) == \/ Load(r)
           \/ Skip(r)
           \/ Execute(r)
           \/ Record(r)
           \/ Duplicate(r)
           \/ Commit(r)
           \/ Finish(r)

Next == \E r \in Runs : Step(r) \/ Fail(r)

Spec == Init /\ [][Next]_vars

\* A run goes on while its statements return; nothing makes it fail.
Fairness == \A r \in Runs : WF_vars(Step(r))

FairSpec == Spec /\ Fairness

-----------------------------------------------------------------------------
(***************************************************************************)
(* "Applied migrations are tracked in the schema_migrations table so each  *)
(* file is executed exactly once, even across restarts" (main.go:10), also *)
(* by runs that overlap and by one that read only part of the table.       *)
(***************************************************************************)
ExecutedOnce ==
    \A f \in Files : executed[f] = (IF f \in tracked THEN 1 ELSE 0)

(***************************************************************************)
(* "Files are executed in lexicographic order" (main.go:9): no file is     *)
(* applied before those that come before it.                               *)
(***************************************************************************)
AppliedInOrder == \A f \in tracked : 1 .. f \subseteq tracked

(***************************************************************************)
(* A run ends, though it waits for transactions of others; and when it     *)
(* reports success every file of its binary has been applied.              *)
(***************************************************************************)
EveryRunEnds ==
    \A r \in Runs : <>(\/ pc[r] = "failed"
                       \/ pc[r] = "done" /\ 1 .. known[r] \subseteq tracked)

-----------------------------------------------------------------------------
\* What whoever deploys a run sees of it.
Outcome == [r \in Runs |-> IF pc[r] \in {"done", "failed"} THEN pc[r] ELSE "running"]

Abstract == INSTANCE Schema WITH schema <- tracked, target <- known, outcome <- Outcome

(***************************************************************************)
(* Runs that overlap, read the list of applied files in part, stop or lose *)
(* the answer of a commit move the schema forward a file at a time, and    *)
(* one that reports success ("migrations complete", "schema is up to       *)
(* date") leaves no file of its binary out (main.go:116-121).              *)
(***************************************************************************)
ImplementsSchema == Abstract!Spec
=============================================================================
