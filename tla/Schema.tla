-------------------------------- MODULE Schema -------------------------------
(***************************************************************************)
(* What cmd/migrate promises whoever deploys it, with no transactions and  *)
(* no table of its own in sight: the schema takes the files one at a time, *)
(* in the order of their names and never back, whichever runs bring them;  *)
(* a run that reports success leaves no file of its binary out, and an     *)
(* error says nothing of how far the schema has come.                      *)
(*                                                                         *)
(* Migrate implements this module (Migrate!ImplementsSchema).              *)
(***************************************************************************)
EXTENDS Naturals

CONSTANTS Runs,      \* invocations of cmd/migrate
          Last       \* the files are 1 .. Last, in the order of their names

VARIABLES schema,    \* the files the schema consists of
          target,    \* target[r]: the last file of r's binary, 0 before it starts
          outcome    \* outcome[r]: "running", "done" or "failed"

vars == <<schema, target, outcome>>

Init == /\ schema = {}
        /\ target = [r \in Runs |-> 0]
        /\ outcome = [r \in Runs |-> "running"]

Start(r, n) ==
    /\ outcome[r] = "running" /\ target[r] = 0
    /\ target' = [target EXCEPT ![r] = n]
    /\ UNCHANGED <<schema, outcome>>

\* The next file is added; the run may be told of an error all the same.
Apply(r, f) ==
    /\ outcome[r] = "running" /\ f <= target[r]
    /\ schema = 1 .. (f - 1)
    /\ schema' = 1 .. f
    /\ outcome' \in {outcome, [outcome EXCEPT ![r] = "failed"]}
    /\ UNCHANGED target

Succeed(r) ==
    /\ outcome[r] = "running" /\ target[r] # 0
    /\ 1 .. target[r] \subseteq schema
    /\ outcome' = [outcome EXCEPT ![r] = "done"]
    /\ UNCHANGED <<schema, target>>

Fail(r) ==
    /\ outcome[r] = "running"
    /\ outcome' = [outcome EXCEPT ![r] = "failed"]
    /\ UNCHANGED <<schema, target>>

Next == \E r \in Runs :
           \/ \E n \in 1 .. Last : Start(r, n)
           \/ \E f \in 1 .. Last : Apply(r, f)
           \/ Succeed(r)
           \/ Fail(r)

Spec == Init /\ [][Next]_vars
=============================================================================
