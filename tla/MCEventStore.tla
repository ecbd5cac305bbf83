---------------------------- MODULE MCEventStore ----------------------------
(* EventStore on small sets.  Liveness is checked: no symmetry.            *)
EXTENDS EventStore

\* Two events on one stream; one of the ids is sent to another stream too.
CONSTANTS i2, s1
MCRequests == {e \in Event : e.id = i2 => e.stream = s1}
=============================================================================
