------------------------------ MODULE MCReplay ------------------------------
(* Replay on small sets; requests are alike, and so are streams.           *)
EXTENDS Replay

Symmetry == Permutations(Originals) \cup Permutations(Batches)
              \cup Permutations(Tenants) \cup Permutations(Streams)
=============================================================================
