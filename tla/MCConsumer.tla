----------------------------- MODULE MCConsumer -----------------------------
(* Consumer on small sets; instances are alike, and so are events.         *)
EXTENDS Consumer, TLC

Symmetry == Permutations(Instances) \cup Permutations(Events)
=============================================================================
