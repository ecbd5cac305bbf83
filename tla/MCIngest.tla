------------------------------ MODULE MCIngest ------------------------------
(* Ingest on small sets; requests are alike, and so are tenants.            *)
EXTENDS Ingest

Symmetry == Permutations(Requests) \cup Permutations(Tenants)
=============================================================================
