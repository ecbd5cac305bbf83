------------------------------ MODULE MCAccess ------------------------------
(* Access with two tenants, one of them "default", and two secrets.        *)
EXTENDS Access, TLC

\* The secrets are alike.
Symmetry == Permutations(Secrets)
=============================================================================
