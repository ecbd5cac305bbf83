------------------------------ MODULE MCPaging ------------------------------
(* Paging on three events, whose times may be equal or in any order.       *)
EXTENDS Paging

ThreeEvents == 1 .. 3
=============================================================================
