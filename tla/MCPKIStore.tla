---------------------------- MODULE MCPKIStore ------------------------------
(* The processes that open the directory are interchangeable.               *)
EXTENDS PKIStore, TLC
ProcSymmetry == Permutations(Proc)
=============================================================================
