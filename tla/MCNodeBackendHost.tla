--------------------------- MODULE MCNodeBackendHost ---------------------------
(***************************************************************************)
(* Instances of NodeBackendHost for TLC; the queries are interchangeable.  *)
(***************************************************************************)
EXTENDS NodeBackendHost

QuerySymmetry == Permutations(Queries)
=============================================================================
