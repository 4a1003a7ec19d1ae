-------------------------- MODULE MCRetrievalWorker --------------------------
(***************************************************************************)
(* An instance of RetrievalWorker for TLC.                                 *)
(***************************************************************************)
EXTENDS RetrievalWorker

CONSTANTS s1, i1, p1

OneSearch == {s1}
OneIngest == {i1}
OneProbe == {p1}
=============================================================================
