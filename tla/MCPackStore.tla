----------------------------- MODULE MCPackStore -----------------------------
(***************************************************************************)
(* Instances of PackStore for TLC.  Pack A has up to three versions, of    *)
(* which version 2 drops a document of version 1; pack B shares one of A's.*)
(***************************************************************************)
EXTENDS PackStore

CONSTANTS A, B, x, y, p, q, c1, c2

Manifest(i, v, d, s, c) ==
    [id |-> i, version |-> v, docs |-> d, supersedes |-> s, cut |-> c]

OnePath(d) == [r \in {p} |-> d]
TwoPaths(d, e) == [r \in {p, q} |-> IF r = p THEN d ELSE e]

A1 == Manifest(A, 1, TwoPaths(x, y), {}, c1)
A2 == Manifest(A, 2, OnePath(x), {}, c1)
A2Recut == Manifest(A, 2, OnePath(x), {}, c2)
A3 == Manifest(A, 3, OnePath(y), {}, c1)
A2OverB == Manifest(A, 2, TwoPaths(y, x), {<<B, 1>>}, c1)
B1 == Manifest(B, 1, OnePath(x), {}, c1)
B1OverA1 == Manifest(B, 1, OnePath(x), {<<A, 1>>}, c1)

\* Two independent packs, an upgrade that drops a document.
Independent == {A1, A2, B1}
\* Pack B supersedes version 1 of pack A; version 2 of A is cut differently.
Superseding == {A1, A2Recut, B1OverA1}
\* Pack B supersedes version 1 of pack A, same chunking throughout.
SupersedingSameCut == {A1, A2, B1OverA1}
\* Pack A's second version moves its documents and supersedes all of B; its
\* third drops one of them.
Moving == {A1, A2OverB, A3, B1}
=============================================================================
