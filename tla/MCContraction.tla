--------------------------- MODULE MCContraction ---------------------------
(* Instances of ContractionApi for TLC. *)
EXTENDS ContractionApi, TLC

CONSTANTS t1, t2, small, large, aligned, odd, other

\* "small" runs every problem without workspace, "large" only the aligned one
\* and with a workspace; both have the operation and types of the problems
\* aligned and odd, only "small" those of other.
MCMatches(k, p) == p = other => k = small
MCSupports(k, p) == k = small \/ p = aligned
MCNeed(k, p) == IF k = large THEN 1 ELSE 0

\* The actor-critic tables look at strides, not at lengths.
MCPreferred(p) == large

\* "large" is a kernel for other types.
OneMatches(k, p) == k = small

Symmetry == Permutations(Threads)
=============================================================================
