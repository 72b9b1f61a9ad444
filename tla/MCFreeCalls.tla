---------------------------- MODULE MCFreeCalls ----------------------------
EXTENDS FreeCalls, Combinatorics

CONSTANTS u1, u2

(* One user with the limit of the metadata and one without limit.          *)

MCFreeCallsPerAddress ==
    [u \in Users |-> [kind |-> IF u = u1 THEN "invalid" ELSE "unlimited", n |-> 0]]

(* The bound of SoftLimit is the binomial coefficient.                     *)
ASSUME CountsChoices ==
    \A k, n \in 0..4 : Cardinality(kSubset(k, 1..(k + n))) = choose(k + n, n)
=============================================================================
