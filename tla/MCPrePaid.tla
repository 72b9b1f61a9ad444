----------------------------- MODULE MCPrePaid -----------------------------
EXTENDS PrePaid, TLC

(* Requests of a kind are alike.                                           *)
Symmetry == Permutations(Tokens) \cup Permutations(Calls)

(* What the channel was worth is only looked at while no token request has *)
(* committed over an amount it had not seen.                               *)
View == <<chan, locked, usage, req, served, stale, IF stale THEN <<>> ELSE <<claimed, byCall, lost>>>>
=============================================================================
