------------------------------ MODULE MCClient ------------------------------
(* Two callers of one client, an answer of each class of errors, and a     *)
(* Retry-After of no, a short and a long delay.                            *)
EXTENDS RequestLoop, TLC

Statuses == {400, 401, 429, 500}
Headers == {-1, 2, 9}

Symmetry == Permutations(Caller)
=============================================================================
