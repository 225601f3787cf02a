--------------------------- MODULE MCIssueLedger ---------------------------
(* Small instance of IssueLedger for TLC. *)
EXTENDS IssueLedger, TLC

Symmetry ==
  Permutations(Auth) \cup Permutations(Digest) \cup Permutations(Nonce) \cup Permutations(Run)

Attempted(a) == \E stage \in Stages : view.auths[a].attempts[stage] > 0

(* Every history of one authorization, and after one that did not resume   *)
(* every history of a second.                                              *)
OneResumes == view.claimed = Auth => \E a \in Auth : ~Attempted(a)
=============================================================================
