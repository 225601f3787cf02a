--------------------------- MODULE MCLedgerStore ---------------------------
(* Two writers whose batches overlap and contradict each other. *)
EXTENDS LedgerStore

W(k, e) == [key |-> k, evidence |-> e]

Contested ==
  [w \in Writer |-> IF w = "a" THEN <<W("k1", 1), W("k2", 1)>>
                    ELSE <<W("k2", 1), W("k3", 1), W("k1", 2)>>]
=============================================================================
