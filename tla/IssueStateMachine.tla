------------------------- MODULE IssueStateMachine -------------------------
(***************************************************************************)
(* What the signed ledger of one Issue promises to everything that reads   *)
(* it: each authorization identity is claimed at most once, at most one    *)
(* authorization of the Issue is live at a time, a live authorization only *)
(* moves along the legal transitions, and a terminal one never moves.      *)
(* The ledger fold (IssueLedger) and the running lifecycle with its        *)
(* concurrent control jobs (IssueAgentLifecycle) are shown to implement    *)
(* this specification.                                                     *)
(***************************************************************************)

CONSTANT Auth    \* the authorization identities of one Issue

VARIABLE st      \* st[a]: the state of authorization a, "NONE" before its claim

LiveStates == {"AUTHORIZED", "FALLBACK_AUTHORIZED", "RESULT_BOUND", "VALIDATED", "PUBLISHED"}

TerminalStates == {"COMPLETED", "FAILED"}

(* The successors of each state (LEGAL_TRANSITIONS). *)
LegalTransitions(s) ==
  CASE s = "NONE"                -> {"AUTHORIZED"}
    [] s = "AUTHORIZED"          -> {"RESULT_BOUND", "FALLBACK_AUTHORIZED", "FAILED"}
    [] s = "FALLBACK_AUTHORIZED" -> {"RESULT_BOUND", "FAILED"}
    [] s = "RESULT_BOUND"        -> {"VALIDATED", "FAILED"}
    [] s = "VALIDATED"           -> {"PUBLISHED", "FAILED"}
    [] s = "PUBLISHED"           -> {"COMPLETED", "FAILED"}
    [] OTHER                     -> {}

Init == st = [a \in Auth |-> "NONE"]

(* The claim and model release: one atomic record. *)
Claim(a) ==
  /\ st[a] = "NONE"
  /\ \A b \in Auth : st[b] \notin LiveStates
  /\ st' = [st EXCEPT ![a] = "AUTHORIZED"]

(* Every later transition of the live authorization. *)
Move(a) ==
  /\ st[a] \in LiveStates
  /\ \E s \in LegalTransitions(st[a]) : st' = [st EXCEPT ![a] = s]

Next == \E a \in Auth : Claim(a) \/ Move(a)

Spec == Init /\ [][Next]_st
=============================================================================
