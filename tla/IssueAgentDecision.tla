------------------------- MODULE IssueAgentDecision -------------------------
(***************************************************************************)
(* The pure part of a control step: advance, which decides at most one     *)
(* step from a view of the ledger and the observed facts, and the record   *)
(* that the decision asks for.                                             *)
(*                                                                         *)
(* c is the AuthorizationView.  f holds the facts: active (the stage job   *)
(* of the owning run is in progress), head and pr (of the branch and its   *)
(* open pull request), over and grace (deadline and dispatch grace have    *)
(* passed), artifact (the result: none, sealed, corrupt, expired), ran     *)
(* (the executor job was not skipped), output (what it reported), receipt  *)
(* and refusal (outcome of the current validation, publication attempt),   *)
(* resume (status of the pending resume's run) and preflight.              *)
(***************************************************************************)
EXTENDS IssueLedger

Decision(act, what) == [act |-> act, what |-> what]

Noop == Decision("noop", "none")

Fail(code) == Decision("fail", code)

(* _resume_or_fail, with the pending resume first. *)
Bug_PendingResume(c, f, stage) ==
  CASE f.resume \in {"active", "concluded"}   -> Noop
    [] f.resume = "none" /\ (c.pending.run # NoRun \/ ~f.grace) -> Noop
    [] OTHER                                  -> Decision("redispatch", stage)

PendingResume(c, f, stage) ==
  CASE f.resume = "active"                    -> Noop
    [] f.resume = "concluded"                 -> Decision("abandon", stage)
    [] f.resume = "none" /\ (c.pending.run # NoRun \/ ~f.grace) -> Noop
    [] OTHER                                  -> Decision("redispatch", stage)

ResumeOrFail(c, f, stage, exhausted) ==
  IF f.artifact # "sealed" THEN Fail("RESULT_TRANSPORT_EXPIRED")
  ELSE IF c.pending.stage # "none" THEN PendingResume(c, f, stage)
  ELSE IF c.attempts[stage] + 1 >= StageCap(stage) THEN Fail(exhausted)
  ELSE Decision("resume", stage)

(* _fallback_admissible: the offer, the deadline, the agreed signal. *)
FallbackAdmissible(c, f) == c.offer /\ ~f.over /\ f.output = "signal"

AdvanceAuthorized(c, f) ==
  IF f.artifact = "expired" THEN Fail("RESULT_TRANSPORT_EXPIRED")
  ELSE IF f.artifact # "none" THEN Decision("transition", "RESULT_BOUND")
  ELSE IF ~f.ran THEN Fail("EXECUTION_NOT_STARTED")
  ELSE IF FallbackAdmissible(c, f) THEN Decision("transition", "FALLBACK_AUTHORIZED")
  ELSE Fail("EXECUTION_NOT_COMPLETED")

(* _fallback_decision, before a run has claimed the pending nonce. *)
UnclaimedFallback(f) ==
  IF f.resume = "concluded" THEN Decision("abandon", "fallback")
  ELSE IF ~f.grace THEN Noop
  ELSE Decision("redispatch", "fallback")

(* And once the claiming run's executor job has ended: a run that started  *)
(* no session returns the request to pending.                              *)
ClaimedFallback(f) ==
  IF f.artifact = "expired" THEN Fail("RESULT_TRANSPORT_EXPIRED")
  ELSE IF f.artifact # "none" THEN Decision("transition", "RESULT_BOUND")
  ELSE IF f.output = "nosession" \/ ~f.ran THEN Decision("abandon", "fallback")
  ELSE Fail("EXECUTION_NOT_COMPLETED")

AdvanceFallback(c, f) ==
  IF c.pending.stage = "none" \/ f.resume = "active" THEN Noop
  ELSE IF c.pending.run = NoRun THEN UnclaimedFallback(f)
  ELSE ClaimedFallback(f)

AdvanceBound(c, f) ==
  IF f.receipt = "REFUSED" THEN Fail("PRE_PUSH_SAFETY_FAILED")
  ELSE IF f.receipt = "PASS" THEN Decision("transition", "VALIDATED")
  ELSE ResumeOrFail(c, f, "validation", "VALIDATION_UNAVAILABLE")

AdvanceValidated(c, f) ==
  IF f.head = c.commit THEN Decision("transition", "PUBLISHED")
  ELSE IF f.head # NoDigest THEN Fail("REMOTE_BRANCH_CONFLICT")
  ELSE IF f.refusal = "REFUSED" THEN Fail("PUBLICATION_CONTRACT_REFUSED")
  ELSE IF f.over THEN Fail("LIFECYCLE_DEADLINE_EXCEEDED")
  ELSE ResumeOrFail(c, f, "publication", "PUBLICATION_UNAVAILABLE")

AdvancePublished(c, f) ==
  IF f.preflight = "failure" THEN Fail("CANDIDATE_PREFLIGHT_FAILED")
  ELSE IF f.preflight = "success" /\ f.pr = c.head THEN Decision("transition", "COMPLETED")
  ELSE IF f.over THEN Fail("CANDIDATE_PREFLIGHT_TIMEOUT")
  ELSE Noop

(* A branch before VALIDATED or a pull request before PUBLISHED contradicts*)
(* the ledger: it is frozen, and nothing is written.                       *)
RollbackSuspected(c, f) ==
  \/ c.state \in {"AUTHORIZED", "FALLBACK_AUTHORIZED", "RESULT_BOUND"} /\ f.head # NoDigest
  \/ c.state # "PUBLISHED" /\ f.pr # NoDigest

Advance(c, f) ==
  IF f.active THEN Noop
  ELSE IF RollbackSuspected(c, f) THEN Decision("freeze", "STATE_ROLLBACK_SUSPECTED")
  ELSE CASE c.state = "AUTHORIZED"          -> AdvanceAuthorized(c, f)
         [] c.state = "FALLBACK_AUTHORIZED" -> AdvanceFallback(c, f)
         [] c.state = "RESULT_BOUND"        -> AdvanceBound(c, f)
         [] c.state = "VALIDATED"           -> AdvanceValidated(c, f)
         [] c.state = "PUBLISHED"           -> AdvancePublished(c, f)
         [] OTHER                           -> Noop

----------------------------------------------------------------------------
(* The record a control job signs for a decision on authorization a.       *)

FailedBy(a, role, c, code) ==
  [kind |-> "transition", state |-> "FAILED", auth |-> a, role |-> role,
   from |-> c.state, code |-> code]

Bug_Requested(a, role, c, stage, nonce) ==
  [kind |-> "resume_requested", state |-> c.state, auth |-> a, role |-> role,
   stage |-> stage, nonce |-> nonce, attempt |-> c.attempts[stage]]

Requested(a, role, c, stage, nonce) ==
  [kind |-> "resume_requested", state |-> c.state, auth |-> a, role |-> role,
   stage |-> stage, nonce |-> nonce, attempt |-> c.attempts[stage] + 1]

Abandoned(a, role, c) ==
  [kind |-> "resume_abandoned", state |-> c.state, auth |-> a, role |-> role,
   nonce |-> c.pending.nonce]

(* _evidence for RESULT_BOUND: result is the digest of the owning run's    *)
(* artifact.  A fallback result binds only for an observer that was given  *)
(* its attestation.                                                        *)
BoundEvidence(a, role, c, f, result) ==
  IF f.artifact = "corrupt" THEN FailedBy(a, role, c, "TRANSPORT_INTEGRITY_FAILED")
  ELSE IF c.state = "FALLBACK_AUTHORIZED" /\ f.output # "attested"
    THEN FailedBy(a, role, c, "EXECUTOR_RESULT_REJECTED")
  ELSE [kind |-> "transition", state |-> "RESULT_BOUND", auth |-> a, role |-> role,
        fallback |-> c.state = "FALLBACK_AUTHORIZED", result |-> result]

Evidence(a, role, c, f, target, result) ==
  CASE target = "FALLBACK_AUTHORIZED" ->
         [kind |-> "transition", state |-> target, auth |-> a, role |-> role, agreed |-> TRUE]
    [] target = "RESULT_BOUND" -> BoundEvidence(a, role, c, f, result)
    [] target = "VALIDATED" ->
         [kind |-> "transition", state |-> target, auth |-> a, role |-> role,
          result |-> c.result, commit |-> c.result]
    [] target = "PUBLISHED" ->
         [kind |-> "transition", state |-> target, auth |-> a, role |-> role,
          identity |-> [execution |-> ExecutionId(c), result |-> c.validated,
                        commit |-> c.commit],
          head |-> f.head]
    [] OTHER ->
         [kind |-> "transition", state |-> target, auth |-> a, role |-> role, head |-> f.pr]

RecordOf(a, role, c, f, d, result, nonce) ==
  CASE d.act = "fail"       -> FailedBy(a, role, c, d.what)
    [] d.act = "transition" -> Evidence(a, role, c, f, d.what, result)
    [] d.act = "resume"     -> Requested(a, role, c, d.what, nonce)
    [] OTHER                -> Abandoned(a, role, c)

(* A role that may not write a record leaves it to another observer. *)
MayWrite(role, rec) ==
  IF rec.kind = "transition" THEN role \in WriterRoles(rec.state) ELSE role \in ResumeRoles
=============================================================================
