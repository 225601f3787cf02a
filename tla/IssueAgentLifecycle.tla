------------------------ MODULE IssueAgentLifecycle ------------------------
(***************************************************************************)
(* One authorization of the GitHub-native issue agent, end to end: the     *)
(* label run, the resume runs, the reconcile cron, the candidate-PR        *)
(* workflow and the owner's fallback decision, which share nothing but the *)
(* Issue's signed ledger and what the GitHub API shows of each other.      *)
(*                                                                         *)
(* Every control job performs the same `step`: it loads the ledger, reads  *)
(* the remote branch and its pull request, reads the rest of the facts and *)
(* decides (`advance`), appends one record on a freshly loaded chain, and  *)
(* dispatches.  These are separate actions: anything may happen between.   *)
(***************************************************************************)
EXTENDS Naturals, FiniteSets

CONSTANTS
  Remediation,        \* the authorization remediates a completed parent
  OfferFallback,      \* the authorization carries a sealed fallback handoff
  Events,             \* what else may happen: a subset of the list below
  MaxFallback,        \* bound: fallback runs the owner approves
  MaxCopies,          \* bound: workflow runs carrying one nonce
  MaxFaults           \* bound: writes and dispatches lost, jobs that die

ASSUME LifecycleAssumption ==
  /\ {Remediation, OfferFallback} \subseteq BOOLEAN
  /\ Events \subseteq {"deadline", "expiry", "refusal", "control gone", "foreign push",
                      "lost write", "lost dispatch", "slow dispatch", "dead job",
                      "busy cron"}
  /\ MaxFallback \in Nat /\ MaxCopies \in Nat \ {0} /\ MaxFaults \in Nat

VARIABLES
  view,               \* the verified LedgerView of the Issue
  runs,               \* runs[r]: the workflow run r and what its jobs left behind
  outcomes,           \* receipts and refusals uploaded by validate and publish
  starts,             \* how often each stage job and each model was started
  branch,             \* head of the execution branch, NoDigest when absent
  pr,                 \* head of the open Draft pull request, or NoDigest
  preflight,          \* conclusion of the exact-head Pre-PR Preflight
  candidate,          \* current job of the candidate-PR workflow
  overdue,            \* the deadline of the current stage has passed
  graceOver,          \* the grace period of the pending dispatch has passed
  ctl,                \* ctl[a]: the control step that actor a is in
  faults              \* faults so far

vars == <<view, runs, outcomes, starts, branch, pr, preflight,
          candidate, overdue, graceOver, ctl, faults>>

world == <<branch, pr, preflight>>

time == <<overdue, graceOver>>

----------------------------------------------------------------------------
(* The ledger this lifecycle writes.  A result, its commit and the head    *)
(* that publishes it are all named by the run whose executor produced it:  *)
(* the commit is a function of the result.                                 *)

Task == "task"
Parent == "parent"
LabelRun == <<"label", 0, 1>>

ResumeRun ==
  {<<"validation", 1>>, <<"publication", 1>>, <<"publication", 2>>}
    \cup ({"fallback"} \X (1 .. MaxFallback))

Auth == IF Remediation THEN {Task, Parent} ELSE {Task}
Nonce == ResumeRun
Run == {LabelRun} \cup {<<n[1], n[2], k>> : n \in Nonce, k \in 1 .. MaxCopies}
ForeignHead == <<"foreign", 0, 0>>
ParentHead == <<"parent", 0, 0>>
Digest == Run \cup {ForeignHead, ParentHead}
NoAuth == "noauth"
NoRun == <<"norun", 0, 0>>
NoNonce == <<"nononce", 0>>
NoDigest == <<"nodigest", 0, 0>>
MaxAttempt == IF MaxFallback > 2 THEN MaxFallback ELSE 2

FailureCode ==
  {"TRANSPORT_INTEGRITY_FAILED", "RESULT_TRANSPORT_EXPIRED", "EXECUTION_NOT_STARTED",
   "EXECUTION_NOT_COMPLETED", "EXECUTOR_RESULT_REJECTED", "VALIDATION_UNAVAILABLE",
   "PRE_PUSH_SAFETY_FAILED", "REMOTE_BRANCH_CONFLICT", "PUBLICATION_CONTRACT_REFUSED",
   "PUBLICATION_UNAVAILABLE", "LIFECYCLE_DEADLINE_EXCEEDED", "CANDIDATE_PREFLIGHT_FAILED",
   "CANDIDATE_PREFLIGHT_TIMEOUT", "OWNER_WITHDREW", "CONTROL_SHA_NOT_ON_MAIN"}

Ledger == INSTANCE IssueAgentDecision

Current == view.auths[Task]

Live == view.active = Task

NonceOf(r) == <<r[1], r[2]>>

----------------------------------------------------------------------------
(* Workflow runs.  The jobs of a run are a sequence, by their `needs`.     *)

Actor == {"label", "resume", "reconcile", "candidate", "owner"}

ExecutorJobs == {"execute", "execute-fallback"}

StepJobs == {"bind", "bind-fallback", "record-validation", "finalize"}

Invisible == {"absent", "sent", "lost"}

Waiting == Invisible \cup {"queued"}

Inactive == Waiting \cup {"done"}

(* The position of a job within its run; "push" is publish after its       *)
(* ledger check.                                                           *)
Rank(job) ==
  CASE job \in Waiting                       -> 0
    [] job \in {"authorize", "resume-bind"}  -> 1
    [] job \in ExecutorJobs                  -> 2
    [] job \in {"bind", "bind-fallback"}     -> 3
    [] job = "validate"                      -> 4
    [] job = "record-validation"             -> 5
    [] job \in {"publish", "push"}           -> 6
    [] job = "finalize"                      -> 7
    [] OTHER                                 -> 8

Executing(r) == runs[r].job \notin Inactive

(* The job a claimed resume continues with. *)
ResumesWith(stage) ==
  CASE stage = "fallback"   -> "execute-fallback"
    [] stage = "validation" -> "validate"
    [] OTHER                -> "record-validation"

(* The job that follows `job` in run r, from the workflow's `if` and       *)
(* `needs`: bound is the result_bound output, ok the job's own success.    *)
Bug_JobAfter(r, job, ok, bound) ==
  CASE job = "authorize"           -> IF ok THEN "execute" ELSE "done"
    [] job = "execute"             -> "bind"
    [] job = "resume-bind"         -> ResumesWith(r[1])
    [] job = "execute-fallback"    -> "bind-fallback"
    [] job \in {"bind", "bind-fallback"} ->
         IF ok /\ bound THEN "validate" ELSE "record-validation"
    [] job = "validate"            -> "record-validation"
    [] job = "record-validation"   ->
         IF r[1] = "publication" \/ (r[1] # "validation" /\ ok /\ runs[r].valid)
           THEN "publish" ELSE "finalize"
    [] job \in {"publish", "push"} -> "finalize"
    [] OTHER                       -> "done"

JobAfter(r, job, ok, bound) ==
  CASE job = "authorize"           -> IF ok THEN "execute" ELSE "done"
    [] job = "execute"             -> "bind"
    [] job = "resume-bind"         -> IF ok THEN ResumesWith(r[1]) ELSE "done"
    [] job = "execute-fallback"    -> "bind-fallback"
    [] job \in {"bind", "bind-fallback"} ->
         IF ok /\ bound THEN "validate" ELSE "record-validation"
    [] job = "validate"            -> "record-validation"
    [] job = "record-validation"   ->
         IF r[1] = "publication" \/ (r[1] # "validation" /\ ok /\ runs[r].valid)
           THEN "publish" ELSE "finalize"
    [] job \in {"publish", "push"} -> "finalize"
    [] OTHER                       -> "done"

(* Run r once its current job has ended. *)
Ended(r, ok, bound) ==
  [runs[r] EXCEPT !.job = JobAfter(r, @, ok, bound),
                  !.valid = @ \/ (runs[r].job = "validate" /\ ok)]

----------------------------------------------------------------------------
(* What the GitHub API shows of other runs. *)

StageJob(state) ==
  CASE state = "AUTHORIZED"          -> "execute"
    [] state = "FALLBACK_AUTHORIZED" -> "execute-fallback"
    [] state = "RESULT_BOUND"        -> "validate"
    [] state = "VALIDATED"           -> "publish"
    [] OTHER                         -> "none"

(* _job: the job is listed as completed, or the run is over.  In the label *)
(* run execute-fallback is skipped from the start.                         *)
Concluded(r, job) ==
  \/ runs[r].job = "done"
  \/ Rank(runs[r].job) > Rank(job)
  \/ r = LabelRun /\ job = "execute-fallback"

StageRunActive(c) ==
  StageJob(c.state) # "none" /\ ~Concluded(c.owner, StageJob(c.state))

(* _resume_run_status of the pending resume. *)
ResumeRunStatus(c) ==
  LET carrying == {r \in Run : NonceOf(r) = c.pending.nonce /\ runs[r].job \notin Invisible}
  IN  IF c.pending.run # NoRun
        THEN IF Concluded(c.pending.run, StageJob(c.state)) THEN "concluded" ELSE "active"
      ELSE IF carrying = {} THEN "none"
      ELSE IF \A r \in carrying : runs[r].job = "done" THEN "concluded" ELSE "active"

(* _stage_outcome: the outcome of the current attempt, from its own run.   *)
(* An owning run uploads at most one outcome per stage and attempt.        *)
StageOutcome(c, stage) ==
  LET found == {o \in outcomes : /\ o.run = c.owner
                                 /\ o.stage = stage
                                 /\ o.attempt = c.attempts[stage] + 1}
  IN  IF found = {} THEN "none" ELSE (CHOOSE o \in found : TRUE).verdict

(* The pull request observe reports: once PUBLISHED, only the open Draft   *)
(* at the published head.                                                  *)
Bug_OpenDraftPR(c, seen) == IF c.state = "PUBLISHED" THEN c.head ELSE seen.pr

OpenDraftPR(c, seen) ==
  IF c.state = "PUBLISHED" /\ seen.pr # c.head THEN NoDigest ELSE seen.pr

(* observe, second half: everything but the branch, the pull request and   *)
(* the clock, which were read before; output is what the executor job of   *)
(* the observing run reported, which only a bind job can see.              *)
Facts(c, seen, output) ==
  [active    |-> StageRunActive(c),
   head      |-> seen.head,
   pr        |-> OpenDraftPR(c, seen),
   over      |-> seen.over,
   grace     |-> seen.grace,
   artifact  |-> runs[IF c.result = NoDigest THEN c.owner ELSE c.result].artifact,
   ran       |-> runs[c.owner].output # "unset",
   output    |-> output,
   receipt   |-> StageOutcome(c, "validation"),
   refusal   |-> StageOutcome(c, "publication"),
   resume    |-> IF c.pending.stage = "none" THEN "none" ELSE ResumeRunStatus(c),
   preflight |-> preflight]

----------------------------------------------------------------------------
(* The record lands on the chain.  The fallback's own publish window opens *)
(* when its result is bound, the completion window when the head is        *)
(* recorded, and the dispatch grace (of an unclaimed resume, which any     *)
(* record consumes or claims) when a resume is requested.                  *)
OpensWindow(rec) ==
  /\ rec.kind = "transition"
  /\ rec.state = "PUBLISHED" \/ (rec.state = "RESULT_BOUND" /\ rec.fallback)

Lands(rec) ==
  /\ view' = Ledger!Fold(view, rec)
  /\ overdue' = (overdue /\ ~OpensWindow(rec))
  /\ graceOver' = FALSE

NoRecord == UNCHANGED <<view, overdue, graceOver>>

----------------------------------------------------------------------------
(* step: the control step of actor a.                                      *)

Idle == [at |-> "idle"]

ActorRun(a) ==
  IF a = "label" THEN LabelRun ELSE CHOOSE r \in Run \ {LabelRun} : Executing(r)

OwnsRun(a) == a \in {"label", "resume"}

Job(a) ==
  CASE a = "label" -> runs[LabelRun].job
    [] a = "resume" -> IF \E r \in Run \ {LabelRun} : Executing(r)
                         THEN runs[ActorRun(a)].job ELSE "none"
    [] a = "candidate" -> candidate
    [] OTHER -> a

Role(a) ==
  CASE Job(a) \in {"bind", "bind-fallback"} -> "bind"
    [] Job(a) = "record"                    -> "candidate-pr-record"
    [] OTHER                                -> Job(a)

(* The executor outputs the workflow hands to this job. *)
Output(a) == IF Role(a) = "bind" THEN runs[ActorRun(a)].output ELSE "silent"

(* The cron fires whenever it likes, or only while no run is executing. *)
CronFires == Live /\ ("busy cron" \in Events \/ \A r \in Run : ~Executing(r))

Ready(a) == IF a = "reconcile" THEN CronFires ELSE Job(a) \in StepJobs \cup {"record"}

(* The job of actor a ends: the runs afterwards, and the rest of it.       *)
RunsAfter(a, ok, bound) ==
  IF OwnsRun(a) THEN [runs EXCEPT ![ActorRun(a)] = Ended(ActorRun(a), ok, bound)] ELSE runs

Leave(a) ==
  /\ ctl' = [ctl EXCEPT ![a] = Idle]
  /\ candidate' = IF a = "candidate" THEN "done" ELSE candidate

Close(a, ok, bound) == runs' = RunsAfter(a, ok, bound) /\ Leave(a)

(* Actor a moves on within its job. *)
Goto(a, next) == ctl' = [ctl EXCEPT ![a] = next] /\ UNCHANGED <<runs, candidate>>

(* The ledger, the clock, the branch and its pull request, in one action:  *)
(* a write between the first and the last of these reads can only cause a  *)
(* spurious freeze, which ends the job as JobDies does.                    *)
Load(a) ==
  /\ (ctl[a].at = "idle" /\ Ready(a)) \/ ctl[a].at = "reload"
  /\ IF Live
       THEN Goto(a, [at |-> "seen", chain |-> ctl[a].at = "idle", c |-> Current,
                     head |-> branch, pr |-> pr, over |-> overdue, grace |-> graceOver])
       ELSE Close(a, TRUE, FALSE)
  /\ UNCHANGED <<outcomes, starts, faults, world>>
  /\ NoRecord

(* Every request has a nonce of its own: the next attempt of its stage. *)
NextNonce(c, stage) == <<stage, c.attempts[stage] + 1>>

RecordFor(role, c, f, d) ==
  Ledger!RecordOf(Task, role, c, f, d, c.owner,
                  IF d.act = "resume" THEN NextNonce(c, d.what) ELSE NoNonce)

Propose(a, rec) ==
  IF Ledger!MayWrite(Role(a), rec)
    THEN Goto(a, [at |-> "append", rec |-> rec, chain |-> ctl[a].chain])
    ELSE Close(a, TRUE, FALSE)

Redispatch(a) ==
  IF Role(a) \in Ledger!ResumeRoles
    THEN Goto(a, [at |-> "dispatch", nonce |-> ctl[a].c.pending.nonce])
    ELSE Close(a, TRUE, FALSE)

Decide(a) ==
  /\ ctl[a].at = "seen"
  /\ \E f \in {Facts(ctl[a].c, ctl[a], Output(a))} :
       \E d \in {Ledger!Advance(ctl[a].c, f)} :
         \/ d.act = "noop" /\ Close(a, TRUE, FALSE)
         \/ d.act = "freeze" /\ Close(a, FALSE, FALSE)
         \/ d.act = "redispatch" /\ Redispatch(a)
         \/ /\ d.act \notin {"noop", "freeze", "redispatch"}
            /\ Propose(a, RecordFor(Role(a), ctl[a].c, f, d))
  /\ UNCHANGED <<outcomes, starts, faults, world>>
  /\ NoRecord

(* Ledger.append: the chain is loaded and verified again, and the record   *)
(* is refused (LedgerCorruptError, the job fails) unless that chain        *)
(* accepts it.  What the decision was made from is not compared with it.   *)
Bug_Admits(rec) == TRUE

Admits(rec) == Ledger!Accepted(view, rec)

Append(a) ==
  /\ ctl[a].at = "append"
  /\ \E rec \in {ctl[a].rec} :
       IF Admits(rec)
         THEN /\ Lands(rec)
              /\ CASE rec.kind = "resume_requested" ->
                        Goto(a, [at |-> "dispatch", nonce |-> rec.nonce])
                   [] rec.kind = "resume_abandoned" /\ ctl[a].chain -> Goto(a, [at |-> "reload"])
                   [] OTHER -> Close(a, TRUE, rec.kind = "transition" /\ rec.state = "RESULT_BOUND")
         ELSE NoRecord /\ Close(a, FALSE, FALSE)
  /\ UNCHANGED <<outcomes, starts, faults, world>>

Fault(kind) == kind \in Events /\ faults < MaxFaults /\ faults' = faults + 1

(* The push is not acknowledged: the record is on the chain or not, and    *)
(* the step ends as a no-op (FactsUnavailable), without any dispatch.      *)
AppendUnknown(a) ==
  /\ ctl[a].at = "append"
  /\ Fault("lost write")
  /\ NoRecord \/ (Admits(ctl[a].rec) /\ Lands(ctl[a].rec))
  /\ Close(a, TRUE, FALSE)
  /\ UNCHANGED <<outcomes, starts, world>>

(* _dispatch_resume: one more workflow run carrying the nonce. *)
Dispatch(a) ==
  LET free  == {r \in Run : NonceOf(r) = ctl[a].nonce /\ runs[r].job = "absent"}
      after == RunsAfter(a, TRUE, FALSE)
  IN  /\ ctl[a].at = "dispatch"
      /\ IF free = {} THEN runs' = after
         ELSE \E k \in 1 .. MaxCopies :
                LET r == <<ctl[a].nonce[1], ctl[a].nonce[2], k>>
                IN  /\ r \in free
                    /\ \A other \in free : k <= other[3]
                    /\ runs' = [after EXCEPT ![r].job = "sent"]
      /\ Leave(a)
      /\ UNCHANGED <<outcomes, starts, faults, world>>
      /\ NoRecord

----------------------------------------------------------------------------
(* The jobs that never write the ledger, and the two claims.               *)

EndJob(r, ok) == runs' = [runs EXCEPT ![r] = Ended(r, ok, FALSE)]

AuthorizedRec ==
  [kind |-> "transition", state |-> "AUTHORIZED", auth |-> Task, role |-> "authorize",
   run |-> LabelRun, offer |-> OfferFallback,
   parent |-> IF Remediation THEN Parent ELSE NoAuth,
   branch |-> IF Remediation THEN Parent ELSE Task]

(* authorize: the claim.  When its acknowledgement is lost the job fails   *)
(* and the model is never started.                                         *)
Authorize ==
  /\ runs[LabelRun].job = "authorize"
  /\ Admits(AuthorizedRec) /\ Lands(AuthorizedRec)
  /\ \/ EndJob(LabelRun, TRUE) /\ UNCHANGED faults
     \/ EndJob(LabelRun, FALSE) /\ Fault("lost write")
  /\ UNCHANGED <<outcomes, starts, candidate, ctl, world>>

(* resume-bind: the run claims its nonce, or refuses and ends.  The claim  *)
(* may land without its acknowledgement, or be lost.                       *)
BindResume(r) ==
  LET rec == [kind |-> "resume_bound", state |-> Current.state, auth |-> Task,
              role |-> "bind", nonce |-> NonceOf(r), run |-> r]
  IN  /\ runs[r].job = "resume-bind"
      /\ IF Live /\ Admits(rec)
           THEN \/ Lands(rec) /\ EndJob(r, TRUE) /\ UNCHANGED faults
                \/ (Lands(rec) \/ NoRecord) /\ EndJob(r, FALSE) /\ Fault("lost write")
           ELSE NoRecord /\ EndJob(r, FALSE) /\ UNCHANGED faults
      /\ UNCHANGED <<outcomes, starts, candidate, ctl, world>>

(* resume-bind when the bound control commit is no longer on main. *)
ControlGone(r) ==
  /\ "control gone" \in Events /\ runs[r].job = "resume-bind"
  /\ Live /\ NonceOf(r) = Current.pending.nonce /\ Current.pending.run = NoRun
  /\ Lands(Ledger!FailedBy(Task, "bind", Current, "CONTROL_SHA_NOT_ON_MAIN"))
  /\ EndJob(r, FALSE)
  /\ UNCHANGED <<outcomes, starts, candidate, ctl, faults, world>>

(* GitHub shows a dispatched run, and starts the runs of the Issue's       *)
(* resume group one at a time.                                             *)
Appear(r) ==
  /\ runs[r].job = "sent"
  /\ \/ runs' = [runs EXCEPT ![r].job = "queued"] /\ UNCHANGED faults
     \/ runs' = [runs EXCEPT ![r].job = "lost"] /\ Fault("lost dispatch")
  /\ UNCHANGED <<outcomes, starts, candidate, ctl, world>>
  /\ NoRecord

Begin(r) ==
  /\ runs[r].job = "queued"
  /\ \A other \in Run \ {LabelRun} : ~Executing(other)
  /\ runs' = [runs EXCEPT ![r].job = "resume-bind"]
  /\ UNCHANGED <<outcomes, starts, candidate, ctl, faults, world>>
  /\ NoRecord

(* The work of a job is started once more: a model, a validation or a      *)
(* publication.                                                            *)
Started(job) ==
  CASE job = "execute"          -> [starts EXCEPT !.primary = @ + 1]
    [] job = "execute-fallback" -> [starts EXCEPT !.fallback = @ + 1]
    [] job = "validate"         -> [starts EXCEPT !.validation = @ + 1]
    [] job = "publish"          -> [starts EXCEPT !.publication = @ + 1]
    [] OTHER                    -> starts

(* run_executor: the model runs only in the run the ledger names for the   *)
(* current attempt.                                                        *)
AwaitsExecution(r) ==
  /\ Live
  /\ \/ Current.state = "AUTHORIZED" /\ Current.owner = r
     \/ Current.state = "FALLBACK_AUTHORIZED" /\ Current.pending.run = r

(* What the executor job may do: the primary runs the model or fails; the  *)
(* fallback may also end before its session starts.  It leaves a sealed    *)
(* result, one that does not open under its binding, or none, and reports  *)
(* nothing, an admissible provider failure, its attestation, or that no    *)
(* session started.                                                        *)
ExecutorOutcomes(r) ==
  LET ran(output, left) == [started : {TRUE}, output : {output}, artifact : left]
      refused(output)   == [started : {FALSE}, output : {output}, artifact : {"none"}]
      anyResult         == {"sealed", "corrupt", "none"}
  IN  IF r = LabelRun
        THEN IF AwaitsExecution(r) THEN ran("silent", anyResult) \cup ran("signal", {"none"})
                                   ELSE refused("silent")
        ELSE refused("nosession")
               \cup (IF AwaitsExecution(r) THEN ran("attested", anyResult) ELSE {})

Execute(r) ==
  /\ runs[r].job \in ExecutorJobs
  /\ \E o \in ExecutorOutcomes(r) :
       /\ runs' = [runs EXCEPT ![r] = [Ended(r, TRUE, FALSE) EXCEPT !.output = o.output,
                                                                   !.artifact = o.artifact]]
       /\ starts' = IF o.started THEN Started(runs[r].job) ELSE starts
  /\ UNCHANGED <<outcomes, candidate, ctl, faults, world>>
  /\ NoRecord

Upload(r, stage, verdict) ==
  outcomes' = outcomes \cup
    {[run |-> r, stage |-> stage, attempt |-> Current.attempts[stage] + 1, verdict |-> verdict]}

(* validate: the receipt of the bound result, PASS or REFUSED. *)
AwaitsValidation == Live /\ Current.state = "RESULT_BOUND" /\ runs[Current.result].artifact = "sealed"

Validate(r) ==
  /\ runs[r].job = "validate"
  /\ starts' = Started("validate")
  /\ IF AwaitsValidation
       THEN EndJob(r, TRUE) /\ \E verdict \in {"PASS", "REFUSED"} : Upload(r, "validation", verdict)
       ELSE EndJob(r, FALSE) /\ UNCHANGED outcomes
  /\ UNCHANGED <<candidate, ctl, faults, world>>
  /\ NoRecord

(* publish: the platform contract is refused for good, or the ledger is    *)
(* checked; only then is the validated commit pushed.                      *)
PublishRefused(r) ==
  /\ "refusal" \in Events /\ runs[r].job = "publish"
  /\ Live
  /\ Upload(r, "publication", "REFUSED")
  /\ EndJob(r, TRUE)
  /\ starts' = Started("publish")
  /\ UNCHANGED <<candidate, ctl, faults, world>>
  /\ NoRecord

Bug_AwaitsPublication == Live /\ Current.result # NoDigest

AwaitsPublication == Live /\ Current.state = "VALIDATED" /\ runs[Current.result].artifact = "sealed"

PublishCheck(r) ==
  /\ runs[r].job = "publish"
  /\ starts' = Started("publish")
  /\ IF AwaitsPublication THEN runs' = [runs EXCEPT ![r].job = "push"] ELSE EndJob(r, FALSE)
  /\ UNCHANGED <<outcomes, candidate, ctl, faults, world>>
  /\ NoRecord

(* publish_bound_create_only, and publish_bound_fast_forward for a         *)
(* remediation: the push is leased on the expected head; a branch already  *)
(* at the commit is success, and any other head is a conflict.             *)
LeasedOn == IF Remediation THEN ParentHead ELSE NoDigest

Bug_LeaseHolds == TRUE

LeaseHolds == branch \in {LeasedOn, Current.result}

Push(r) ==
  /\ runs[r].job = "push"
  /\ EndJob(r, TRUE)
  /\ IF LeaseHolds
       THEN branch' = Current.result /\ UNCHANGED outcomes
       ELSE UNCHANGED branch /\ Upload(r, "publication", "REFUSED")
  /\ UNCHANGED <<starts, pr, preflight, candidate, ctl, faults>>
  /\ NoRecord

----------------------------------------------------------------------------
(* The candidate-PR workflow, the owner, time and failures.                *)

PreflightCompletes ==
  /\ branch \notin {NoDigest, ParentHead}
  /\ preflight = "none"
  /\ preflight' \in {"success", "failure"}
  /\ candidate' = "gate"
  /\ UNCHANGED <<runs, outcomes, starts, branch, pr, ctl, faults>>
  /\ NoRecord

(* candidate-gate: only for the head the ledger recorded as PUBLISHED. *)
PublishedHead == Live /\ Current.state = "PUBLISHED" /\ Current.head = branch

Gate ==
  /\ candidate = "gate"
  /\ candidate' = IF PublishedHead THEN (IF preflight = "success" THEN "open" ELSE "record")
                                   ELSE "done"
  /\ UNCHANGED <<runs, outcomes, starts, ctl, faults, world>>
  /\ NoRecord

OpenPR ==
  /\ candidate = "open"
  /\ candidate' = "record"
  /\ pr' = branch
  /\ UNCHANGED <<runs, outcomes, starts, branch, preflight, ctl, faults>>
  /\ NoRecord

(* owner_decision: the owner's label run, serialised with the label run of *)
(* the authorization, on a fallback that nothing is pending for.           *)
AwaitsOwner == Live /\ Current.state = "FALLBACK_AUTHORIZED" /\ Current.pending.stage = "none"

OwnerMayDecide == AwaitsOwner /\ runs[LabelRun].job = "done" /\ ctl["owner"] = Idle

Approve ==
  /\ OwnerMayDecide
  /\ Current.attempts["fallback"] < MaxFallback
  /\ Lands(Ledger!Requested(Task, "owner-decision", Current, "fallback", NextNonce(Current, "fallback")))
  /\ \/ /\ ctl' = [ctl EXCEPT !["owner"] =
                     [at |-> "dispatch", nonce |-> NextNonce(Current, "fallback")]]
        /\ UNCHANGED faults
     \/ UNCHANGED ctl /\ Fault("lost write")
  /\ UNCHANGED <<runs, outcomes, starts, candidate, world>>

Reject ==
  /\ OwnerMayDecide
  /\ Lands(Ledger!FailedBy(Task, "owner-decision", Current, "OWNER_WITHDREW"))
  /\ UNCHANGED <<runs, outcomes, starts, candidate, ctl, faults, world>>

DeadlinePasses ==
  /\ "deadline" \in Events /\ Live /\ ~overdue /\ overdue' = TRUE
  /\ UNCHANGED <<view, runs, outcomes, starts, candidate, graceOver, ctl, faults, world>>

(* A dispatched run appears within the grace period, unless GitHub is slow.*)
GracePasses ==
  /\ Live /\ Current.pending.stage # "none" /\ Current.pending.run = NoRun
  /\ \/ "slow dispatch" \in Events
     \/ \A r \in Run : NonceOf(r) = Current.pending.nonce => runs[r].job # "sent"
  /\ ~graceOver /\ graceOver' = TRUE
  /\ UNCHANGED <<view, runs, outcomes, starts, candidate, overdue, ctl, faults, world>>

(* Artifacts are retained for a day, well past the publish deadline. *)
ArtifactExpires(r) ==
  /\ "expiry" \in Events /\ overdue /\ runs[r].artifact = "sealed"
  /\ runs' = [runs EXCEPT ![r].artifact = "expired"]
  /\ UNCHANGED <<outcomes, starts, candidate, ctl, faults, world>>
  /\ NoRecord

ForeignPush ==
  /\ "foreign push" \in Events /\ branch = NoDigest /\ branch' = ForeignHead
  /\ UNCHANGED <<runs, outcomes, starts, pr, preflight, candidate, ctl, faults>>
  /\ NoRecord

(* A job dies (runner lost, timeout, cancelled) wherever it is; an executor*)
(* job before or after it launched its model.                              *)
JobDies(a) ==
  /\ Fault("dead job")
  /\ OwnsRun(a) => Job(a) \notin {"none", "done"}
  /\ a = "candidate" => candidate \in {"gate", "open", "record"}
  /\ a \in {"reconcile", "owner"} => ctl[a] # Idle
  /\ runs' = IF OwnsRun(a)
               THEN [runs EXCEPT ![ActorRun(a)] =
                       [Ended(ActorRun(a), FALSE, FALSE) EXCEPT
                          !.output = IF Job(a) \in ExecutorJobs THEN "silent" ELSE @]]
               ELSE runs
  /\ ctl' = [ctl EXCEPT ![a] = Idle]
  /\ candidate' = IF a = "candidate" THEN (IF candidate = "open" THEN "record" ELSE "done")
                                     ELSE candidate
  /\ \/ /\ starts' = IF OwnsRun(a) THEN Started(Job(a)) ELSE starts
        /\ Job(a) \in ExecutorJobs => AwaitsExecution(ActorRun(a))
     \/ Job(a) \in ExecutorJobs /\ UNCHANGED starts
  /\ UNCHANGED <<outcomes, world>>
  /\ NoRecord

----------------------------------------------------------------------------
(* The system.                                                             *)

(* A remediation starts from its parent's completed chain, published head  *)
(* and open pull request.                                                  *)
CompletedParent ==
  [Ledger!Unclaimed EXCEPT
     !.state = "COMPLETED", !.owner = LabelRun, !.branch = Parent, !.result = ParentHead,
     !.validated = ParentHead, !.commit = ParentHead, !.head = ParentHead, !.prHead = ParentHead,
     !.identity = [execution |-> 1, result |-> ParentHead, commit |-> ParentHead]]

Init ==
  /\ view = IF Remediation
              THEN [Ledger!EmptyView EXCEPT !.claimed = {Parent}, !.auths[Parent] = CompletedParent]
              ELSE Ledger!EmptyView
  /\ runs = [r \in Run |-> [job |-> IF r = LabelRun THEN "authorize" ELSE "absent",
                            valid |-> FALSE, output |-> "unset", artifact |-> "none"]]
  /\ outcomes = {}
  /\ starts = [primary |-> 0, fallback |-> 0, validation |-> 0, publication |-> 0]
  /\ branch = LeasedOn
  /\ pr = LeasedOn
  /\ preflight = "none"
  /\ candidate = "none"
  /\ overdue = FALSE
  /\ graceOver = FALSE
  /\ ctl = [a \in Actor |-> Idle]
  /\ faults = 0

Control(a) == Load(a) \/ Decide(a) \/ Append(a) \/ AppendUnknown(a) \/ Dispatch(a)

JobStep(r) ==
  \/ BindResume(r) \/ ControlGone(r) \/ Appear(r) \/ Begin(r) \/ Execute(r)
  \/ Validate(r) \/ PublishRefused(r) \/ PublishCheck(r) \/ Push(r)

CandidateStep == PreflightCompletes \/ Gate \/ OpenPR

Clock == DeadlinePasses \/ GracePasses

(* Only the completion window is relied on to close: before PUBLISHED the  *)
(* deadline may pass at any moment, and nothing may wait for it.           *)
CompletionDeadline == DeadlinePasses /\ Current.state = "PUBLISHED"

Next ==
  \/ Authorize
  \/ \E a \in Actor : Control(a)
  \/ \E r \in Run : JobStep(r)
  \/ CandidateStep
  \/ Approve
  \/ Reject
  \/ Clock
  \/ \E r \in Run : ArtifactExpires(r)
  \/ ForeignPush
  \/ \E a \in Actor : JobDies(a)

(* Everything but the cron happens finitely often, so that one weak        *)
(* fairness condition is fair to each of its parts.                        *)
Progress ==
  \/ Authorize
  \/ \E a \in Actor \ {"reconcile"} : Control(a)
  \/ \E r \in Run : JobStep(r)
  \/ CandidateStep
  \/ CompletionDeadline
  \/ GracePasses

(* Runners execute queued jobs, time passes, and the reconcile cron fires  *)
(* again and again.  Nothing is assumed of the owner or of faults.         *)
Fairness == WF_vars(Progress) /\ WF_vars(Control("reconcile"))

Spec == Init /\ [][Next]_vars /\ Fairness

----------------------------------------------------------------------------
(* Properties.                                                             *)

(* ADR 0041 F1: "the model is never re-dispatched, except for at most one  *)
(* launched Codex fallback execution per authorization": neither model is  *)
(* ever launched twice, whatever is lost, late or approved again.  The     *)
(* code breaks it: an abandonment names the pending nonce only, so one     *)
(* decided on a first copy that concluded lands on a second copy's claim.  *)
ModelRunsOnce == starts["primary"] <= 1 /\ starts["fallback"] <= 1

(* What the code does guarantee: resume_bound claims a nonce once, so the  *)
(* late runs and the second dispatches of one approval together launch the *)
(* fallback model at most once, and the primary is never repeated.         *)
OneLaunchPerApproval ==
  starts["primary"] <= 1 /\ starts["fallback"] <= Current.attempts["fallback"]

(* The execution branch only ever carries the commit of a result that the  *)
(* trusted validator passed and whose validation is on the ledger, also    *)
(* when the publisher's check and its push straddle other writers, and     *)
(* also when the authorization fails afterwards.                           *)
PublishedIsValidated ==
  branch \in Run =>
    /\ Current.validated = branch /\ Current.commit = branch
    /\ \E o \in outcomes : o.stage = "validation" /\ o.verdict = "PASS"

(* A completed authorization is completed on GitHub: the ledger's head is  *)
(* the branch's head, a Draft pull request is open at it and its preflight *)
(* succeeded.                                                              *)
CompletedIsReal ==
  Current.state = "COMPLETED" =>
    Current.prHead = branch /\ pr = branch /\ preflight = "success"

(* The stage jobs are started within their caps, first attempts, resumes,  *)
(* abandoned resumes and duplicate runs together: at most two validations  *)
(* and three publications.                                                 *)
StageBudget == starts["validation"] <= 2 /\ starts["publication"] <= 3

(* No head on the execution branch is ever replaced, but the parent's that *)
(* a remediation fast-forwards: a duplicate publisher finds its own        *)
(* commit, and a foreign head is left alone.                               *)
NothingOverwritten == [][branch \notin {NoDigest, LeasedOn} => branch' = branch]_vars

(* Ledger.append raises LedgerCorruptError, which fails the job and ends a *)
(* reconcile pass, only at a record whose authorization another writer     *)
(* moved meanwhile: what advance decides on an authorization as it stands, *)
(* and _evidence makes of it, is what apply_record accepts.                *)
FreshIsAccepted ==
  [][\A a \in Actor :
       ctl[a].at = "seen" /\ ctl[a].c = Current /\ ctl'[a].at = "append" =>
         Ledger!Accepted(view, ctl'[a].rec)]_vars

(* Whatever the control jobs interleave, the Issue's states follow the     *)
(* abstract state machine: a record decided from facts that are stale by   *)
(* the time it lands is still a legal move, and a terminal state is final. *)
ImplementsStateMachine == Ledger!ImplementsStateMachine

Settled == ~Live \/ AwaitsOwner

(* The lifecycle always comes to rest, on a terminal record or on the      *)
(* owner's fallback decision: no lost write, lost dispatch, dead job or    *)
(* abandoned resume leaves an authorization active for ever, and nothing   *)
(* before PUBLISHED has to wait for a deadline: a resume whose dispatch    *)
(* was lost is dispatched again, and resumes whose runs end without an     *)
(* outcome are abandoned until the cap fails them.                         *)
Settles == <>[](~Live \/ AwaitsOwner)
=============================================================================
