--------------------- MODULE IssueAgentLifecycleProofs ---------------------
(***************************************************************************)
(* Proofs about the lifecycle, for every set of events, every number of    *)
(* faults, of approvals and of workflow runs carrying one nonce.           *)
(*                                                                         *)
(* The ledger's own invariant is taken from IssueLedgerProofs.  What is    *)
(* added here relates it to what the runs, the control steps and GitHub    *)
(* hold of it: a record that is about to be appended, although decided     *)
(* from facts that may be stale, still carries true evidence; a nonce is   *)
(* claimed by one run; and every start of a stage job spends an attempt    *)
(* the ledger counted.                                                     *)
(***************************************************************************)
EXTENDS IssueAgentLifecycle, TLAPS

LP == INSTANCE IssueLedgerProofs

----------------------------------------------------------------------------
(* The authorization and its evidence.                                     *)

PassUploaded == \E o \in outcomes : o.stage = "validation" /\ o.verdict = "PASS"

(* What one snapshot of the authorization says of itself: the nonce of a   *)
(* pending resume is the attempt counted for it, claimed by a run that     *)
(* carries it; the result is named by the run whose executor produced it;  *)
(* and the validated commit and the published head are that result's.      *)
Consistent(c) ==
  /\ c \in LP!AuthView
  /\ IF c.pending.stage = "none"
       THEN c.pending = Ledger!NoPending
       ELSE c.pending.nonce = <<c.pending.stage, c.attempts[c.pending.stage]>>
              /\ c.pending.nonce \in Nonce
  /\ c.pending.run # NoRun => c.pending.run # LabelRun /\ NonceOf(c.pending.run) = c.pending.nonce
  /\ c.state = "NONE" => c.attempts["fallback"] = 0
  /\ c.state # "NONE" => c.owner \in Run
  /\ c.state = "AUTHORIZED" => c.owner = LabelRun
  /\ c.state \in Ledger!ResultStates => c.result \in Run
  /\ c.state \in {"VALIDATED", "PUBLISHED", "COMPLETED"} =>
       c.validated = c.result /\ c.commit = c.result
  /\ c.state \in {"PUBLISHED", "COMPLETED"} => c.head = c.result

(* The result that may be on the branch: validated, with its PASS uploaded,*)
(* and past every state in which another result could be bound.            *)
Validated(c) ==
  /\ c.state \in {"VALIDATED", "PUBLISHED", "COMPLETED", "FAILED"}
  /\ c.result \in Run /\ c.validated = c.result /\ c.commit = c.result
  /\ PassUploaded

(* The authorization against GitHub. *)
WorldAgrees(c) ==
  /\ c.state \in {"VALIDATED", "PUBLISHED", "COMPLETED"} => Validated(c)
  /\ branch \in Run => Validated(c) /\ branch = c.result
  /\ pr \in Run => pr = branch
  /\ c.state \in {"PUBLISHED", "COMPLETED"} => c.head = branch
  /\ c.state = "COMPLETED" => c.prHead = branch /\ pr = branch /\ preflight = "success"

(* A record carries true evidence: it names the run it speaks of, and what *)
(* it says of the validation, the branch and the pull request is so.       *)
Truthful(rec) ==
  /\ rec \in LP!Record /\ rec.auth = Task
  /\ rec.kind = "resume_requested" => rec.nonce = <<rec.stage, rec.attempt>>
  /\ rec.kind = "resume_bound" => rec.run # LabelRun /\ NonceOf(rec.run) = rec.nonce
  /\ rec.kind = "transition" =>
       /\ rec.state = "AUTHORIZED" => rec.run = LabelRun
       /\ rec.state = "RESULT_BOUND" => rec.result \in Run
       /\ rec.state = "VALIDATED" => rec.commit = rec.result /\ PassUploaded
       /\ rec.state = "PUBLISHED" => rec.head \in Run /\ rec.head = branch
       /\ rec.state = "COMPLETED" =>
            rec.head \in Run /\ rec.head = branch /\ rec.head = pr /\ preflight = "success"

(* A control step: what it has read of the branch and the pull request     *)
(* still holds when it was the head of a result.                           *)
StepAgrees(x) ==
  /\ x.at = "seen" =>
       /\ Consistent(x.c) /\ x.c.state \in Ledger!LiveStates
       /\ x.head \in Run => x.head = branch
       /\ x.pr \in Run => x.pr = pr
  /\ x.at = "append" => Truthful(x.rec) /\ x.rec.kind # "resume_bound"

EvidenceInv ==
  /\ LP!Inv
  /\ Consistent(Current)
  /\ WorldAgrees(Current)
  /\ \A a \in Actor : StepAgrees(ctl[a])
  /\ \A r \in Run : runs[r].job = "push" => Validated(Current)

----------------------------------------------------------------------------
(* The runs and what they have started.                                    *)

FirstAttempt(r) == r[1] \notin {"validation", "publication"}

LabelJobs ==
  {"authorize", "execute", "bind", "validate", "record-validation", "publish", "push",
   "finalize", "done"}

StageJobs(stage) ==
  CASE stage = "validation"  -> {"validate", "record-validation"}
    [] stage = "publication" -> {"record-validation", "publish", "push"}
    [] OTHER -> {"execute-fallback", "bind-fallback", "validate", "record-validation",
                 "publish", "push"}

JobsOf(r) ==
  IF r = LabelRun THEN LabelJobs
  ELSE Invisible \cup {"queued", "resume-bind", "finalize", "done"} \cup StageJobs(r[1])

Jobs == LabelJobs \cup Invisible \cup {"queued", "resume-bind", "execute-fallback", "bind-fallback"}

RunState ==
  [job : Jobs, valid : BOOLEAN, output : {"unset", "silent", "signal", "attested", "nosession"},
   artifact : {"none", "sealed", "corrupt", "expired"}]

(* The jobs of a run whose validate job has succeeded. *)
PastValidation == {"record-validation", "publish", "push", "finalize", "done"}

GoodRun(r, e) ==
  e \in RunState /\ e.job \in JobsOf(r) /\ (e.valid => e.job \in PastValidation)

RunsTyped ==
  /\ runs \in [Run -> RunState]
  /\ \A r \in Run : GoodRun(r, runs[r])

StartsTyped == starts \in [primary : Nat, fallback : Nat, validation : Nat, publication : Nat]

(* One resume run executes at a time, and the control step of a run is     *)
(* that of its current job.                                                *)
StepsPlaced ==
  /\ DOMAIN ctl = Actor
  /\ \A r, q \in Run \ {LabelRun} : Executing(r) /\ Executing(q) => r = q
  /\ ctl["label"].at # "idle" => runs[LabelRun].job \in StepJobs
  /\ ctl["resume"].at # "idle" => \E r \in Run \ {LabelRun} : runs[r].job \in StepJobs

(* A run that has claimed its nonce and still works on it. *)
Claimed(r) == r # LabelRun /\ runs[r].job \notin Waiting \cup {"resume-bind", "done"}

(* A nonce some run may still claim. *)
Claimable(c, n) ==
  c.attempts[n[1]] < n[2] \/ (c.pending.nonce = n /\ c.pending.run = NoRun)

OneClaim ==
  /\ \A r \in Run \ {LabelRun} : Claimed(r) => ~Claimable(Current, NonceOf(r))
  /\ \A r, q \in Run : Claimed(r) /\ Claimed(q) /\ NonceOf(r) = NonceOf(q) => r = q
  /\ Current.pending.run # NoRun =>
       runs[Current.pending.run].job \notin Waiting \cup {"resume-bind"}

(* The first attempt at the stage jobs belongs to the one run whose bind   *)
(* job recorded the result.                                                *)
Unbound(c) == c.state \in {"NONE", "AUTHORIZED", "FALLBACK_AUTHORIZED"}

Bearer(r) == FirstAttempt(r) /\ (runs[r].job = "validate" \/ runs[r].valid)

OneBearer ==
  /\ Unbound(Current) => \A r \in Run : ~Bearer(r)
  /\ \A r, q \in Run : Bearer(r) /\ Bearer(q) => r = q
  /\ \A r \in Run : FirstAttempt(r) /\ runs[r].job \in {"publish", "push"} => runs[r].valid

(* The fallback may still be started under the attempt that is pending. *)
Unlaunched(c) ==
  c.pending.stage = "fallback"
    /\ (c.pending.run = NoRun \/ runs[c.pending.run].job = "execute-fallback")

PrimaryCounted ==
  /\ runs[LabelRun].job \in {"authorize", "execute"} => starts.primary = 0
  /\ starts.primary <= 1

FallbackCounted ==
  starts.fallback + (IF Unlaunched(Current) THEN 1 ELSE 0) <= Current.attempts["fallback"]

(* The first attempt at a stage, or the attempt of a nonce, is over for    *)
(* good once no run is ahead of the stage's job any more; every start of   *)
(* that job has brought about one of these.                                *)
FirstOver(ahead) == ~Unbound(Current) /\ \A r \in ahead : ~FirstAttempt(r)

NonceOver(n, ahead) ==
  ~Claimable(Current, n) /\ \A r \in ahead : ~(r # LabelRun /\ NonceOf(r) = n)

Validating == {r \in Run : runs[r].job = "validate"}

PublishingFirst ==
  {r \in Run : \/ runs[r].job = "validate"
               \/ runs[r].valid /\ runs[r].job \in {"record-validation", "publish"}}

PublishingAgain == {r \in Run : runs[r].job \in {"record-validation", "publish"}}

Count(over) == IF over THEN 1 ELSE 0

ValidationCounted ==
  starts.validation <= Count(FirstOver(Validating))
                         + Count(NonceOver(<<"validation", 1>>, Validating))

PublicationCounted ==
  starts.publication <= Count(FirstOver(PublishingFirst))
                          + Count(NonceOver(<<"publication", 1>>, PublishingAgain))
                          + Count(NonceOver(<<"publication", 2>>, PublishingAgain))

LaunchInv ==
  /\ StartsTyped /\ OneClaim /\ OneBearer
  /\ PrimaryCounted /\ FallbackCounted /\ ValidationCounted /\ PublicationCounted

(* The inductive invariant. *)
Inv == RunsTyped /\ StepsPlaced /\ EvidenceInv /\ LaunchInv

----------------------------------------------------------------------------
(* The constants of the lifecycle, as the ledger's proofs need them.       *)

LEMMA LedgerAssumptions == LP!NullsAssumption /\ LP!BoundAssumption
<1>1. NoAuth \notin Auth
  BY DEF NoAuth, Auth, Task, Parent
<1>2. NoRun \notin Run
  BY DEF NoRun, Run, LabelRun, Nonce, ResumeRun
<1>3. NoNonce \notin Nonce
  BY DEF NoNonce, Nonce, ResumeRun
<1>4. NoDigest \notin Digest
  BY DEF NoDigest, Digest, Run, LabelRun, Nonce, ResumeRun, ForeignHead, ParentHead
<1>5. MaxAttempt \in Nat
  BY LifecycleAssumption DEF MaxAttempt
<1>6. QED
  BY <1>1, <1>2, <1>3, <1>4, <1>5 DEF LP!NullsAssumption, LP!BoundAssumption

LEMMA Authorizations == Task \in Auth /\ NoAuth \notin Auth
  BY DEF Task, Parent, Auth, NoAuth

LEMMA Runs ==
  /\ LabelRun \in Run /\ FirstAttempt(LabelRun)
  /\ Run \subseteq Digest /\ NoRun \notin Run
  /\ NoDigest \notin Run /\ ParentHead \notin Run /\ ForeignHead \notin Run
  BY DEF Run, LabelRun, FirstAttempt, Digest, NoRun, NoDigest, ParentHead, ForeignHead,
         Nonce, ResumeRun

LEMMA Nonces ==
  ASSUME NEW n \in Nonce
  PROVE  /\ n = <<n[1], n[2]>> /\ n[1] \in LP!Stages /\ n[2] \in Nat
         /\ n[1] = "validation" => n = <<"validation", 1>>
         /\ n[1] = "publication" => n = <<"publication", 1>> \/ n = <<"publication", 2>>
<1>1. CASE n \in {<<"validation", 1>>, <<"publication", 1>>, <<"publication", 2>>}
  <2>1. CASE n = <<"validation", 1>>
    BY <2>1 DEF LP!Stages
  <2>2. CASE n = <<"publication", 1>>
    BY <2>2 DEF LP!Stages
  <2>3. CASE n = <<"publication", 2>>
    BY <2>3 DEF LP!Stages
  <2>4. QED
    BY <1>1, <2>1, <2>2, <2>3
<1>2. CASE n \in {"fallback"} \X (1 .. MaxFallback)
  <2>1. PICK k \in 1 .. MaxFallback : n = <<"fallback", k>>
    BY <1>2
  <2>2. n[1] = "fallback" /\ n[2] = k
    BY <2>1
  <2>5. MaxFallback \in Nat
    BY LifecycleAssumption
  <2>6. k \in Nat
    BY <2>5
  <2>3. n[1] # "validation" /\ n[1] # "publication"
    BY <2>2
  <2>4. QED
    BY <2>1, <2>2, <2>3, <2>6 DEF LP!Stages
<1>3. QED
  BY <1>1, <1>2 DEF Nonce, ResumeRun

(* A resume run carries a nonce of its stage. *)
LEMMA ResumeRuns ==
  ASSUME NEW r \in Run, r # LabelRun
  PROVE  /\ NonceOf(r) \in Nonce /\ NonceOf(r)[1] = r[1] /\ NonceOf(r)[2] = r[2]
         /\ r[1] \in LP!Stages
<1>1. PICK n \in Nonce, k \in 1 .. MaxCopies : r = <<n[1], n[2], k>>
  BY DEF Run
<1>2. NonceOf(r) = n /\ r[1] = n[1] /\ r[2] = n[2]
  BY <1>1, Nonces DEF NonceOf
<1>3. QED
  BY <1>2, Nonces

LEMMA SameLedger ==
  /\ Ledger!NoPending = LP!NoPending /\ Ledger!Unclaimed = LP!Unclaimed
  /\ Ledger!EmptyView = LP!EmptyView
  /\ Ledger!LiveStates = LP!LiveStates /\ Ledger!ResultStates = LP!ResultStates
  /\ \A v, r : Ledger!Accepted(v, r) <=> LP!Accepted(v, r)
  /\ \A v, r : Ledger!Fold(v, r) = LP!Fold(v, r)
<1>1. /\ Ledger!NoPending = LP!NoPending
      /\ Ledger!LiveStates = LP!LiveStates /\ Ledger!ResultStates = LP!ResultStates
  BY DEF Ledger!NoPending, LP!NoPending, Ledger!LiveStates, LP!LiveStates,
         Ledger!ResultStates, LP!ResultStates
<1>2. Ledger!Unclaimed = LP!Unclaimed
  BY <1>1 DEF Ledger!Unclaimed, LP!Unclaimed, Ledger!Stages, LP!Stages,
              Ledger!NoIdentity, LP!NoIdentity
<1>3. Ledger!EmptyView = LP!EmptyView
  BY <1>2 DEF Ledger!EmptyView, LP!EmptyView
<1>4. \A v, r : Ledger!Accepted(v, r) <=> LP!Accepted(v, r)
  BY DEF Ledger!Accepted, LP!Accepted, Ledger!TransitionAccepted, LP!TransitionAccepted,
         Ledger!ResumeAccepted, LP!ResumeAccepted, Ledger!LegalTransitions, LP!LegalTransitions,
         Ledger!WriterRoles, LP!WriterRoles, Ledger!Roles, LP!Roles,
         Ledger!ClaimIsFresh, LP!ClaimIsFresh, Ledger!AuthorizedBindings, LP!AuthorizedBindings,
         Ledger!CrossBindings, LP!CrossBindings, Ledger!ExecutionId, LP!ExecutionId,
         Ledger!RequestAccepted, LP!RequestAccepted, Ledger!NamesPendingNonce, LP!NamesPendingNonce,
         Ledger!WithinCap, LP!WithinCap, Ledger!StageCap, LP!StageCap,
         Ledger!StageState, LP!StageState, Ledger!ResumeRoles, LP!ResumeRoles
<1>5. \A v, r : Ledger!Fold(v, r) = LP!Fold(v, r)
  BY <1>1 DEF Ledger!Fold, LP!Fold, Ledger!ClaimedAfter, LP!ClaimedAfter,
              Ledger!ActiveAfter, LP!ActiveAfter, Ledger!TerminalStates, LP!TerminalStates,
              Ledger!FoldTransition, LP!FoldTransition, Ledger!FoldEvidence, LP!FoldEvidence,
              Ledger!FoldResume, LP!FoldResume
<1>6. QED
  BY <1>1, <1>2, <1>3, <1>4, <1>5

----------------------------------------------------------------------------
(* What a record makes of the authorization it names.                      *)

TransitionEffect(c, d, rec) ==
  /\ d.state = rec.state /\ d.pending = LP!NoPending /\ d.attempts = c.attempts
  /\ d.owner = IF rec.state = "AUTHORIZED" THEN rec.run ELSE c.owner
  /\ d.result = IF rec.state = "RESULT_BOUND" THEN rec.result ELSE c.result
  /\ d.validated = IF rec.state = "VALIDATED" THEN rec.result ELSE c.validated
  /\ d.commit = IF rec.state = "VALIDATED" THEN rec.commit ELSE c.commit
  /\ d.head = IF rec.state = "PUBLISHED" THEN rec.head ELSE c.head
  /\ d.prHead = IF rec.state = "COMPLETED" THEN rec.head ELSE c.prHead

ResumeEffect(c, d, rec) ==
  /\ d.state = c.state /\ d.result = c.result /\ d.validated = c.validated
  /\ d.commit = c.commit /\ d.head = c.head /\ d.prHead = c.prHead
  /\ d.owner = IF rec.kind = "resume_bound" THEN rec.run ELSE c.owner
  /\ d.attempts = IF rec.kind = "resume_requested"
                    THEN [c.attempts EXCEPT ![rec.stage] = rec.attempt] ELSE c.attempts
  /\ rec.kind = "resume_requested" =>
       d.pending = [stage |-> rec.stage, nonce |-> rec.nonce, attempt |-> rec.attempt,
                    run |-> NoRun]
  /\ rec.kind = "resume_abandoned" => d.pending = LP!NoPending
  /\ rec.kind = "resume_bound" => d.pending = [c.pending EXCEPT !.run = rec.run]

LEMMA TransitionFields ==
  ASSUME NEW c \in LP!AuthView, NEW rec \in LP!Record
  PROVE  TransitionEffect(c, LP!FoldTransition(c, rec), rec)
<1> DEFINE d == LP!FoldTransition(c, rec)
<1>1. CASE rec.state = "AUTHORIZED"
  <2>1. d = [c EXCEPT !.owner = rec.run, !.offer = rec.offer, !.parent = rec.parent,
                            !.branch = rec.branch, !.state = rec.state, !.pending = LP!NoPending]
    BY <1>1 DEF LP!FoldTransition, LP!FoldEvidence
  <2>2. QED
    BY <1>1, <2>1 DEF LP!AuthView, TransitionEffect
<1>2. CASE rec.state = "FALLBACK_AUTHORIZED"
  <2>1. d = [c EXCEPT !.admitted = TRUE, !.state = rec.state, !.pending = LP!NoPending]
    BY <1>2 DEF LP!FoldTransition, LP!FoldEvidence
  <2>2. QED
    BY <1>2, <2>1 DEF LP!AuthView, TransitionEffect
<1>3. CASE rec.state = "RESULT_BOUND"
  <2>1. d = [c EXCEPT !.fromFallback = rec.fallback, !.result = rec.result,
                            !.state = rec.state, !.pending = LP!NoPending]
    BY <1>3 DEF LP!FoldTransition, LP!FoldEvidence
  <2>2. QED
    BY <1>3, <2>1 DEF LP!AuthView, TransitionEffect
<1>4. CASE rec.state = "VALIDATED"
  <2>1. d = [c EXCEPT !.validated = rec.result, !.commit = rec.commit,
                            !.state = rec.state, !.pending = LP!NoPending]
    BY <1>4 DEF LP!FoldTransition, LP!FoldEvidence
  <2>2. QED
    BY <1>4, <2>1 DEF LP!AuthView, TransitionEffect
<1>5. CASE rec.state = "PUBLISHED"
  <2>1. d = [c EXCEPT !.identity = rec.identity, !.head = rec.head,
                            !.state = rec.state, !.pending = LP!NoPending]
    BY <1>5 DEF LP!FoldTransition, LP!FoldEvidence
  <2>2. QED
    BY <1>5, <2>1 DEF LP!AuthView, TransitionEffect
<1>6. CASE rec.state = "COMPLETED"
  <2>1. d = [c EXCEPT !.prHead = rec.head, !.state = rec.state, !.pending = LP!NoPending]
    BY <1>6 DEF LP!FoldTransition, LP!FoldEvidence
  <2>2. QED
    BY <1>6, <2>1 DEF LP!AuthView, TransitionEffect
<1>7. CASE rec.state \notin {"AUTHORIZED", "FALLBACK_AUTHORIZED", "RESULT_BOUND", "VALIDATED",
                             "PUBLISHED", "COMPLETED"}
  <2>1. d = [c EXCEPT !.state = rec.state, !.pending = LP!NoPending]
    BY <1>7 DEF LP!FoldTransition, LP!FoldEvidence
  <2>2. QED
    BY <1>7, <2>1 DEF LP!AuthView, TransitionEffect
<1>8. QED
  BY <1>1, <1>2, <1>3, <1>4, <1>5, <1>6, <1>7

LEMMA ResumeFields ==
  ASSUME NEW c \in LP!AuthView, NEW rec \in LP!Record,
         rec.kind \in {"resume_requested", "resume_abandoned", "resume_bound"}
  PROVE  ResumeEffect(c, LP!FoldResume(c, rec), rec)
<1> DEFINE d == LP!FoldResume(c, rec)
<1>1. CASE rec.kind = "resume_requested"
  <2>1. d = [c EXCEPT !.attempts[rec.stage] = rec.attempt,
                      !.pending = [stage |-> rec.stage, nonce |-> rec.nonce,
                                   attempt |-> rec.attempt, run |-> NoRun]]
    BY <1>1 DEF LP!FoldResume
  <2>2. /\ d.state = c.state /\ d.result = c.result /\ d.validated = c.validated
        /\ d.commit = c.commit /\ d.head = c.head /\ d.prHead = c.prHead /\ d.owner = c.owner
    BY <2>1 DEF LP!AuthView
  <2>3. d.attempts = [c.attempts EXCEPT ![rec.stage] = rec.attempt]
    BY <2>1 DEF LP!AuthView
  <2>4. d.pending = [stage |-> rec.stage, nonce |-> rec.nonce, attempt |-> rec.attempt,
                     run |-> NoRun]
    BY <2>1 DEF LP!AuthView
  <2>5. QED
    BY <1>1, <2>2, <2>3, <2>4 DEF ResumeEffect
<1>2. CASE rec.kind = "resume_abandoned"
  <2>1. d = [c EXCEPT !.pending = LP!NoPending]
    BY <1>2 DEF LP!FoldResume
  <2>2. QED
    BY <1>2, <2>1 DEF LP!AuthView, ResumeEffect
<1>3. CASE rec.kind = "resume_bound"
  <2>1. d = [c EXCEPT !.pending.run = rec.run, !.owner = rec.run]
    BY <1>3 DEF LP!FoldResume
  <2>2. /\ d.state = c.state /\ d.result = c.result /\ d.validated = c.validated
        /\ d.commit = c.commit /\ d.head = c.head /\ d.prHead = c.prHead
        /\ d.attempts = c.attempts /\ d.owner = rec.run
    BY <2>1 DEF LP!AuthView
  <2>3. d.pending = [c.pending EXCEPT !.run = rec.run]
    BY <2>1 DEF LP!AuthView
  <2>4. QED
    BY <1>3, <2>2, <2>3 DEF ResumeEffect
<1>4. QED
  BY <1>1, <1>2, <1>3

----------------------------------------------------------------------------
(* A truthful record lands.                                                *)

Landed(rec) == Truthful(rec) /\ Ledger!Accepted(view, rec) /\ view' = Ledger!Fold(view, rec)

Recorded == view' = view \/ \E rec : Landed(rec)

LEMMA RecordKinds ==
  ASSUME NEW rec \in LP!Record
  PROVE  /\ rec.kind \in {"transition", "resume_requested", "resume_abandoned", "resume_bound"}
         /\ rec.kind = "transition" => rec.state \in LP!States
         /\ rec.kind = "resume_requested" => rec \in LP!RequestedRecord
         /\ rec.kind = "resume_abandoned" => rec \in LP!AbandonedRecord
         /\ rec.kind = "resume_bound" => rec \in LP!ResumeBoundRecord
<1>1. CASE rec \in LP!AuthorizedRecord \cup LP!FallbackRecord \cup LP!BoundRecord
                     \cup LP!ValidatedRecord \cup LP!PublishedRecord \cup LP!CompletedRecord
                     \cup LP!FailedRecord
  BY <1>1 DEF LP!AuthorizedRecord, LP!FallbackRecord, LP!BoundRecord, LP!ValidatedRecord,
              LP!PublishedRecord, LP!CompletedRecord, LP!FailedRecord,
              LP!States, LP!LiveStates, LP!TerminalStates
<1>2. CASE rec \in LP!RequestedRecord
  BY <1>2 DEF LP!RequestedRecord
<1>3. CASE rec \in LP!AbandonedRecord
  BY <1>3 DEF LP!AbandonedRecord
<1>4. CASE rec \in LP!ResumeBoundRecord
  BY <1>4 DEF LP!ResumeBoundRecord
<1>5. QED
  BY <1>1, <1>2, <1>3, <1>4 DEF LP!Record

LEMMA CurrentTyped ==
  ASSUME LP!Inv
  PROVE  /\ Current \in LP!AuthView /\ LP!Sound(Current) /\ LP!AdmissionTracked(Current)
         /\ Live <=> Current.state \in LP!LiveStates
         /\ view.auths \in [Auth -> LP!AuthView]
  BY Authorizations DEF LP!Inv, LP!TypeOK, Current, LP!IndexAgreesWithChain, Live, LP!Sound

(* It is a step of the ledger. *)
LEMMA LandedStep ==
  ASSUME LP!Inv, NEW rec, Landed(rec)
  PROVE  LP!Next /\ LP!Inv'
<1>1. rec \in LP!Record /\ LP!Accepted(view, rec) /\ view' = LP!Fold(view, rec)
  BY SameLedger DEF Landed, Truthful
<1>2. LP!Next
  BY <1>1 DEF LP!Record, LP!Next, LP!Append
<1>3. QED
  BY <1>2, LP!StepKeepsInv, LedgerAssumptions

LEMMA LandedTransition ==
  ASSUME LP!Inv, NEW rec, Landed(rec), rec.kind = "transition"
  PROVE  /\ Current' \in LP!AuthView /\ TransitionEffect(Current, Current', rec)
         /\ rec.state \in LP!LegalTransitions(Current.state)
         /\ rec.state = "VALIDATED" => rec.result = Current.result
         /\ rec.state = "COMPLETED" => rec.head = Current.head
<1>1. /\ rec \in LP!Record /\ LP!Accepted(view, rec) /\ view' = LP!Fold(view, rec)
      /\ rec.auth = Task
  BY SameLedger DEF Landed, Truthful
<1>2. Current' = LP!FoldTransition(Current, rec)
  BY <1>1, CurrentTyped, Authorizations DEF LP!Fold, Current
<1>3. TransitionEffect(Current, Current', rec)
  BY <1>1, <1>2, CurrentTyped, TransitionFields
<1>4. LP!TransitionAccepted(view, rec)
  BY <1>1 DEF LP!Accepted
<1>5. rec.state \in LP!LegalTransitions(Current.state)
  BY <1>1, <1>4 DEF LP!TransitionAccepted, Current
<1>6. rec.state = "VALIDATED" => rec.result = Current.result
  BY <1>1, <1>4 DEF LP!TransitionAccepted, Current, LP!CrossBindings
<1>7. rec.state = "COMPLETED" => rec.head = Current.head
  BY <1>1, <1>4 DEF LP!TransitionAccepted, Current, LP!CrossBindings
<1>8. Current' \in LP!AuthView
  BY LandedStep, Authorizations DEF LP!Inv, LP!TypeOK, Current
<1>9. QED
  BY <1>3, <1>5, <1>6, <1>7, <1>8

LEMMA LandedResume ==
  ASSUME LP!Inv, NEW rec, Landed(rec), rec.kind # "transition"
  PROVE  /\ Current' \in LP!AuthView /\ ResumeEffect(Current, Current', rec)
         /\ Current.state \in LP!LiveStates /\ rec.state = Current.state
         /\ rec.kind = "resume_requested" => LP!RequestAccepted(Current, rec)
         /\ rec.kind # "resume_requested" => LP!NamesPendingNonce(Current, rec)
         /\ rec.kind = "resume_bound" => Current.pending.run = NoRun
<1>1. /\ rec \in LP!Record /\ LP!Accepted(view, rec) /\ view' = LP!Fold(view, rec)
      /\ rec.auth = Task
  BY SameLedger DEF Landed, Truthful
<1>2. Current' = LP!FoldResume(Current, rec)
  BY <1>1, CurrentTyped, Authorizations DEF LP!Fold, Current
<1>3. ResumeEffect(Current, Current', rec)
  BY <1>1, <1>2, CurrentTyped, ResumeFields, RecordKinds
<1>4. LP!ResumeAccepted(view, rec)
  BY <1>1 DEF LP!Accepted
<1>5. /\ Current.state \in LP!LiveStates /\ rec.state = Current.state
      /\ rec.kind = "resume_requested" => LP!RequestAccepted(Current, rec)
      /\ rec.kind # "resume_requested" => LP!NamesPendingNonce(Current, rec)
      /\ rec.kind = "resume_bound" => Current.pending.run = NoRun
  BY <1>1, <1>4, CurrentTyped, RecordKinds DEF LP!ResumeAccepted, Current, Live
<1>6. Current' \in LP!AuthView
  BY LandedStep, Authorizations DEF LP!Inv, LP!TypeOK, Current
<1>7. QED
  BY <1>3, <1>5, <1>6

LEMMA Predecessors ==
  ASSUME NEW c \in LP!AuthView, NEW s \in LP!LegalTransitions(c.state)
  PROVE  /\ s \in LP!States /\ s # "NONE" /\ c.state \notin LP!TerminalStates
         /\ c.state \in LP!LiveStates \cup {"NONE"}
         /\ s = "AUTHORIZED" <=> c.state = "NONE"
         /\ s = "FALLBACK_AUTHORIZED" => c.state = "AUTHORIZED"
         /\ s = "RESULT_BOUND" => c.state \in {"AUTHORIZED", "FALLBACK_AUTHORIZED"}
         /\ s = "VALIDATED" => c.state = "RESULT_BOUND"
         /\ s = "PUBLISHED" => c.state = "VALIDATED"
         /\ s = "COMPLETED" => c.state = "PUBLISHED"
<1>1. c.state \in LP!AnyState
  BY DEF LP!AuthView
<1>2. QED
  BY <1>1 DEF LP!AnyState, LP!States, LP!LiveStates, LP!TerminalStates, LP!LegalTransitions

(* A transition leaves the authorization consistent, and in agreement with *)
(* GitHub as it is when the record lands.                                  *)
LEMMA TransitionKeepsEvidence ==
  ASSUME LP!Inv, Consistent(Current), WorldAgrees(Current),
         NEW rec, Landed(rec), rec.kind = "transition", UNCHANGED <<outcomes, world>>
  PROVE  Consistent(Current') /\ WorldAgrees(Current)'
         /\ (Validated(Current) => Validated(Current)')
<1> DEFINE c == Current
           d == Current'
<1>1. c \in LP!AuthView /\ d \in LP!AuthView /\ TransitionEffect(c, d, rec)
  BY LandedTransition, CurrentTyped
<1>2. /\ rec.state \in LP!LegalTransitions(c.state)
      /\ rec.state = "VALIDATED" => rec.result = c.result
      /\ rec.state = "COMPLETED" => rec.head = c.head
  BY LandedTransition
<1>3. /\ rec.state # "NONE" /\ c.state \notin {"COMPLETED", "FAILED"}
      /\ rec.state \in LP!States
      /\ rec.state = "AUTHORIZED" <=> c.state = "NONE"
      /\ rec.state = "VALIDATED" => c.state = "RESULT_BOUND"
      /\ rec.state = "PUBLISHED" => c.state = "VALIDATED"
      /\ rec.state = "COMPLETED" => c.state = "PUBLISHED"
  BY <1>1, <1>2, Predecessors DEF LP!TerminalStates
<1>4. /\ rec.state = "AUTHORIZED" => rec.run = LabelRun
      /\ rec.state = "RESULT_BOUND" => rec.result \in Run
      /\ rec.state = "VALIDATED" => rec.commit = rec.result /\ PassUploaded
      /\ rec.state = "PUBLISHED" => rec.head \in Run /\ rec.head = branch
      /\ rec.state = "COMPLETED" =>
           rec.head \in Run /\ rec.head = branch /\ rec.head = pr /\ preflight = "success"
  BY DEF Landed, Truthful
<1>5. PassUploaded' <=> PassUploaded
  BY DEF PassUploaded
<1>6. rec.state = "VALIDATED" => Validated(c)'
  BY <1>1, <1>2, <1>3, <1>4, <1>5 DEF Consistent, TransitionEffect, Validated, LP!ResultStates,
     Ledger!ResultStates
<1>7. Validated(c) => Validated(c)'
  <2> SUFFICES ASSUME Validated(c) PROVE Validated(c)'
    OBVIOUS
  <2>1. c.state \in {"VALIDATED", "PUBLISHED"}
    BY <1>3 DEF Validated
  <2>2. rec.state \in {"PUBLISHED", "COMPLETED", "FAILED"}
    BY <1>2, <2>1 DEF LP!LegalTransitions
  <2>3. d.state = rec.state /\ d.result = c.result /\ d.validated = c.validated /\ d.commit = c.commit
    BY <1>1, <2>2 DEF TransitionEffect
  <2>4. QED
    BY <1>5, <2>2, <2>3 DEF Validated
<1>8. Consistent(d)
  <2>1. d.pending = Ledger!NoPending /\ d.pending.stage = "none" /\ d.pending.run = NoRun
    BY <1>1, SameLedger DEF TransitionEffect, LP!NoPending
  <2>2. d.state = rec.state /\ d.state # "NONE"
    BY <1>1, <1>3 DEF TransitionEffect
  <2>3. d.owner \in Run /\ (d.state = "AUTHORIZED" => d.owner = LabelRun)
    BY <1>1, <1>3, <1>4, Runs DEF TransitionEffect, Consistent
  <2>4. d.state \in Ledger!ResultStates => d.result \in Run
    BY <1>1, <1>3, <1>4 DEF TransitionEffect, Consistent, Ledger!ResultStates
  <2>5. d.state \in {"VALIDATED", "PUBLISHED", "COMPLETED"} =>
          d.validated = d.result /\ d.commit = d.result
    BY <1>1, <1>2, <1>3, <1>4 DEF TransitionEffect, Consistent
  <2>6. d.state = "PUBLISHED" => d.head = d.result
    BY <1>1, <1>3, <1>4 DEF TransitionEffect, WorldAgrees
  <2>7. d.state = "COMPLETED" => d.head = d.result
    BY <1>1, <1>3 DEF TransitionEffect, Consistent
  <2>8. QED
    BY <1>1, <2>1, <2>2, <2>3, <2>4, <2>5, <2>6, <2>7 DEF Consistent
<1>9. WorldAgrees(c)'
  <2>1. d.state = rec.state
    BY <1>1 DEF TransitionEffect
  <2>2. d.state \in {"VALIDATED", "PUBLISHED", "COMPLETED"} => Validated(c)'
    BY <2>1, <1>3, <1>6, <1>7 DEF WorldAgrees
  <2>3. branch \in Run => Validated(c)' /\ branch = d.result
    <3> SUFFICES ASSUME branch \in Run PROVE Validated(c)' /\ branch = d.result
      OBVIOUS
    <3>1. Validated(c) /\ branch = c.result
      BY DEF WorldAgrees
    <3>2. rec.state # "RESULT_BOUND"
      BY <1>2, <1>3, <3>1 DEF Validated, LP!LegalTransitions
    <3>3. QED
      BY <1>1, <1>7, <3>1, <3>2 DEF TransitionEffect
  <2>4. d.state \in {"PUBLISHED", "COMPLETED"} => d.head = branch
    BY <1>1, <1>3, <1>4 DEF TransitionEffect, WorldAgrees
  <2>5. d.state = "COMPLETED" => d.prHead = branch /\ pr = branch /\ preflight = "success"
    BY <1>1, <1>4 DEF TransitionEffect
  <2>6. branch' = branch /\ pr' = pr /\ preflight' = preflight
    BY DEF world
  <2>7. QED
    BY <2>2, <2>3, <2>4, <2>5, <2>6 DEF WorldAgrees
<1>10. QED
  BY <1>7, <1>8, <1>9

LEMMA ResumeKeepsEvidence ==
  ASSUME LP!Inv, Consistent(Current), WorldAgrees(Current),
         NEW rec, Landed(rec), rec.kind # "transition", UNCHANGED <<outcomes, world>>
  PROVE  Consistent(Current') /\ WorldAgrees(Current)'
         /\ (Validated(Current) => Validated(Current)')
<1> DEFINE c == Current
           d == Current'
<1>1. /\ c \in LP!AuthView /\ d \in LP!AuthView /\ ResumeEffect(c, d, rec)
      /\ c.state \in LP!LiveStates
  BY LandedResume, CurrentTyped
<1>2. /\ d.state = c.state /\ d.result = c.result /\ d.validated = c.validated
      /\ d.commit = c.commit /\ d.head = c.head /\ d.prHead = c.prHead
  BY <1>1 DEF ResumeEffect
<1>3. PassUploaded' <=> PassUploaded
  BY DEF PassUploaded
<1>4. (Validated(c) <=> Validated(c)') /\ WorldAgrees(c)'
  BY <1>2, <1>3 DEF Validated, WorldAgrees, world
<1>5. rec \in LP!Record /\ rec.kind \in {"resume_requested", "resume_abandoned", "resume_bound"}
  BY RecordKinds DEF Landed, Truthful
<1>6. /\ IF d.pending.stage = "none"
           THEN d.pending = Ledger!NoPending
           ELSE d.pending.nonce = <<d.pending.stage, d.attempts[d.pending.stage]>>
                  /\ d.pending.nonce \in Nonce
      /\ d.pending.run # NoRun =>
           d.pending.run # LabelRun /\ NonceOf(d.pending.run) = d.pending.nonce
      /\ d.owner \in Run /\ (d.state = "AUTHORIZED" => d.owner = LabelRun)
  <2>1. CASE rec.kind = "resume_requested"
    <3>1. /\ rec \in LP!RequestedRecord /\ rec.stage \in LP!Stages /\ rec.nonce \in Nonce
          /\ rec.stage # "none"
      BY <1>5, <2>1, RecordKinds DEF LP!RequestedRecord, LP!Stages
    <3>2. d.pending = [stage |-> rec.stage, nonce |-> rec.nonce, attempt |-> rec.attempt,
                       run |-> NoRun]
      BY <1>1, <2>1 DEF ResumeEffect
    <3>3. d.attempts[rec.stage] = rec.attempt
      BY <1>1, <2>1, <3>1 DEF ResumeEffect, LP!AuthView, LP!Attempts
    <3>4. rec.nonce = <<rec.stage, rec.attempt>>
      BY <2>1 DEF Landed, Truthful
    <3>5. d.owner = c.owner
      BY <1>1, <2>1 DEF ResumeEffect
    <3>6. QED
      BY <1>1, <1>2, <3>1, <3>2, <3>3, <3>4, <3>5 DEF Consistent, LP!LiveStates
  <2>2. CASE rec.kind = "resume_abandoned"
    <3>1. d.pending = Ledger!NoPending /\ d.owner = c.owner
      BY <1>1, <2>2, SameLedger DEF ResumeEffect
    <3>2. QED
      BY <1>1, <1>2, <3>1 DEF Consistent, LP!LiveStates, Ledger!NoPending
  <2>3. CASE rec.kind = "resume_bound"
    <3>1. LP!NamesPendingNonce(c, rec) /\ rec \in LP!ResumeBoundRecord
      BY <1>5, <2>3, LandedResume, RecordKinds
    <3>2. /\ c.pending.stage # "none" /\ c.pending.nonce = rec.nonce /\ rec.run \in Run
      BY <3>1 DEF LP!NamesPendingNonce, LP!ResumeBoundRecord
    <3>3. d.pending = [c.pending EXCEPT !.run = rec.run] /\ d.owner = rec.run
          /\ d.attempts = c.attempts
      BY <1>1, <2>3 DEF ResumeEffect
    <3>4. /\ d.pending.stage = c.pending.stage /\ d.pending.nonce = c.pending.nonce
          /\ d.pending.run = rec.run
      BY <1>1, <3>3 DEF LP!AuthView, LP!Pending
    <3>5. rec.run # LabelRun /\ NonceOf(rec.run) = rec.nonce
      BY <2>3 DEF Landed, Truthful
    <3>6. c.state # "AUTHORIZED"
      BY <3>2, CurrentTyped DEF LP!Sound, LP!PendingMatches, LP!StageState
    <3>7. QED
      BY <1>2, <3>2, <3>3, <3>4, <3>5, <3>6 DEF Consistent
  <2>4. QED
    BY <1>5, <2>1, <2>2, <2>3
<1>7. Consistent(d)
  BY <1>1, <1>2, <1>6 DEF Consistent, LP!LiveStates
<1>8. QED
  BY <1>4, <1>7

LEMMA LandingKeepsEvidence ==
  ASSUME LP!Inv, Consistent(Current), WorldAgrees(Current),
         NEW rec, Landed(rec), UNCHANGED <<outcomes, world>>
  PROVE  /\ LP!Inv' /\ Consistent(Current)' /\ WorldAgrees(Current)'
         /\ Validated(Current) => Validated(Current)'
  BY LandedStep, TransitionKeepsEvidence, ResumeKeepsEvidence

----------------------------------------------------------------------------
(* What a control step has seen of GitHub stays so: evidence is only ever  *)
(* added to.                                                               *)

OnlyAdds ==
  /\ PassUploaded => PassUploaded'
  /\ branch \in Run => branch' = branch
  /\ pr \in Run => pr' = pr
  /\ preflight = "success" => preflight' = "success"

StepsAgree == \A a \in Actor : StepAgrees(ctl[a])

LEMMA Adding ==
  ASSUME outcomes \subseteq outcomes', UNCHANGED world
  PROVE  OnlyAdds
  BY DEF OnlyAdds, PassUploaded, world

LEMMA SameSteps ==
  ASSUME StepsAgree, OnlyAdds, UNCHANGED ctl
  PROVE  StepsAgree'
<1> SUFFICES ASSUME NEW a \in Actor PROVE StepAgrees(ctl[a])'
  BY DEF StepsAgree
<1>1. StepAgrees(ctl[a])
  BY DEF StepsAgree
<1>2. ctl[a].at = "seen" => (ctl[a].head \in Run => ctl[a].head = branch')
                            /\ (ctl[a].pr \in Run => ctl[a].pr = pr')
  BY <1>1 DEF StepAgrees, OnlyAdds
<1>3. ctl[a].at = "append" => Truthful(ctl[a].rec)'
  BY <1>1 DEF StepAgrees, OnlyAdds, Truthful
<1>4. QED
  BY <1>1, <1>2, <1>3 DEF StepAgrees

LEMMA OneStep ==
  ASSUME StepsAgree, DOMAIN ctl = Actor, NEW a \in Actor, NEW next,
         ctl' = [ctl EXCEPT ![a] = next], UNCHANGED <<outcomes, world>>, StepAgrees(next)
  PROVE  StepsAgree' /\ DOMAIN ctl' = Actor
<1>1. DOMAIN ctl' = Actor /\ ctl'[a] = next /\ \A b \in Actor \ {a} : ctl'[b] = ctl[b]
  OBVIOUS
<1>2. ASSUME NEW b \in Actor PROVE StepAgrees(ctl[b])'
  <2>1. StepAgrees(ctl'[b])
    BY <1>1 DEF StepsAgree
  <2>2. QED
    BY <2>1 DEF StepAgrees, Truthful, PassUploaded, world
<1>3. QED
  BY <1>1, <1>2 DEF StepsAgree

LEMMA NoStepAgrees ==
  /\ StepAgrees(Idle)
  /\ \A n : StepAgrees([at |-> "dispatch", nonce |-> n])
  /\ StepAgrees([at |-> "reload"])
  BY DEF StepAgrees, Idle

----------------------------------------------------------------------------
(* The record of a decision is truthful.                                   *)

LEMMA AdvanceDecides ==
  ASSUME NEW c, NEW f, NEW d, d = Ledger!Advance(c, f),
         d.act \notin {"noop", "freeze", "redispatch"}
  PROVE  \/ d.act = "fail" /\ d.what \in FailureCode
         \/ d.act = "transition" /\ d.what = "FALLBACK_AUTHORIZED"
              /\ c.state = "AUTHORIZED" /\ c.offer
         \/ d.act = "transition" /\ d.what = "RESULT_BOUND"
              /\ c.state \in {"AUTHORIZED", "FALLBACK_AUTHORIZED"}
         \/ d.act = "transition" /\ d.what = "VALIDATED"
              /\ c.state = "RESULT_BOUND" /\ f.receipt = "PASS"
         \/ d.act = "transition" /\ d.what = "PUBLISHED"
              /\ c.state = "VALIDATED" /\ f.head = c.commit
         \/ d.act = "transition" /\ d.what = "COMPLETED"
              /\ c.state = "PUBLISHED" /\ f.preflight = "success" /\ f.pr = c.head
         \/ d.act = "resume" /\ d.what \in {"validation", "publication"}
              /\ c.state = Ledger!StageState(d.what) /\ c.pending.stage = "none"
              /\ ~(c.attempts[d.what] + 1 >= Ledger!StageCap(d.what))
         \/ d.act = "abandon" /\ c.pending.stage # "none"
<1> USE DEF Ledger!Decision, Ledger!Noop, Ledger!Fail
<1> DEFINE failed(x) == x.act = "fail" /\ x.what \in FailureCode
           skipped(x) == x.act \in {"noop", "freeze", "redispatch"}
           abandoned(x) == x.act = "abandon" /\ c.pending.stage # "none"
           moved(x, s) == x.act = "transition" /\ x.what = s
           resumed(x, stage) == x.act = "resume" /\ x.what = stage /\ c.pending.stage = "none"
                                  /\ ~(c.attempts[stage] + 1 >= Ledger!StageCap(stage))
<1>1. ASSUME NEW stage, NEW code \in {"VALIDATION_UNAVAILABLE", "PUBLICATION_UNAVAILABLE"},
             NEW x, x = Ledger!ResumeOrFail(c, f, stage, code)
      PROVE  failed(x) \/ skipped(x) \/ abandoned(x) \/ resumed(x, stage)
  BY <1>1 DEF Ledger!ResumeOrFail, Ledger!PendingResume, FailureCode
<1>2. CASE d = Ledger!AdvanceAuthorized(c, f) /\ c.state = "AUTHORIZED"
  BY <1>2 DEF Ledger!AdvanceAuthorized, Ledger!FallbackAdmissible, FailureCode
<1>3. CASE d = Ledger!AdvanceFallback(c, f) /\ c.state = "FALLBACK_AUTHORIZED"
  BY <1>3 DEF Ledger!AdvanceFallback, Ledger!UnclaimedFallback, Ledger!ClaimedFallback, FailureCode
<1>4. CASE d = Ledger!AdvanceBound(c, f) /\ c.state = "RESULT_BOUND"
  BY <1>1, <1>4 DEF Ledger!AdvanceBound, Ledger!StageState, FailureCode
<1>5. CASE d = Ledger!AdvanceValidated(c, f) /\ c.state = "VALIDATED"
  BY <1>1, <1>5 DEF Ledger!AdvanceValidated, Ledger!StageState, FailureCode
<1>6. CASE d = Ledger!AdvancePublished(c, f) /\ c.state = "PUBLISHED"
  BY <1>6 DEF Ledger!AdvancePublished, FailureCode
<1>7. CASE skipped(d)
  BY <1>7
<1>8. QED
  BY <1>2, <1>3, <1>4, <1>5, <1>6, <1>7 DEF Ledger!Advance

LEMMA RecordTypes ==
  /\ LP!Roles = Ledger!Roles /\ LP!ResumeRoles \subseteq LP!Roles
  /\ LP!LiveStates \subseteq LP!States /\ Ledger!ResumeRoles = LP!ResumeRoles
  /\ \A s \in LP!States : Ledger!WriterRoles(s) \subseteq LP!Roles
  BY DEF LP!Roles, Ledger!Roles, LP!ResumeRoles, Ledger!ResumeRoles, LP!LiveStates, LP!States,
         LP!TerminalStates, Ledger!WriterRoles

(* A failure is truthful about the state it was decided in. *)
LEMMA FailureTruthful ==
  ASSUME NEW role \in LP!Roles, NEW c, c.state \in LP!LiveStates, NEW code \in FailureCode
  PROVE  Truthful(Ledger!FailedBy(Task, role, c, code))
<1>1. Ledger!FailedBy(Task, role, c, code) \in LP!FailedRecord
  BY Authorizations DEF Ledger!FailedBy, LP!FailedRecord
<1>2. QED
  BY <1>1 DEF Truthful, LP!Record, Ledger!FailedBy

(* A request names the next attempt of its stage. *)
LEMMA RequestTruthful ==
  ASSUME NEW role \in LP!Roles, NEW c, c \in LP!AuthView, c.state \in LP!LiveStates,
         NEW stage \in LP!Stages, NextNonce(c, stage) \in Nonce
  PROVE  Truthful(Ledger!Requested(Task, role, c, stage, NextNonce(c, stage)))
<1> DEFINE k == c.attempts[stage] + 1
           rec == Ledger!Requested(Task, role, c, stage, NextNonce(c, stage))
<1>1. NextNonce(c, stage) = <<stage, k>>
  BY DEF NextNonce
<1>2. k \in Nat \ {0}
  BY DEF LP!AuthView, LP!Attempts
<1>3. k <= MaxAttempt
  <2>1. CASE <<stage, k>> \in {<<"validation", 1>>, <<"publication", 1>>, <<"publication", 2>>}
    <3>1. k \in {1, 2}
      BY <2>1
    <3>2. MaxFallback \in Nat
      BY LifecycleAssumption
    <3>3. QED
      BY <3>1, <3>2 DEF MaxAttempt
  <2>2. CASE <<stage, k>> \in {"fallback"} \X (1 .. MaxFallback)
    <3>1. k \in 1 .. MaxFallback
      BY <2>2
    <3>2. MaxFallback \in Nat
      BY LifecycleAssumption
    <3>3. QED
      BY <1>2, <3>1, <3>2 DEF MaxAttempt
  <2>3. QED
    BY <1>1, <2>1, <2>2 DEF Nonce, ResumeRun
<1>4. MaxAttempt \in Nat
  BY LifecycleAssumption DEF MaxAttempt
<1>5. rec \in LP!RequestedRecord
  BY <1>2, <1>3, <1>4, Authorizations, RecordTypes DEF Ledger!Requested, LP!RequestedRecord
<1>6. QED
  BY <1>1, <1>5 DEF Truthful, LP!Record, Ledger!Requested

LEMMA AbandonmentTruthful ==
  ASSUME NEW role \in LP!Roles, NEW c, c.state \in LP!LiveStates, c.pending.nonce \in Nonce
  PROVE  Truthful(Ledger!Abandoned(Task, role, c))
<1>1. Ledger!Abandoned(Task, role, c) \in LP!AbandonedRecord
  BY Authorizations, RecordTypes DEF Ledger!Abandoned, LP!AbandonedRecord
<1>2. QED
  BY <1>1 DEF Truthful, LP!Record, Ledger!Abandoned

(* The executor's result binds as the run that produced it. *)
LEMMA BoundTruthful ==
  ASSUME NEW role \in LP!Roles, NEW c, c.state \in LP!LiveStates, NEW f, NEW r \in Run
  PROVE  Truthful(Ledger!BoundEvidence(Task, role, c, f, r))
<1> DEFINE rec == [kind |-> "transition", state |-> "RESULT_BOUND", auth |-> Task, role |-> role,
                   fallback |-> c.state = "FALLBACK_AUTHORIZED", result |-> r]
<1>1. rec \in LP!BoundRecord
  BY Authorizations, Runs DEF LP!BoundRecord
<1>2. Truthful(rec)
  BY <1>1 DEF Truthful, LP!Record
<1>3. /\ Truthful(Ledger!FailedBy(Task, role, c, "TRANSPORT_INTEGRITY_FAILED"))
      /\ Truthful(Ledger!FailedBy(Task, role, c, "EXECUTOR_RESULT_REJECTED"))
  BY FailureTruthful DEF FailureCode
<1>4. QED
  BY <1>2, <1>3 DEF Ledger!BoundEvidence

(* A PASS that observe reports was uploaded. *)
LEMMA OutcomeUploaded ==
  ASSUME NEW c, StageOutcome(c, "validation") = "PASS"
  PROVE  PassUploaded
<1> DEFINE found == {o \in outcomes : /\ o.run = c.owner
                                      /\ o.stage = "validation"
                                      /\ o.attempt = c.attempts["validation"] + 1}
           o == CHOOSE o \in found : TRUE
<1>1. found # {} /\ o.verdict = "PASS"
  BY DEF StageOutcome
<1>2. o \in found
  BY <1>1
<1>3. o \in outcomes /\ o.stage = "validation"
  BY <1>2
<1>4. QED
  BY <1>1, <1>3 DEF PassUploaded

LEMMA DecisionTruthful ==
  ASSUME EvidenceInv, NEW a \in Actor, ctl[a].at = "seen",
         NEW f, f = Facts(ctl[a].c, ctl[a], Output(a)),
         NEW d, d = Ledger!Advance(ctl[a].c, f),
         d.act \notin {"noop", "freeze", "redispatch"},
         NEW role, NEW rec, rec = RecordFor(role, ctl[a].c, f, d), Ledger!MayWrite(role, rec)
  PROVE  Truthful(rec) /\ rec.kind # "resume_bound"
<1> DEFINE c == ctl[a].c
<1>1. /\ Consistent(c) /\ c \in LP!AuthView /\ c.state \in LP!LiveStates
      /\ ctl[a].head \in Run => ctl[a].head = branch
      /\ ctl[a].pr \in Run => ctl[a].pr = pr
  BY SameLedger DEF EvidenceInv, StepAgrees, Consistent
<1>2. /\ f.receipt = StageOutcome(c, "validation") /\ f.head = ctl[a].head
      /\ f.pr = OpenDraftPR(c, ctl[a]) /\ f.preflight = preflight
  BY DEF Facts
<1>3. c.owner \in Run
  BY <1>1 DEF Consistent, LP!LiveStates
<1>4. \A r : r.kind = "transition" /\ r.state \in LP!States /\ Ledger!MayWrite(role, r) =>
               role \in LP!Roles
  BY RecordTypes DEF Ledger!MayWrite
<1>5. \A r : r.kind # "transition" /\ Ledger!MayWrite(role, r) => role \in LP!Roles
  BY RecordTypes DEF Ledger!MayWrite
<1>6. CASE d.act = "fail" /\ d.what \in FailureCode
  <2>1. rec = Ledger!FailedBy(Task, role, c, d.what)
    BY <1>6 DEF RecordFor, Ledger!RecordOf
  <2>2. rec.kind = "transition" /\ rec.state \in LP!States
    BY <2>1 DEF Ledger!FailedBy, LP!States, LP!TerminalStates
  <2>3. QED
    BY <1>1, <1>4, <1>6, <2>1, <2>2, FailureTruthful
<1>7. CASE d.act = "transition" /\ d.what = "FALLBACK_AUTHORIZED"
  <2>1. rec = [kind |-> "transition", state |-> "FALLBACK_AUTHORIZED", auth |-> Task,
               role |-> role, agreed |-> TRUE]
    BY <1>7 DEF RecordFor, Ledger!RecordOf, Ledger!Evidence
  <2>2. role \in LP!Roles
    BY <1>4, <2>1 DEF LP!States, LP!LiveStates
  <2>3. rec \in LP!FallbackRecord
    BY <2>1, <2>2, Authorizations DEF LP!FallbackRecord
  <2>4. QED
    BY <2>1, <2>3 DEF Truthful, LP!Record
<1>8. CASE d.act = "transition" /\ d.what = "RESULT_BOUND"
  <2>1. rec = Ledger!BoundEvidence(Task, role, c, f, c.owner)
    BY <1>8 DEF RecordFor, Ledger!RecordOf, Ledger!Evidence
  <2>2. rec.kind = "transition" /\ rec.state \in LP!States
    BY <2>1 DEF Ledger!BoundEvidence, Ledger!FailedBy, LP!States, LP!TerminalStates, LP!LiveStates
  <2>3. QED
    BY <1>1, <1>3, <1>4, <2>1, <2>2, BoundTruthful
<1>9. CASE d.act = "transition" /\ d.what = "VALIDATED" /\ c.state = "RESULT_BOUND"
             /\ f.receipt = "PASS"
  <2>1. rec = [kind |-> "transition", state |-> "VALIDATED", auth |-> Task, role |-> role,
               result |-> c.result, commit |-> c.result]
    BY <1>9 DEF RecordFor, Ledger!RecordOf, Ledger!Evidence
  <2>2. role \in LP!Roles
    BY <1>4, <2>1 DEF LP!States, LP!LiveStates
  <2>3. c.result \in Digest
    BY <1>1, <1>9, Runs DEF Consistent, Ledger!ResultStates
  <2>4. rec \in LP!ValidatedRecord
    BY <2>1, <2>2, <2>3, Authorizations DEF LP!ValidatedRecord
  <2>5. PassUploaded
    BY <1>2, <1>9, OutcomeUploaded
  <2>6. QED
    BY <2>1, <2>4, <2>5 DEF Truthful, LP!Record
<1>10. CASE d.act = "transition" /\ d.what = "PUBLISHED" /\ c.state = "VALIDATED"
              /\ f.head = c.commit
  <2>1. rec = [kind |-> "transition", state |-> "PUBLISHED", auth |-> Task, role |-> role,
               identity |-> [execution |-> Ledger!ExecutionId(c), result |-> c.validated,
                             commit |-> c.commit],
               head |-> f.head]
    BY <1>10 DEF RecordFor, Ledger!RecordOf, Ledger!Evidence
  <2>2. role \in LP!Roles
    BY <1>4, <2>1 DEF LP!States, LP!LiveStates
  <2>3. c.validated \in Run /\ c.commit \in Run
    BY <1>1, <1>10 DEF Consistent, Ledger!ResultStates
  <2>4. rec \in LP!PublishedRecord
    BY <1>10, <2>1, <2>2, <2>3, Authorizations, Runs
       DEF LP!PublishedRecord, LP!Identity, Ledger!ExecutionId
  <2>5. f.head \in Run /\ f.head = branch
    BY <1>1, <1>2, <1>10, <2>3
  <2>6. QED
    BY <2>1, <2>4, <2>5 DEF Truthful, LP!Record
<1>11. CASE d.act = "transition" /\ d.what = "COMPLETED" /\ c.state = "PUBLISHED"
              /\ f.preflight = "success" /\ f.pr = c.head
  <2>1. rec = [kind |-> "transition", state |-> "COMPLETED", auth |-> Task, role |-> role,
               head |-> f.pr]
    BY <1>11 DEF RecordFor, Ledger!RecordOf, Ledger!Evidence
  <2>2. role \in LP!Roles
    BY <1>4, <2>1 DEF LP!States, LP!TerminalStates
  <2>3. c.head \in Run
    BY <1>1, <1>11 DEF Consistent, Ledger!ResultStates
  <2>4. rec \in LP!CompletedRecord
    BY <1>11, <2>1, <2>2, <2>3, Authorizations, Runs DEF LP!CompletedRecord
  <2>5. f.pr \in Run /\ f.pr = pr
    BY <1>1, <1>2, <1>11, <2>3, Runs DEF OpenDraftPR
  <2>6. f.pr = branch
    BY <2>5 DEF EvidenceInv, WorldAgrees
  <2>7. QED
    BY <1>2, <1>11, <2>1, <2>4, <2>5, <2>6 DEF Truthful, LP!Record
<1>12. CASE d.act = "resume" /\ d.what \in {"validation", "publication"}
              /\ ~(c.attempts[d.what] + 1 >= Ledger!StageCap(d.what))
  <2>1. rec = Ledger!Requested(Task, role, c, d.what, NextNonce(c, d.what))
    BY <1>12 DEF RecordFor, Ledger!RecordOf
  <2>2. rec.kind = "resume_requested"
    BY <2>1 DEF Ledger!Requested
  <2>3. d.what \in LP!Stages /\ c.attempts[d.what] \in Nat
    BY <1>1, <1>12 DEF LP!Stages, LP!AuthView, LP!Attempts
  <2>4. NextNonce(c, d.what) \in Nonce
    BY <1>12, <2>3 DEF NextNonce, Ledger!StageCap, Nonce, ResumeRun
  <2>5. QED
    BY <1>1, <1>5, <2>1, <2>2, <2>3, <2>4, RequestTruthful
<1>13. CASE d.act = "abandon" /\ c.pending.stage # "none"
  <2>1. rec = Ledger!Abandoned(Task, role, c)
    BY <1>13 DEF RecordFor, Ledger!RecordOf
  <2>2. rec.kind = "resume_abandoned"
    BY <2>1 DEF Ledger!Abandoned
  <2>3. c.pending.nonce \in Nonce
    BY <1>1, <1>13 DEF Consistent
  <2>4. QED
    BY <1>1, <1>5, <2>1, <2>2, <2>3, AbandonmentTruthful
<1>14. QED
  BY <1>6, <1>7, <1>8, <1>9, <1>10, <1>11, <1>12, <1>13, AdvanceDecides

(* And the chain whose authorization it was decided on accepts it: each    *)
(* branch of advance asks for what apply_record asks of its record.        *)
LEMMA DecisionAccepted ==
  ASSUME NEW c, c = Current, Live, c \in LP!AuthView, NEW f,
         NEW d, d = Ledger!Advance(c, f), d.act \notin {"noop", "freeze", "redispatch"},
         c.state \in LP!LiveStates,
         NEW role, NEW rec, rec = RecordFor(role, c, f, d), Ledger!MayWrite(role, rec)
  PROVE  Ledger!Accepted(view, rec)
<1>1. c = view.auths[Task] /\ view.active = Task
  BY DEF Current, Live
<1>2. ASSUME NEW code, rec = Ledger!FailedBy(Task, role, c, code)
      PROVE  Ledger!Accepted(view, rec)
  <2>1. /\ rec.kind = "transition" /\ rec.state = "FAILED" /\ rec.auth = Task
        /\ rec.role = role /\ rec.from = c.state
    BY <1>2 DEF Ledger!FailedBy
  <2>2. "FAILED" \in Ledger!LegalTransitions(c.state)
    BY DEF LP!LiveStates, Ledger!LegalTransitions
  <2>3. role \in Ledger!WriterRoles("FAILED")
    BY <2>1 DEF Ledger!MayWrite
  <2>4. QED
    BY <1>1, <2>1, <2>2, <2>3 DEF Ledger!Accepted, Ledger!TransitionAccepted
<1>3. ASSUME rec.kind = "transition", rec.auth = Task, rec.role = role,
             rec.state \in Ledger!LegalTransitions(c.state) \ {"AUTHORIZED", "FAILED"},
             Ledger!CrossBindings(c, rec)
      PROVE  Ledger!Accepted(view, rec)
  BY <1>1, <1>3 DEF Ledger!Accepted, Ledger!TransitionAccepted, Ledger!MayWrite
<1>4. CASE d.act = "fail"
  BY <1>2, <1>4 DEF RecordFor, Ledger!RecordOf
<1>5. CASE d.act = "transition" /\ d.what = "FALLBACK_AUTHORIZED" /\ c.state = "AUTHORIZED" /\ c.offer
  <2>1. rec = [kind |-> "transition", state |-> "FALLBACK_AUTHORIZED", auth |-> Task,
               role |-> role, agreed |-> TRUE]
    BY <1>5 DEF RecordFor, Ledger!RecordOf, Ledger!Evidence
  <2>2. QED
    BY <1>3, <1>5, <2>1 DEF Ledger!LegalTransitions, Ledger!CrossBindings
<1>6. CASE d.act = "transition" /\ d.what = "RESULT_BOUND"
             /\ c.state \in {"AUTHORIZED", "FALLBACK_AUTHORIZED"}
  <2>1. rec = Ledger!BoundEvidence(Task, role, c, f, c.owner)
    BY <1>6 DEF RecordFor, Ledger!RecordOf, Ledger!Evidence
  <2>2. CASE rec = [kind |-> "transition", state |-> "RESULT_BOUND", auth |-> Task, role |-> role,
                    fallback |-> c.state = "FALLBACK_AUTHORIZED", result |-> c.owner]
    BY <1>3, <1>6, <2>2 DEF Ledger!LegalTransitions, Ledger!CrossBindings
  <2>3. QED
    BY <1>2, <2>1, <2>2 DEF Ledger!BoundEvidence
<1>7. CASE d.act = "transition" /\ d.what = "VALIDATED" /\ c.state = "RESULT_BOUND"
  <2>1. rec = [kind |-> "transition", state |-> "VALIDATED", auth |-> Task, role |-> role,
               result |-> c.result, commit |-> c.result]
    BY <1>7 DEF RecordFor, Ledger!RecordOf, Ledger!Evidence
  <2>2. QED
    BY <1>3, <1>7, <2>1 DEF Ledger!LegalTransitions, Ledger!CrossBindings
<1>8. CASE d.act = "transition" /\ d.what = "PUBLISHED" /\ c.state = "VALIDATED"
  <2>1. rec = [kind |-> "transition", state |-> "PUBLISHED", auth |-> Task, role |-> role,
               identity |-> [execution |-> Ledger!ExecutionId(c), result |-> c.validated,
                             commit |-> c.commit],
               head |-> f.head]
    BY <1>8 DEF RecordFor, Ledger!RecordOf, Ledger!Evidence
  <2>2. QED
    BY <1>3, <1>8, <2>1 DEF Ledger!LegalTransitions, Ledger!CrossBindings
<1>9. CASE d.act = "transition" /\ d.what = "COMPLETED" /\ c.state = "PUBLISHED" /\ f.pr = c.head
  <2>1. rec = [kind |-> "transition", state |-> "COMPLETED", auth |-> Task, role |-> role,
               head |-> f.pr]
    BY <1>9 DEF RecordFor, Ledger!RecordOf, Ledger!Evidence
  <2>2. QED
    BY <1>3, <1>9, <2>1 DEF Ledger!LegalTransitions, Ledger!CrossBindings
<1>10. CASE d.act = "resume" /\ d.what \in {"validation", "publication"}
              /\ c.state = Ledger!StageState(d.what) /\ c.pending.stage = "none"
              /\ ~(c.attempts[d.what] + 1 >= Ledger!StageCap(d.what))
  <2>1. rec = Ledger!Requested(Task, role, c, d.what, NextNonce(c, d.what))
    BY <1>10 DEF RecordFor, Ledger!RecordOf
  <2>2. /\ rec.kind = "resume_requested" /\ rec.auth = Task /\ rec.role = role
        /\ rec.state = c.state /\ rec.stage = d.what /\ rec.attempt = c.attempts[d.what] + 1
    BY <2>1 DEF Ledger!Requested
  <2>3. Ledger!WithinCap(d.what, rec.attempt)
    <3>1. c.attempts[d.what] \in Nat
      BY <1>10 DEF LP!AuthView, LP!Attempts, LP!Stages
    <3>2. QED
      BY <1>10, <2>2, <3>1 DEF Ledger!WithinCap, Ledger!StageCap
  <2>4. role \in Ledger!ResumeRoles
    BY <2>2 DEF Ledger!MayWrite
  <2>5. QED
    BY <1>1, <1>10, <2>2, <2>3, <2>4
       DEF Ledger!Accepted, Ledger!ResumeAccepted, Ledger!RequestAccepted
<1>11. CASE d.act = "abandon" /\ c.pending.stage # "none"
  <2>1. rec = Ledger!Abandoned(Task, role, c)
    BY <1>11 DEF RecordFor, Ledger!RecordOf
  <2>2. /\ rec.kind = "resume_abandoned" /\ rec.auth = Task /\ rec.role = role
        /\ rec.state = c.state /\ rec.nonce = c.pending.nonce
    BY <2>1 DEF Ledger!Abandoned
  <2>3. role \in Ledger!ResumeRoles
    BY <2>2 DEF Ledger!MayWrite
  <2>4. QED
    BY <1>1, <1>11, <2>2, <2>3
       DEF Ledger!Accepted, Ledger!ResumeAccepted, Ledger!NamesPendingNonce
<1>12. QED
  BY <1>4, <1>5, <1>6, <1>7, <1>8, <1>9, <1>10, <1>11, AdvanceDecides

----------------------------------------------------------------------------
(* How an action moves the runs.                                           *)

(* Run q is where it was, as far as the jobs tell; or its job has ended; or*)
(* it begins.                                                              *)
Stays(q) ==
  /\ runs'[q].valid = runs[q].valid
  /\ runs'[q].job = runs[q].job \/ {runs'[q].job, runs[q].job} \subseteq Waiting

Ends(q, ok, bound) ==
  /\ runs'[q].job = JobAfter(q, runs[q].job, ok, bound)
  /\ runs'[q].valid = (runs[q].valid \/ (runs[q].job = "validate" /\ ok))

Begins(q) ==
  /\ runs[q].job = "queued" /\ runs'[q].job = "resume-bind"
  /\ runs'[q].valid = runs[q].valid

(* At most the job of run x has ended. *)
OneEnds(x, ok, bound) == \A q \in Run : Stays(q) \/ (q = x /\ Ends(q, ok, bound))

LEMMA RunStages ==
  ASSUME NEW r \in Run
  PROVE  IF r = LabelRun
           THEN r[1] = "label"
           ELSE r[1] \in {"validation", "publication", "fallback"}
  BY ResumeRuns DEF LabelRun, LP!Stages

(* The order of a run's jobs. *)
LEMMA JobOrder ==
  ASSUME NEW r \in Run, NEW job \in JobsOf(r), NEW ok \in BOOLEAN, NEW bound \in BOOLEAN
  PROVE  LET next == JobAfter(r, job, ok, bound)
         IN  /\ next \in JobsOf(r) /\ next \notin Waiting /\ next # "push" /\ next # "resume-bind"
             /\ next # "authorize"
             /\ next = "execute" => job = "authorize"
             /\ next = "execute-fallback" => job = "resume-bind" /\ ok
             /\ next = "validate" =>
                  \/ job \in {"bind", "bind-fallback"} /\ ok /\ bound
                  \/ job = "resume-bind" /\ ok /\ ~FirstAttempt(r)
             /\ next = "publish" => job = "record-validation"
             /\ next = "publish" /\ FirstAttempt(r) => runs[r].valid
             /\ next # "done" => job \notin Waiting \cup {"done"}
             /\ next # "done" /\ ~ok => job # "resume-bind"
             /\ job \in PastValidation \cup {"validate"} => next \in PastValidation
             /\ job \in PastValidation => next # "record-validation"
<1> USE RunStages DEF JobAfter, JobsOf, PastValidation, FirstAttempt, Waiting, Invisible
<1>1. CASE r = LabelRun
  BY <1>1 DEF LabelJobs
<1>2. CASE r # LabelRun /\ r[1] = "validation"
  BY <1>2 DEF StageJobs, ResumesWith
<1>3. CASE r # LabelRun /\ r[1] = "publication"
  BY <1>3 DEF StageJobs, ResumesWith
<1>4. CASE r # LabelRun /\ r[1] = "fallback"
  BY <1>4 DEF StageJobs, ResumesWith
<1>5. QED
  BY <1>1, <1>2, <1>3, <1>4

LEMMA EndedFields ==
  ASSUME RunsTyped, NEW r \in Run, NEW ok \in BOOLEAN, NEW bound \in BOOLEAN
  PROVE  /\ Ended(r, ok, bound) \in RunState /\ GoodRun(r, Ended(r, ok, bound))
         /\ Ended(r, ok, bound).job = JobAfter(r, runs[r].job, ok, bound)
         /\ Ended(r, ok, bound).valid = (runs[r].valid \/ (runs[r].job = "validate" /\ ok))
<1> DEFINE e == Ended(r, ok, bound)
           next == JobAfter(r, runs[r].job, ok, bound)
           valid == runs[r].valid \/ (runs[r].job = "validate" /\ ok)
<1>1. runs[r] \in RunState /\ GoodRun(r, runs[r])
  BY DEF RunsTyped
<1>2. e = [runs[r] EXCEPT !.job = next, !.valid = valid]
  BY DEF Ended
<1>3. next \in JobsOf(r) /\ (runs[r].job \in PastValidation \cup {"validate"} => next \in PastValidation)
  BY <1>1, JobOrder DEF GoodRun
<1>4. JobsOf(r) \subseteq Jobs
  BY RunStages DEF JobsOf, Jobs, LabelJobs, StageJobs, Invisible
<1>5. valid \in BOOLEAN
  BY <1>1 DEF RunState
<1> HIDE DEF next, valid
<1>6. e \in RunState /\ e.job = next /\ e.valid = valid
  BY <1>1, <1>2, <1>3, <1>4, <1>5 DEF RunState
<1>7. e.valid => e.job \in PastValidation
  BY <1>1, <1>3, <1>6 DEF GoodRun, valid
<1>8. QED
  BY <1>3, <1>6, <1>7 DEF GoodRun, next, valid

(* One run changes, and stays a good one. *)
LEMMA TypedUpdate ==
  ASSUME RunsTyped, NEW x, NEW e, x \in Run => e \in RunState /\ GoodRun(x, e),
         runs' = [runs EXCEPT ![x] = e]
  PROVE  /\ RunsTyped'
         /\ \A q \in Run : runs'[q] = IF q = x THEN e ELSE runs[q]
<1>1. \A q \in Run : runs'[q] = IF q = x THEN e ELSE runs[q]
  BY DEF RunsTyped
<1>2. runs' \in [Run -> RunState]
  BY DEF RunsTyped
<1>3. \A q \in Run : GoodRun(q, runs'[q])
  BY <1>1 DEF RunsTyped
<1>4. QED
  BY <1>1, <1>2, <1>3 DEF RunsTyped, GoodRun

LEMMA JobEnds ==
  ASSUME RunsTyped, NEW x, NEW ok \in BOOLEAN, NEW bound \in BOOLEAN,
         runs' = [runs EXCEPT ![x] = Ended(x, ok, bound)]
  PROVE  RunsTyped' /\ OneEnds(x, ok, bound)
<1>1. x \in Run => Ended(x, ok, bound) \in RunState /\ GoodRun(x, Ended(x, ok, bound))
  BY EndedFields
<1>2. RunsTyped' /\ \A q \in Run : runs'[q] = IF q = x THEN Ended(x, ok, bound) ELSE runs[q]
  BY <1>1, TypedUpdate
<1>3. ASSUME NEW q \in Run PROVE Stays(q) \/ (q = x /\ Ends(q, ok, bound))
  BY <1>2, EndedFields DEF Stays, Ends
<1>4. QED
  BY <1>2, <1>3 DEF OneEnds

LEMMA RunsStay ==
  ASSUME RunsTyped, UNCHANGED runs
  PROVE  RunsTyped' /\ \A x, ok, bound : OneEnds(x, ok, bound)
  BY DEF RunsTyped, GoodRun, OneEnds, Stays

LEMMA StepJobNames ==
  /\ \A job \in StepJobs : job \notin Inactive /\ job # "record" /\ job # "none"
                             /\ job \notin ExecutorJobs /\ job # "resume-bind"
  /\ \A job \in Waiting : job \in Inactive
  BY DEF StepJobs, Inactive, Waiting, Invisible, ExecutorJobs

(* No run starts executing by another's end. *)
LEMMA StillOneAtATime ==
  ASSUME RunsTyped, StepsPlaced, NEW x, NEW ok \in BOOLEAN, NEW bound \in BOOLEAN,
         OneEnds(x, ok, bound)
  PROVE  \A r, q \in Run \ {LabelRun} : Executing(r)' /\ Executing(q)' => r = q
<1>1. ASSUME NEW r \in Run, Executing(r)' PROVE Executing(r)
  <2>1. CASE Stays(r)
    BY <1>1, <2>1 DEF Stays, Executing, Inactive
  <2>2. CASE Ends(r, ok, bound)
    <3>1. runs[r].job \in JobsOf(r)
      BY DEF RunsTyped, GoodRun
    <3>2. JobAfter(r, runs[r].job, ok, bound) # "done"
      BY <1>1, <2>2 DEF Ends, Executing, Inactive
    <3>3. QED
      BY <3>1, <3>2, JobOrder DEF Executing, Inactive
  <2>3. QED
    BY <2>1, <2>2 DEF OneEnds
<1>2. QED
  BY <1>1 DEF StepsPlaced

(* The run that actor a's job belongs to. *)
LEMMA OwnRun ==
  ASSUME RunsTyped, StepsPlaced, NEW a \in {"label", "resume"}, Job(a) \notin {"none", "done"},
         a = "label" \/ \E r \in Run \ {LabelRun} : Executing(r)
  PROVE  /\ ActorRun(a) \in Run /\ runs[ActorRun(a)].job = Job(a)
         /\ (a = "label" <=> ActorRun(a) = LabelRun)
         /\ a = "resume" => \A r \in Run \ {LabelRun} : Executing(r) => r = ActorRun(a)
<1>1. CASE a = "label"
  BY <1>1, Runs DEF ActorRun, Job
<1>2. CASE a = "resume"
  <2>1. \E r \in Run \ {LabelRun} : Executing(r)
    BY <1>2
  <2>2. ActorRun(a) = CHOOSE r \in Run \ {LabelRun} : Executing(r)
    BY <1>2 DEF ActorRun
  <2>3. ActorRun(a) \in Run \ {LabelRun} /\ Executing(ActorRun(a))
    BY <2>1, <2>2
  <2>4. Job(a) = runs[ActorRun(a)].job
    BY <1>2, <2>1 DEF Job
  <2>5. QED
    BY <1>2, <2>3, <2>4 DEF StepsPlaced
<1>3. QED
  BY <1>1, <1>2

----------------------------------------------------------------------------
(* A record never makes a nonce claimable again, and never unbinds a       *)
(* result: every request is a nonce of its own.                            *)

Narrows ==
  /\ \A n \in Nonce : Claimable(Current', n) => Claimable(Current, n)
  /\ Unbound(Current') => Unbound(Current)

LEMMA LandingNarrows ==
  ASSUME LP!Inv, Consistent(Current), NEW rec, Landed(rec)
  PROVE  /\ Narrows
         /\ rec.kind # "resume_bound" => Current'.pending.run = NoRun
         /\ rec.kind = "resume_bound" =>
              /\ Claimable(Current, NonceOf(rec.run)) /\ ~Claimable(Current', NonceOf(rec.run))
              /\ Current.pending.run = NoRun /\ Current'.pending.run = rec.run
              /\ Current'.pending.stage = Current.pending.stage
<1> DEFINE c == Current
           d == Current'
<1>1. rec \in LP!Record /\ rec.kind \in {"transition", "resume_requested", "resume_abandoned", "resume_bound"}
  BY RecordKinds DEF Landed, Truthful
<1>2. c \in LP!AuthView /\ d \in LP!AuthView
  BY CurrentTyped, LandedStep, Authorizations DEF LP!Inv, LP!TypeOK, Current
<1>3. NoNonce \notin Nonce
  BY LedgerAssumptions DEF LP!NullsAssumption
<1>4. ASSUME NEW n \in Nonce PROVE c.attempts[n[1]] \in Nat /\ n[2] \in Nat /\ n[1] \in LP!Stages
  BY <1>2, Nonces DEF LP!AuthView, LP!Attempts
<1>5. CASE rec.kind = "transition"
  <2>1. d.pending = LP!NoPending /\ d.attempts = c.attempts /\ d.state = rec.state
    BY <1>5, LandedTransition DEF TransitionEffect
  <2>2. rec.state \in LP!LegalTransitions(c.state)
    BY <1>5, LandedTransition
  <2>3. Unbound(d) => Unbound(c)
    BY <1>2, <2>1, <2>2, Predecessors DEF Unbound
  <2>4. QED
    BY <1>3, <1>5, <2>1, <2>3 DEF Narrows, Claimable, LP!NoPending
<1>6. CASE rec.kind = "resume_abandoned"
  <2>1. d.pending = LP!NoPending /\ d.attempts = c.attempts /\ d.state = c.state
    BY <1>6, LandedResume DEF ResumeEffect
  <2>2. QED
    BY <1>3, <1>6, <2>1 DEF Narrows, Claimable, LP!NoPending, Unbound
<1>7. CASE rec.kind = "resume_requested"
  <2>1. /\ d.pending = [stage |-> rec.stage, nonce |-> rec.nonce, attempt |-> rec.attempt,
                        run |-> NoRun]
        /\ d.attempts = [c.attempts EXCEPT ![rec.stage] = rec.attempt] /\ d.state = c.state
    BY <1>7, LandedResume DEF ResumeEffect
  <2>2. LP!RequestAccepted(c, rec) /\ rec \in LP!RequestedRecord
    BY <1>1, <1>7, LandedResume, RecordKinds
  <2>3. rec.attempt = c.attempts[rec.stage] + 1 /\ rec.stage \in LP!Stages
    BY <2>2 DEF LP!RequestAccepted, LP!RequestedRecord
  <2>4. rec.nonce = <<rec.stage, rec.attempt>>
    BY <1>7 DEF Landed, Truthful
  <2>5. ASSUME NEW n \in Nonce, Claimable(d, n) PROVE Claimable(c, n)
    <3>1. CASE n = rec.nonce
      <4>1. n[1] = rec.stage /\ n[2] = c.attempts[rec.stage] + 1
        BY <2>3, <2>4, <3>1
      <4>2. QED
        BY <1>4, <4>1 DEF Claimable
    <3>2. CASE n # rec.nonce
      <4>1. d.attempts[n[1]] < n[2]
        BY <2>1, <2>5, <3>2 DEF Claimable
      <4>2. c.attempts \in [LP!Stages -> Nat]
        BY <1>2 DEF LP!AuthView, LP!Attempts
      <4>3. c.attempts[n[1]] <= d.attempts[n[1]]
        BY <1>4, <2>1, <2>3, <4>2
      <4>4. d.attempts[n[1]] \in Nat
        BY <1>2, <1>4 DEF LP!AuthView, LP!Attempts
      <4>5. QED
        BY <1>4, <4>1, <4>3, <4>4 DEF Claimable
    <3>3. QED
      BY <3>1, <3>2
  <2>6. QED
    BY <1>7, <2>1, <2>5 DEF Narrows, Unbound
<1>8. CASE rec.kind = "resume_bound"
  <2>1. /\ d.pending = [c.pending EXCEPT !.run = rec.run] /\ d.attempts = c.attempts
        /\ d.state = c.state
    BY <1>8, LandedResume DEF ResumeEffect
  <2>2. LP!NamesPendingNonce(c, rec) /\ c.pending.run = NoRun /\ rec \in LP!ResumeBoundRecord
    BY <1>1, <1>8, LandedResume, RecordKinds
  <2>3. c.pending.stage # "none" /\ c.pending.nonce = rec.nonce /\ rec.run \in Run
    BY <2>2 DEF LP!NamesPendingNonce, LP!ResumeBoundRecord
  <2>4. NonceOf(rec.run) = rec.nonce
    BY <1>8 DEF Landed, Truthful
  <2>5. /\ d.pending.stage = c.pending.stage /\ d.pending.nonce = c.pending.nonce
        /\ d.pending.run = rec.run /\ rec.run # NoRun
    BY <1>2, <2>1, <2>3, Runs DEF LP!AuthView, LP!Pending
  <2>6. rec.nonce = <<c.pending.stage, c.attempts[c.pending.stage]>> /\ rec.nonce \in Nonce
    BY <2>3 DEF Consistent
  <2>7. ~(c.attempts[rec.nonce[1]] < rec.nonce[2])
    <3>1. rec.nonce[1] = c.pending.stage /\ rec.nonce[2] = c.attempts[c.pending.stage]
      BY <2>6
    <3>2. c.attempts[rec.nonce[1]] = rec.nonce[2] /\ rec.nonce[2] \in Nat
      BY <1>4, <2>6, <3>1
    <3>3. QED
      BY <3>2
  <2>8. QED
    BY <1>8, <2>1, <2>2, <2>3, <2>4, <2>5, <2>7 DEF Narrows, Claimable, Unbound
<1>9. QED
  BY <1>1, <1>5, <1>6, <1>7, <1>8

----------------------------------------------------------------------------
(* Starts, attempts and claims.                                            *)

Pushes(q) ==
  /\ runs[q].job = "publish" /\ runs'[q].job = "push"
  /\ runs'[q].valid = runs[q].valid

RunsMove(x, ok, bound) ==
  \A q \in Run : Stays(q) \/ Begins(q) \/ Pushes(q) \/ (q = x /\ Ends(q, ok, bound))

(* The resume-bind job of run x succeeds. *)
Claims(x, ok) == runs[x].job = "resume-bind" /\ ok

LEMMA MoveFacts ==
  ASSUME RunsTyped, NEW x, NEW ok \in BOOLEAN, NEW bound \in BOOLEAN, RunsMove(x, ok, bound),
         NEW q \in Run
  PROVE  /\ Claimed(q)' => Claimed(q) \/ (q = x /\ Claims(x, ok))
         /\ Bearer(q)' => Bearer(q) \/ (q = x /\ bound)
         /\ (FirstAttempt(q) /\ runs'[q].job \in {"publish", "push"}) =>
              \/ runs'[q].valid
              \/ runs[q].job \in {"publish", "push"} /\ ~runs[q].valid
         /\ runs[q].job \notin Waiting \cup {"resume-bind"} =>
              runs'[q].job \notin Waiting \cup {"resume-bind"}
         /\ runs'[q].job = "execute-fallback" =>
              runs[q].job = "execute-fallback" \/ (q = x /\ Claims(x, ok))
         /\ runs'[q].job \in {"authorize", "execute"} => runs[q].job \in {"authorize", "execute"}
         /\ runs'[q].job = "validate" =>
              \/ runs[q].job = "validate"
              \/ q = x /\ IF FirstAttempt(q) THEN bound ELSE Claims(x, ok)
         /\ (runs'[q].valid /\ runs'[q].job \in {"record-validation", "publish"}) =>
              \/ runs[q].job = "validate"
              \/ runs[q].valid /\ runs[q].job \in {"record-validation", "publish"}
         /\ (q # LabelRun /\ q[1] = "publication" /\ runs'[q].job \in {"record-validation", "publish"}) =>
              runs[q].job \in {"record-validation", "publish"} \/ (q = x /\ Claims(x, ok))
<1> DEFINE job == runs[q].job
           next == JobAfter(q, job, ok, bound)
<1>1. /\ job \in JobsOf(q) /\ runs[q].valid \in BOOLEAN
      /\ runs[q].valid => job \in PastValidation
  BY DEF RunsTyped, GoodRun, RunState
<1>2. CASE Stays(q)
  BY <1>1, <1>2 DEF Stays, Claimed, Bearer, Waiting, Invisible, PastValidation
<1>3. CASE Begins(q)
  BY <1>1, <1>3 DEF Begins, Claimed, Bearer, Waiting, Invisible, PastValidation
<1>4. CASE Pushes(q)
  BY <1>1, <1>4 DEF Pushes, Claimed, Bearer, Waiting, Invisible, PastValidation
<1>5. CASE q = x /\ Ends(q, ok, bound)
  <2>1. /\ next \in JobsOf(q) /\ next \notin Waiting /\ next # "push" /\ next # "resume-bind"
        /\ next # "authorize"
        /\ next = "execute" => job = "authorize"
        /\ next = "execute-fallback" => job = "resume-bind" /\ ok
        /\ next = "validate" =>
             \/ job \in {"bind", "bind-fallback"} /\ ok /\ bound
             \/ job = "resume-bind" /\ ok /\ ~FirstAttempt(q)
        /\ next = "publish" => job = "record-validation"
        /\ next = "publish" /\ FirstAttempt(q) => runs[q].valid
        /\ next # "done" => job \notin Waiting \cup {"done"}
        /\ next # "done" /\ ~ok => job # "resume-bind"
        /\ job \in PastValidation => next # "record-validation"
    BY <1>1, JobOrder
  <2>2. runs'[q].job = next /\ runs'[q].valid = (runs[q].valid \/ (job = "validate" /\ ok))
    BY <1>5 DEF Ends
  <2>3. job \in {"bind", "bind-fallback"} => FirstAttempt(q)
    BY <1>1, RunStages, Runs DEF JobsOf, StageJobs, Invisible, FirstAttempt
  <2>4. q # LabelRun /\ q[1] = "publication" /\ next = "record-validation" => job = "resume-bind" /\ ok
    BY <1>1 DEF JobsOf, StageJobs, Invisible, JobAfter, ResumesWith
  <2> HIDE DEF next
  <2>5. QED
    BY <1>1, <1>5, <2>1, <2>2, <2>3, <2>4
       DEF Claims, Claimed, Bearer, Waiting, Invisible, PastValidation
<1>6. QED
  BY <1>2, <1>3, <1>4, <1>5 DEF RunsMove

(* What an action makes of the ledger and of the runs together: the result *)
(* is bound, and a nonce is claimed, only with the record that says so.    *)
Turn(x, ok, bound) ==
  /\ RunsMove(x, ok, bound)
  /\ \/ view' = view /\ ~bound /\ ~(x \in Run /\ Claims(x, ok))
     \/ \E rec : /\ Landed(rec)
                 /\ bound => rec.kind = "transition" /\ rec.state = "RESULT_BOUND"
                 /\ IF rec.kind = "resume_bound"
                      THEN /\ rec.run = x /\ x \in Run \ {LabelRun}
                           /\ runs[x].job = "resume-bind" /\ Ends(x, ok, bound)
                      ELSE ~(x \in Run /\ Claims(x, ok))

LEMMA TurnFacts ==
  ASSUME RunsTyped, LP!Inv, Consistent(Current),
         NEW x, NEW ok \in BOOLEAN, NEW bound \in BOOLEAN, Turn(x, ok, bound)
  PROVE  /\ Narrows
         /\ bound => Unbound(Current) /\ ~Unbound(Current')
         /\ x \in Run /\ Claims(x, ok) =>
              /\ x # LabelRun
              /\ Claimable(Current, NonceOf(x)) /\ ~Claimable(Current', NonceOf(x))
         /\ Current'.pending.run # NoRun =>
              \/ Current'.pending.run = Current.pending.run
              \/ /\ Current'.pending.run = x /\ x \in Run
                 /\ runs'[x].job \notin Waiting \cup {"resume-bind"}
<1>1. CASE view' = view /\ ~bound /\ ~(x \in Run /\ Claims(x, ok))
  BY <1>1 DEF Narrows, Current
<1>2. ASSUME NEW rec, Landed(rec), bound => rec.kind = "transition" /\ rec.state = "RESULT_BOUND",
             IF rec.kind = "resume_bound"
               THEN rec.run = x /\ x \in Run \ {LabelRun} /\ runs[x].job = "resume-bind" /\ Ends(x, ok, bound)
               ELSE ~(x \in Run /\ Claims(x, ok))
      PROVE  /\ Narrows
             /\ bound => Unbound(Current) /\ ~Unbound(Current')
             /\ x \in Run /\ Claims(x, ok) =>
                  /\ x # LabelRun
                  /\ Claimable(Current, NonceOf(x)) /\ ~Claimable(Current', NonceOf(x))
             /\ Current'.pending.run # NoRun =>
                  /\ Current'.pending.run = x /\ x \in Run
                  /\ runs'[x].job \notin Waiting \cup {"resume-bind"}
  <2>1. /\ Narrows
        /\ rec.kind # "resume_bound" => Current'.pending.run = NoRun
        /\ rec.kind = "resume_bound" =>
              /\ Claimable(Current, NonceOf(rec.run)) /\ ~Claimable(Current', NonceOf(rec.run))
              /\ Current'.pending.run = rec.run
    BY <1>2, LandingNarrows
  <2>2. bound => Unbound(Current) /\ ~Unbound(Current')
    <3> SUFFICES ASSUME bound PROVE Unbound(Current) /\ ~Unbound(Current')
      OBVIOUS
    <3>1. rec.kind = "transition" /\ rec.state = "RESULT_BOUND"
      BY <1>2
    <3>2. /\ Current \in LP!AuthView /\ rec.state \in LP!LegalTransitions(Current.state)
          /\ Current'.state = rec.state
      BY <1>2, <3>1, CurrentTyped, LandedTransition DEF TransitionEffect
    <3>3. QED
      BY <3>1, <3>2, Predecessors DEF Unbound
  <2>3. rec.kind = "resume_bound" => runs'[x].job \notin Waiting \cup {"resume-bind"}
    <3> SUFFICES ASSUME rec.kind = "resume_bound"
                 PROVE  runs'[x].job \notin Waiting \cup {"resume-bind"}
      OBVIOUS
    <3>1. x \in Run /\ runs'[x].job = JobAfter(x, runs[x].job, ok, bound) /\ runs[x].job \in JobsOf(x)
      BY <1>2 DEF Ends, RunsTyped, GoodRun
    <3>2. QED
      BY <3>1, JobOrder
  <2>4. QED
    BY <1>2, <2>1, <2>2, <2>3
<1>3. QED
  BY <1>1, <1>2 DEF Turn

LEMMA ClaimsKept ==
  ASSUME RunsTyped, LP!Inv, Consistent(Current), OneClaim,
         NEW x, NEW ok \in BOOLEAN, NEW bound \in BOOLEAN, Turn(x, ok, bound)
  PROVE  OneClaim'
<1>1. /\ Narrows
      /\ x \in Run /\ Claims(x, ok) =>
           /\ x # LabelRun
           /\ Claimable(Current, NonceOf(x)) /\ ~Claimable(Current', NonceOf(x))
      /\ Current'.pending.run # NoRun =>
           \/ Current'.pending.run = Current.pending.run
           \/ Current'.pending.run = x /\ x \in Run /\ runs'[x].job \notin Waiting \cup {"resume-bind"}
  BY TurnFacts
<1>2. ASSUME NEW q \in Run
      PROVE  /\ Claimed(q)' => Claimed(q) \/ (q = x /\ Claims(x, ok))
             /\ runs[q].job \notin Waiting \cup {"resume-bind"} =>
                  runs'[q].job \notin Waiting \cup {"resume-bind"}
  <2>1. RunsMove(x, ok, bound)
    BY DEF Turn
  <2>2. QED
    BY <2>1, MoveFacts
<1>3. ASSUME NEW r \in Run \ {LabelRun}, Claimed(r)' PROVE ~Claimable(Current', NonceOf(r))
  <2>1. NonceOf(r) \in Nonce
    BY ResumeRuns
  <2>2. QED
    BY <1>1, <1>2, <1>3, <2>1 DEF OneClaim, Narrows
<1>4. ASSUME NEW r \in Run, NEW q \in Run, Claimed(r)', Claimed(q)', NonceOf(r) = NonceOf(q)
      PROVE  r = q
  <2>1. r # LabelRun /\ q # LabelRun
    BY <1>4 DEF Claimed
  <2>2. QED
    BY <1>1, <1>2, <1>4, <2>1 DEF OneClaim
<1>5. Current'.pending.run # NoRun =>
        runs'[Current'.pending.run].job \notin Waiting \cup {"resume-bind"}
  <2>1. Current.pending.run \in Run \cup {NoRun}
    BY CurrentTyped DEF LP!AuthView, LP!Pending
  <2>2. QED
    BY <1>1, <1>2, <2>1 DEF OneClaim
<1>6. QED
  BY <1>3, <1>4, <1>5 DEF OneClaim, Claimable

LEMMA BearerKept ==
  ASSUME RunsTyped, LP!Inv, Consistent(Current), OneBearer,
         NEW x, NEW ok \in BOOLEAN, NEW bound \in BOOLEAN, Turn(x, ok, bound)
  PROVE  OneBearer'
<1>1. Narrows /\ (bound => Unbound(Current) /\ ~Unbound(Current'))
  BY TurnFacts
<1>2. ASSUME NEW q \in Run
      PROVE  /\ Bearer(q)' => Bearer(q) \/ (q = x /\ bound)
             /\ (FirstAttempt(q) /\ runs'[q].job \in {"publish", "push"}) =>
                  \/ runs'[q].valid
                  \/ runs[q].job \in {"publish", "push"} /\ ~runs[q].valid
  BY MoveFacts DEF Turn
<1>3. Unbound(Current') => \A r \in Run : ~Bearer(r)'
  BY <1>1, <1>2 DEF OneBearer, Narrows
<1>4. \A r, q \in Run : Bearer(r)' /\ Bearer(q)' => r = q
  BY <1>1, <1>2 DEF OneBearer
<1>5. \A r \in Run : FirstAttempt(r) /\ runs'[r].job \in {"publish", "push"} => runs'[r].valid
  BY <1>2 DEF OneBearer
<1>6. QED
  BY <1>3, <1>4, <1>5 DEF OneBearer, Unbound

(* What is over stays over. *)
LEMMA OverPersists ==
  ASSUME RunsTyped, LP!Inv, Consistent(Current), OneClaim,
         NEW x, NEW ok \in BOOLEAN, NEW bound \in BOOLEAN, Turn(x, ok, bound)
  PROVE  /\ FirstOver(Validating) => FirstOver(Validating)'
         /\ FirstOver(PublishingFirst) => FirstOver(PublishingFirst)'
         /\ NonceOver(<<"validation", 1>>, Validating) => NonceOver(<<"validation", 1>>, Validating)'
         /\ \A n \in Nonce : n[1] = "publication" =>
              (NonceOver(n, PublishingAgain) => NonceOver(n, PublishingAgain)')
<1>1. /\ Narrows /\ (bound => Unbound(Current))
      /\ x \in Run /\ Claims(x, ok) => x # LabelRun /\ Claimable(Current, NonceOf(x))
  BY TurnFacts
<1>2. RunsMove(x, ok, bound)
  BY DEF Turn
<1>3. ASSUME NEW q \in Run
      PROVE  /\ runs'[q].job = "validate" =>
                  \/ runs[q].job = "validate"
                  \/ q = x /\ IF FirstAttempt(q) THEN bound ELSE Claims(x, ok)
             /\ (runs'[q].valid /\ runs'[q].job \in {"record-validation", "publish"}) =>
                  \/ runs[q].job = "validate"
                  \/ runs[q].valid /\ runs[q].job \in {"record-validation", "publish"}
             /\ (q # LabelRun /\ q[1] = "publication"
                   /\ runs'[q].job \in {"record-validation", "publish"}) =>
                  runs[q].job \in {"record-validation", "publish"} \/ (q = x /\ Claims(x, ok))
  BY <1>2, MoveFacts
<1>4. Unbound(Current)' <=> Unbound(Current')
  BY DEF Unbound
<1>5. FirstOver(Validating) => FirstOver(Validating)'
  BY <1>1, <1>3, <1>4 DEF FirstOver, Validating, Narrows
<1>6. FirstOver(PublishingFirst) => FirstOver(PublishingFirst)'
  BY <1>1, <1>3, <1>4 DEF FirstOver, PublishingFirst, Narrows
<1>7. NonceOver(<<"validation", 1>>, Validating) => NonceOver(<<"validation", 1>>, Validating)'
  <2> DEFINE n == <<"validation", 1>>
  <2> SUFFICES ASSUME NonceOver(n, Validating) PROVE NonceOver(n, Validating)'
    OBVIOUS
  <2>1. n \in Nonce
    BY DEF Nonce, ResumeRun
  <2>2. ASSUME NEW q \in Run, runs'[q].job = "validate", q # LabelRun, NonceOf(q) = n PROVE FALSE
    <3>1. ~FirstAttempt(q)
      BY <2>2 DEF NonceOf, FirstAttempt
    <3>2. runs[q].job = "validate" \/ (q = x /\ Claims(x, ok))
      BY <1>3, <2>2, <3>1
    <3>3. QED
      BY <1>1, <2>2, <3>2 DEF NonceOver, Validating
  <2>3. ~Claimable(Current', n)
    BY <1>1, <2>1 DEF NonceOver, Narrows
  <2>4. QED
    BY <2>2, <2>3 DEF NonceOver, Validating, Claimable
<1>8. ASSUME NEW n \in Nonce, n[1] = "publication", NonceOver(n, PublishingAgain)
      PROVE  NonceOver(n, PublishingAgain)'
  <2>1. ASSUME NEW q \in Run, runs'[q].job \in {"record-validation", "publish"},
               q # LabelRun, NonceOf(q) = n
        PROVE  FALSE
    <3>1. q[1] = "publication"
      BY <1>8, <2>1 DEF NonceOf
    <3>2. runs[q].job \in {"record-validation", "publish"} \/ (q = x /\ Claims(x, ok))
      BY <1>3, <2>1, <3>1
    <3>3. QED
      BY <1>1, <1>8, <2>1, <3>2 DEF NonceOver, PublishingAgain
  <2>2. ~Claimable(Current', n)
    BY <1>1, <1>8 DEF NonceOver, Narrows
  <2>3. QED
    BY <2>1, <2>2 DEF NonceOver, PublishingAgain, Claimable
<1>9. QED
  BY <1>5, <1>6, <1>7, <1>8

LEMMA PublicationNonces ==
  /\ <<"publication", 1>> \in Nonce /\ <<"publication", 1>>[1] = "publication"
  /\ <<"publication", 2>> \in Nonce /\ <<"publication", 2>>[1] = "publication"
  BY DEF Nonce, ResumeRun

LEMMA ValidationKept ==
  ASSUME RunsTyped, LP!Inv, Consistent(Current), LaunchInv,
         NEW x, NEW ok \in BOOLEAN, NEW bound \in BOOLEAN, Turn(x, ok, bound),
         starts'.validation = starts.validation
  PROVE  ValidationCounted'
<1> DEFINE v1 == Count(FirstOver(Validating))
           v2 == Count(NonceOver(<<"validation", 1>>, Validating))
<1>1. v1 <= v1' /\ v2 <= v2'
  BY OverPersists DEF Count, LaunchInv
<1>2. v1 \in Nat /\ v1' \in Nat /\ v2 \in Nat /\ v2' \in Nat
  BY DEF Count
<1>3. starts.validation \in Nat /\ starts.validation <= v1 + v2
  BY DEF LaunchInv, StartsTyped, ValidationCounted
<1> HIDE DEF v1, v2
<1>4. starts'.validation <= v1' + v2'
  BY <1>1, <1>2, <1>3
<1>5. QED
  BY <1>4 DEF ValidationCounted, v1, v2

LEMMA PublicationKept ==
  ASSUME RunsTyped, LP!Inv, Consistent(Current), LaunchInv,
         NEW x, NEW ok \in BOOLEAN, NEW bound \in BOOLEAN, Turn(x, ok, bound),
         starts'.publication = starts.publication
  PROVE  PublicationCounted'
<1> DEFINE p1 == Count(FirstOver(PublishingFirst))
           p2 == Count(NonceOver(<<"publication", 1>>, PublishingAgain))
           p3 == Count(NonceOver(<<"publication", 2>>, PublishingAgain))
<1>1. p1 <= p1' /\ p2 <= p2' /\ p3 <= p3'
  BY OverPersists, PublicationNonces DEF Count, LaunchInv
<1>2. p1 \in Nat /\ p1' \in Nat /\ p2 \in Nat /\ p2' \in Nat /\ p3 \in Nat /\ p3' \in Nat
  BY DEF Count
<1>3. starts.publication \in Nat /\ starts.publication <= p1 + p2 + p3
  BY DEF LaunchInv, StartsTyped, PublicationCounted
<1> HIDE DEF p1, p2, p3
<1>4. starts'.publication <= p1' + p2' + p3'
  BY <1>1, <1>2, <1>3
<1>5. QED
  BY <1>4 DEF PublicationCounted, p1, p2, p3

(* The ledger counts an approval before the fallback may start under it. *)
LEMMA ApprovalsCounted ==
  ASSUME RunsTyped, LP!Inv, Consistent(Current), OneClaim,
         NEW x, NEW ok \in BOOLEAN, NEW bound \in BOOLEAN, Turn(x, ok, bound)
  PROVE  /\ Current.attempts["fallback"] \in Nat /\ Current'.attempts["fallback"] \in Nat
         /\ \/ /\ Current'.attempts["fallback"] = Current.attempts["fallback"]
               /\ Unlaunched(Current)' => Unlaunched(Current)
            \/ /\ Current'.attempts["fallback"] = Current.attempts["fallback"] + 1
               /\ ~Unlaunched(Current)
<1> DEFINE c == Current
           d == Current'
<1>1. RunsMove(x, ok, bound)
  BY DEF Turn
<1>2. c \in LP!AuthView /\ c.attempts["fallback"] \in Nat
  BY CurrentTyped DEF LP!AuthView, LP!Attempts, LP!Stages
<1>3. CASE view' = view /\ ~bound /\ ~(x \in Run /\ Claims(x, ok))
  <2>1. d = c
    BY <1>3 DEF Current
  <2>2. c.pending.run \in Run \cup {NoRun}
    BY <1>2 DEF LP!AuthView, LP!Pending
  <2>3. ASSUME NEW q \in Run
        PROVE  runs'[q].job = "execute-fallback" =>
                 runs[q].job = "execute-fallback" \/ (q = x /\ Claims(x, ok))
    BY <1>1, MoveFacts
  <2>4. Unlaunched(c)' => Unlaunched(c)
    BY <1>3, <2>1, <2>2, <2>3 DEF Unlaunched
  <2>5. QED
    BY <1>2, <2>1, <2>4
<1>4. ASSUME NEW rec, Landed(rec)
      PROVE  /\ d.attempts["fallback"] \in Nat
             /\ \/ /\ d.attempts["fallback"] = c.attempts["fallback"]
                   /\ Unlaunched(c)' => Unlaunched(c)
                \/ /\ d.attempts["fallback"] = c.attempts["fallback"] + 1
                   /\ ~Unlaunched(c)
  <2>1. rec \in LP!Record /\ rec.kind \in {"transition", "resume_requested", "resume_abandoned", "resume_bound"}
    BY <1>4, RecordKinds DEF Landed, Truthful
  <2>2. CASE rec.kind = "transition"
    <3>1. d.pending.stage = "none" /\ d.attempts = c.attempts
      BY <1>4, <2>2, LandedTransition DEF TransitionEffect, LP!NoPending
    <3>2. QED
      BY <1>2, <3>1 DEF Unlaunched
  <2>3. CASE rec.kind = "resume_abandoned"
    <3>1. ResumeEffect(c, d, rec)
      BY <1>4, <2>3, LandedResume
    <3>2. d.pending.stage = "none" /\ d.attempts = c.attempts
      BY <2>3, <3>1 DEF ResumeEffect, LP!NoPending
    <3>3. QED
      BY <1>2, <3>2 DEF Unlaunched
  <2>4. CASE rec.kind = "resume_requested"
    <3>1. /\ d.pending.stage = rec.stage
          /\ d.attempts = [c.attempts EXCEPT ![rec.stage] = rec.attempt]
      <4>1. ResumeEffect(c, d, rec)
        BY <1>4, <2>4, LandedResume
      <4>2. QED
        BY <2>4, <4>1 DEF ResumeEffect
    <3>2. LP!RequestAccepted(c, rec) /\ rec \in LP!RequestedRecord
      BY <1>4, <2>1, <2>4, LandedResume, RecordKinds
    <3>3. /\ rec.attempt = c.attempts[rec.stage] + 1 /\ rec.stage \in LP!Stages
          /\ c.pending.stage = "none"
      BY <3>2 DEF LP!RequestAccepted, LP!RequestedRecord
    <3>4. ~Unlaunched(c)
      BY <3>3 DEF Unlaunched
    <3>5. c.attempts \in [LP!Stages -> Nat]
      BY <1>2 DEF LP!AuthView, LP!Attempts
    <3>6. CASE rec.stage = "fallback"
      BY <1>2, <3>1, <3>3, <3>4, <3>5, <3>6
    <3>7. CASE rec.stage # "fallback"
      <4>1. d.attempts["fallback"] = c.attempts["fallback"]
        BY <3>1, <3>5, <3>7 DEF LP!Stages
      <4>2. ~Unlaunched(c)'
        BY <3>1, <3>7 DEF Unlaunched
      <4>3. QED
        BY <1>2, <4>1, <4>2
    <3>8. QED
      BY <3>6, <3>7
  <2>5. CASE rec.kind = "resume_bound"
    <3>1. d.attempts = c.attempts
      BY <1>4, <2>5, LandedResume DEF ResumeEffect
    <3>2. c.pending.run = NoRun /\ d.pending.stage = c.pending.stage
      BY <1>4, <2>5, LandingNarrows
    <3>3. QED
      BY <1>2, <3>1, <3>2 DEF Unlaunched
  <2>6. QED
    BY <2>1, <2>2, <2>3, <2>4, <2>5
<1>5. QED
  BY <1>2, <1>3, <1>4 DEF Turn

LEMMA FallbackKept ==
  ASSUME RunsTyped, LP!Inv, Consistent(Current), LaunchInv,
         NEW x, NEW ok \in BOOLEAN, NEW bound \in BOOLEAN, Turn(x, ok, bound),
         starts'.fallback = starts.fallback
  PROVE  FallbackCounted'
<1>1. starts.fallback \in Nat
  BY DEF LaunchInv, StartsTyped
<1>2. starts.fallback + (IF Unlaunched(Current) THEN 1 ELSE 0) <= Current.attempts["fallback"]
  BY DEF LaunchInv, FallbackCounted
<1>3. /\ Current.attempts["fallback"] \in Nat /\ Current'.attempts["fallback"] \in Nat
      /\ \/ /\ Current'.attempts["fallback"] = Current.attempts["fallback"]
            /\ Unlaunched(Current)' => Unlaunched(Current)
         \/ /\ Current'.attempts["fallback"] = Current.attempts["fallback"] + 1
            /\ ~Unlaunched(Current)
  BY ApprovalsCounted DEF LaunchInv
<1>4. starts'.fallback + (IF Unlaunched(Current)' THEN 1 ELSE 0) <= Current'.attempts["fallback"]
  BY <1>1, <1>2, <1>3
<1>5. QED
  BY <1>4 DEF FallbackCounted

LEMMA PrimaryKept ==
  ASSUME RunsTyped, LaunchInv, NEW x, NEW ok \in BOOLEAN, NEW bound \in BOOLEAN,
         Turn(x, ok, bound), starts'.primary = starts.primary
  PROVE  PrimaryCounted'
<1>1. RunsMove(x, ok, bound)
  BY DEF Turn
<1>2. runs'[LabelRun].job \in {"authorize", "execute"} =>
        runs[LabelRun].job \in {"authorize", "execute"}
  BY <1>1, MoveFacts, Runs
<1>3. QED
  BY <1>2 DEF LaunchInv, PrimaryCounted

(* An action that starts no stage job. *)
LEMMA TurnKeepsLaunchInv ==
  ASSUME RunsTyped, LP!Inv, Consistent(Current), LaunchInv,
         NEW x, NEW ok \in BOOLEAN, NEW bound \in BOOLEAN, Turn(x, ok, bound), UNCHANGED starts
  PROVE  LaunchInv'
<1>1. OneClaim' /\ OneBearer'
  BY ClaimsKept, BearerKept DEF LaunchInv
<1>2. PrimaryCounted' /\ FallbackCounted' /\ ValidationCounted' /\ PublicationCounted'
  BY PrimaryKept, FallbackKept, ValidationKept, PublicationKept
<1>3. StartsTyped'
  BY DEF LaunchInv, StartsTyped
<1>4. QED
  BY <1>1, <1>2, <1>3 DEF LaunchInv

----------------------------------------------------------------------------
(* An action that starts the work of run r's job, which thereby ends.      *)

Starting(r, ok) ==
  /\ view' = view /\ RunsMove(r, ok, FALSE) /\ ~Claims(r, ok)
  /\ runs'[r].job # runs[r].job /\ starts' = Started(runs[r].job)
  /\ runs[r].job \in ExecutorJobs => AwaitsExecution(r)

LEMMA StartingTurns ==
  ASSUME RunsTyped, NEW r \in Run, NEW ok \in BOOLEAN, Starting(r, ok)
  PROVE  /\ Turn(r, ok, FALSE) /\ Current' = Current
         /\ runs[r].job = "execute" => r = LabelRun /\ runs'[r].job = "bind"
         /\ runs[r].job = "execute-fallback" => r # LabelRun /\ runs'[r].job = "bind-fallback"
         /\ runs[r].job = "validate" =>
              runs'[r].job = "record-validation" /\ (FirstAttempt(r) \/ r[1] = "validation")
         /\ runs[r].job = "publish" =>
              runs'[r].job \in {"push", "finalize"} /\ (FirstAttempt(r) \/ r[1] = "publication")
<1>1. Turn(r, ok, FALSE) /\ Current' = Current
  BY DEF Starting, Turn, Current
<1>2. Stays(r) \/ Begins(r) \/ Pushes(r) \/ Ends(r, ok, FALSE)
  BY DEF Starting, RunsMove
<1>3. runs[r].job \in {"execute", "execute-fallback", "validate", "publish"} =>
        runs'[r].job = JobAfter(r, runs[r].job, ok, FALSE) \/ Pushes(r)
  BY <1>2 DEF Starting, Stays, Begins, Ends, Waiting, Invisible
<1>4. runs[r].job \in JobsOf(r)
  BY DEF RunsTyped, GoodRun
<1>5. QED
  BY <1>1, <1>3, <1>4, RunStages
     DEF JobAfter, JobsOf, LabelJobs, StageJobs, Invisible, FirstAttempt, Pushes

LEMMA ValidationStartCounted ==
  ASSUME RunsTyped, LP!Inv, Consistent(Current), LaunchInv,
         NEW r \in Run, NEW ok \in BOOLEAN, Starting(r, ok), runs[r].job = "validate"
  PROVE  ValidationCounted'
<1> DEFINE n == <<"validation", 1>>
           v1 == Count(FirstOver(Validating))
           v2 == Count(NonceOver(n, Validating))
<1>1. /\ Turn(r, ok, FALSE) /\ Current' = Current /\ RunsMove(r, ok, FALSE) /\ ~Claims(r, ok)
      /\ runs'[r].job = "record-validation" /\ (FirstAttempt(r) \/ r[1] = "validation")
  BY StartingTurns DEF Starting
<1>2. ASSUME NEW q \in Run, runs'[q].job = "validate"
      PROVE  runs[q].job = "validate" /\ q # r
  <2>1. ASSUME NEW bound \in BOOLEAN, RunsMove(r, ok, bound)
        PROVE  \/ runs[q].job = "validate"
               \/ q = r /\ IF FirstAttempt(q) THEN bound ELSE Claims(r, ok)
    BY <1>2, <2>1, MoveFacts
  <2>2. QED
    BY <1>1, <1>2, <2>1
<1>3. v1 <= v1' /\ v2 <= v2'
  <2>1. OneClaim
    BY DEF LaunchInv
  <2>2. /\ FirstOver(Validating) => FirstOver(Validating)'
        /\ NonceOver(<<"validation", 1>>, Validating) => NonceOver(<<"validation", 1>>, Validating)'
    BY <1>1, <2>1, OverPersists, FALSE \in BOOLEAN
  <2>3. QED
    BY <2>2 DEF Count
<1>4. v1 \in Nat /\ v1' \in Nat /\ v2 \in Nat /\ v2' \in Nat
  BY DEF Count
<1>5. FirstAttempt(r) => v1 = 0 /\ v1' = 1
  <2> SUFFICES ASSUME FirstAttempt(r) PROVE ~FirstOver(Validating) /\ FirstOver(Validating)'
    BY DEF Count
  <2>1. Bearer(r) /\ ~FirstOver(Validating)
    BY DEF Bearer, FirstOver, Validating
  <2>2. ~Unbound(Current')
    BY <1>1, <2>1 DEF LaunchInv, OneBearer
  <2>3. ASSUME NEW q \in Run, runs'[q].job = "validate" PROVE ~FirstAttempt(q)
    BY <1>2, <2>1, <2>3 DEF LaunchInv, OneBearer, Bearer
  <2>4. QED
    BY <2>1, <2>2, <2>3 DEF FirstOver, Validating, Unbound
<1>6. ~FirstAttempt(r) => v2 = 0 /\ v2' = 1
  <2> SUFFICES ASSUME ~FirstAttempt(r) PROVE ~NonceOver(n, Validating) /\ NonceOver(n, Validating)'
    BY DEF Count
  <2>1. r # LabelRun /\ r[1] = "validation"
    BY <1>1, Runs
  <2>2. NonceOf(r) = n
    BY <2>1, ResumeRuns, Nonces
  <2>3. Claimed(r) /\ ~NonceOver(n, Validating)
    BY <2>1, <2>2 DEF Claimed, Waiting, Invisible, NonceOver, Validating
  <2>4. ~Claimable(Current', n)
    BY <1>1, <2>1, <2>2, <2>3 DEF LaunchInv, OneClaim
  <2>5. ASSUME NEW q \in Run, runs'[q].job = "validate", q # LabelRun, NonceOf(q) = n PROVE FALSE
    <3>1. Claimed(q) /\ q # r
      BY <1>2, <2>5 DEF Claimed, Waiting, Invisible
    <3>2. QED
      BY <2>2, <2>3, <2>5, <3>1 DEF LaunchInv, OneClaim
  <2>6. QED
    BY <2>3, <2>4, <2>5 DEF NonceOver, Validating, Claimable
<1>7. starts.validation \in Nat /\ starts.validation <= v1 + v2
  BY DEF LaunchInv, StartsTyped, ValidationCounted
<1>8. starts'.validation = starts.validation + 1
  BY DEF LaunchInv, StartsTyped, Starting, Started
<1> HIDE DEF v1, v2
<1>9. starts'.validation <= v1' + v2'
  BY <1>3, <1>4, <1>5, <1>6, <1>7, <1>8
<1>10. QED
  BY <1>9 DEF ValidationCounted, v1, v2

LEMMA PublicationStartCounted ==
  ASSUME RunsTyped, LP!Inv, Consistent(Current), LaunchInv,
         NEW r \in Run, NEW ok \in BOOLEAN, Starting(r, ok), runs[r].job = "publish"
  PROVE  PublicationCounted'
<1> DEFINE n == NonceOf(r)
           p1 == Count(FirstOver(PublishingFirst))
           p2 == Count(NonceOver(<<"publication", 1>>, PublishingAgain))
           p3 == Count(NonceOver(<<"publication", 2>>, PublishingAgain))
<1>1. /\ Turn(r, ok, FALSE) /\ Current' = Current /\ RunsMove(r, ok, FALSE) /\ ~Claims(r, ok)
      /\ runs'[r].job \in {"push", "finalize"} /\ (FirstAttempt(r) \/ r[1] = "publication")
  BY StartingTurns DEF Starting
<1>2. ASSUME NEW q \in Run
      PROVE  /\ runs'[q].job = "validate" =>
                  runs[q].job = "validate" \/ (q = r /\ Claims(r, ok))
             /\ (runs'[q].valid /\ runs'[q].job \in {"record-validation", "publish"}) =>
                  \/ runs[q].job = "validate"
                  \/ runs[q].valid /\ runs[q].job \in {"record-validation", "publish"}
             /\ (q # LabelRun /\ q[1] = "publication"
                   /\ runs'[q].job \in {"record-validation", "publish"}) =>
                  runs[q].job \in {"record-validation", "publish"} \/ (q = r /\ Claims(r, ok))
  <2>1. ASSUME NEW bound \in BOOLEAN, RunsMove(r, ok, bound)
        PROVE  /\ runs'[q].job = "validate" =>
                    \/ runs[q].job = "validate"
                    \/ q = r /\ IF FirstAttempt(q) THEN bound ELSE Claims(r, ok)
               /\ (runs'[q].valid /\ runs'[q].job \in {"record-validation", "publish"}) =>
                    \/ runs[q].job = "validate"
                    \/ runs[q].valid /\ runs[q].job \in {"record-validation", "publish"}
               /\ (q # LabelRun /\ q[1] = "publication"
                     /\ runs'[q].job \in {"record-validation", "publish"}) =>
                    runs[q].job \in {"record-validation", "publish"} \/ (q = r /\ Claims(r, ok))
    BY <2>1, MoveFacts
  <2>2. QED
    BY <1>1, <2>1
<1>3. p1 <= p1' /\ p2 <= p2' /\ p3 <= p3'
  <2>1. OneClaim
    BY DEF LaunchInv
  <2>2. /\ FirstOver(PublishingFirst) => FirstOver(PublishingFirst)'
        /\ \A k \in Nonce : k[1] = "publication" =>
              (NonceOver(k, PublishingAgain) => NonceOver(k, PublishingAgain)')
    BY <1>1, <2>1, OverPersists, FALSE \in BOOLEAN
  <2>3. QED
    BY <2>2, PublicationNonces DEF Count
<1>4. p1 \in Nat /\ p1' \in Nat /\ p2 \in Nat /\ p2' \in Nat /\ p3 \in Nat /\ p3' \in Nat
  BY DEF Count
<1>5. FirstAttempt(r) => p1 = 0 /\ p1' = 1
  <2> SUFFICES ASSUME FirstAttempt(r)
               PROVE  ~FirstOver(PublishingFirst) /\ FirstOver(PublishingFirst)'
    BY DEF Count
  <2>1. runs[r].valid /\ Bearer(r)
    BY DEF LaunchInv, OneBearer, Bearer
  <2>2. ~FirstOver(PublishingFirst)
    BY <2>1 DEF FirstOver, PublishingFirst
  <2>3. ~Unbound(Current')
    BY <1>1, <2>1 DEF LaunchInv, OneBearer
  <2>4. ASSUME NEW q \in Run, FirstAttempt(q),
               \/ runs'[q].job = "validate"
               \/ runs'[q].valid /\ runs'[q].job \in {"record-validation", "publish"}
        PROVE  FALSE
    <3>1. q # r
      BY <1>1, <2>4
    <3>2. Bearer(q)
      BY <1>2, <2>4, <3>1 DEF Bearer
    <3>3. QED
      BY <2>1, <3>1, <3>2 DEF LaunchInv, OneBearer
  <2>5. QED
    BY <2>2, <2>3, <2>4 DEF FirstOver, PublishingFirst, Unbound
<1>6. ~FirstAttempt(r) =>
        /\ n = <<"publication", 1>> \/ n = <<"publication", 2>>
        /\ ~NonceOver(n, PublishingAgain) /\ NonceOver(n, PublishingAgain)'
  <2> SUFFICES ASSUME ~FirstAttempt(r)
               PROVE  /\ n = <<"publication", 1>> \/ n = <<"publication", 2>>
                      /\ ~NonceOver(n, PublishingAgain) /\ NonceOver(n, PublishingAgain)'
    OBVIOUS
  <2>1. r # LabelRun /\ r[1] = "publication"
    BY <1>1, Runs
  <2>2. n = <<"publication", 1>> \/ n = <<"publication", 2>>
    BY <2>1, ResumeRuns, Nonces
  <2>3. Claimed(r) /\ ~NonceOver(n, PublishingAgain)
    BY <2>1 DEF Claimed, Waiting, Invisible, NonceOver, PublishingAgain
  <2>4. ~Claimable(Current', n)
    BY <1>1, <2>1, <2>3 DEF LaunchInv, OneClaim
  <2>5. ASSUME NEW q \in Run, runs'[q].job \in {"record-validation", "publish"},
               q # LabelRun, NonceOf(q) = n
        PROVE  FALSE
    <3>1. q[1] = "publication"
      BY <2>1, <2>5 DEF NonceOf
    <3>2. q # r
      BY <1>1, <2>5
    <3>3. Claimed(q)
      BY <1>2, <2>5, <3>1, <3>2 DEF Claimed, Waiting, Invisible
    <3>4. QED
      BY <2>3, <2>5, <3>2, <3>3 DEF LaunchInv, OneClaim
  <2>6. QED
    BY <2>2, <2>3, <2>4, <2>5 DEF NonceOver, PublishingAgain, Claimable
<1>7. ~FirstAttempt(r) => (p2 = 0 /\ p2' = 1) \/ (p3 = 0 /\ p3' = 1)
  <2>1. CASE ~FirstAttempt(r) /\ n = <<"publication", 1>>
    <3>1. /\ ~NonceOver(<<"publication", 1>>, PublishingAgain)
          /\ NonceOver(<<"publication", 1>>, PublishingAgain)'
      BY <1>6, <2>1 DEF NonceOver, PublishingAgain, Claimable
    <3>2. QED
      BY <3>1 DEF Count
  <2>2. CASE ~FirstAttempt(r) /\ n = <<"publication", 2>>
    <3>1. /\ ~NonceOver(<<"publication", 2>>, PublishingAgain)
          /\ NonceOver(<<"publication", 2>>, PublishingAgain)'
      BY <1>6, <2>2 DEF NonceOver, PublishingAgain, Claimable
    <3>2. QED
      BY <3>1 DEF Count
  <2>3. QED
    BY <1>6, <2>1, <2>2
<1>8. starts.publication \in Nat /\ starts.publication <= p1 + p2 + p3
  BY DEF LaunchInv, StartsTyped, PublicationCounted
<1>9. starts'.publication = starts.publication + 1
  BY DEF LaunchInv, StartsTyped, Starting, Started
<1> HIDE DEF p1, p2, p3
<1>10. starts'.publication <= p1' + p2' + p3'
  BY <1>3, <1>4, <1>5, <1>7, <1>8, <1>9
<1>11. QED
  BY <1>10 DEF PublicationCounted, p1, p2, p3

(* The fallback is launched by the run that claimed the pending approval.  *)
LEMMA FallbackStartCounted ==
  ASSUME RunsTyped, LP!Inv, Consistent(Current), LaunchInv,
         NEW r \in Run, NEW ok \in BOOLEAN, Starting(r, ok), runs[r].job = "execute-fallback"
  PROVE  FallbackCounted'
<1>1. /\ Current' = Current /\ r # LabelRun /\ runs'[r].job = "bind-fallback"
  BY StartingTurns
<1>2. AwaitsExecution(r)
  BY DEF Starting, ExecutorJobs
<1>3. Current.pending.run = r /\ Current.state = "FALLBACK_AUTHORIZED"
  BY <1>1, <1>2 DEF AwaitsExecution, Consistent
<1>4. Current.pending.stage = "fallback"
  <2>1. Current.pending.stage # "none"
    BY <1>3, Runs DEF Consistent, Ledger!NoPending
  <2>2. Current.pending.stage \in LP!Stages
    BY <2>1, CurrentTyped DEF LP!AuthView, LP!Pending
  <2>3. QED
    BY <1>3, <2>1, <2>2, CurrentTyped DEF LP!Sound, LP!PendingMatches, LP!StageState, LP!Stages
<1>5. Unlaunched(Current) /\ ~Unlaunched(Current)'
  BY <1>1, <1>3, <1>4, Runs DEF Unlaunched
<1>6. starts.fallback \in Nat /\ Current.attempts["fallback"] \in Nat
  BY CurrentTyped DEF LaunchInv, StartsTyped, LP!AuthView, LP!Attempts, LP!Stages
<1>7. starts.fallback + 1 <= Current.attempts["fallback"]
  BY <1>5 DEF LaunchInv, FallbackCounted
<1>8. starts'.fallback = starts.fallback + 1
  BY DEF LaunchInv, StartsTyped, Starting, Started
<1>9. QED
  BY <1>1, <1>5, <1>6, <1>7, <1>8 DEF FallbackCounted

LEMMA PrimaryStartCounted ==
  ASSUME RunsTyped, LaunchInv, NEW r \in Run, NEW ok \in BOOLEAN, Starting(r, ok),
         runs[r].job = "execute"
  PROVE  PrimaryCounted'
<1>1. r = LabelRun /\ runs'[LabelRun].job = "bind"
  BY StartingTurns
<1>2. starts.primary = 0
  BY <1>1 DEF LaunchInv, PrimaryCounted
<1>3. starts'.primary = 1
  BY <1>2 DEF LaunchInv, StartsTyped, Starting, Started
<1>4. QED
  BY <1>1, <1>3 DEF PrimaryCounted

LEMMA StartingKeepsLaunchInv ==
  ASSUME RunsTyped, LP!Inv, Consistent(Current), LaunchInv,
         NEW r \in Run, NEW ok \in BOOLEAN, Starting(r, ok)
  PROVE  LaunchInv'
<1>1. Turn(r, ok, FALSE) /\ FALSE \in BOOLEAN
  BY StartingTurns
<1>2. OneClaim'
  <2>1. OneClaim
    BY DEF LaunchInv
  <2>2. QED
    BY <1>1, <2>1, ClaimsKept
<1>3. OneBearer'
  <2>1. OneBearer
    BY DEF LaunchInv
  <2>2. QED
    BY <1>1, <2>1, BearerKept
<1>4. starts' = Started(runs[r].job) /\ StartsTyped
  BY DEF Starting, LaunchInv
<1>5. StartsTyped'
  BY <1>4 DEF StartsTyped, Started
<1>6. /\ runs[r].job # "execute" => starts'.primary = starts.primary
      /\ runs[r].job # "execute-fallback" => starts'.fallback = starts.fallback
      /\ runs[r].job # "validate" => starts'.validation = starts.validation
      /\ runs[r].job # "publish" => starts'.publication = starts.publication
  BY <1>4 DEF StartsTyped, Started
<1>7. PrimaryCounted'
  BY <1>1, <1>6, PrimaryKept, PrimaryStartCounted
<1>8. FallbackCounted'
  BY <1>1, <1>6, FallbackKept, FallbackStartCounted
<1>9. ValidationCounted'
  BY <1>1, <1>6, ValidationKept, ValidationStartCounted
<1>10. PublicationCounted'
  BY <1>1, <1>6, PublicationKept, PublicationStartCounted
<1>11. QED
  BY <1>2, <1>3, <1>5, <1>7, <1>8, <1>9, <1>10 DEF LaunchInv

----------------------------------------------------------------------------
(* The evidence, by what an action does to the ledger.                     *)

LEMMA LandingKeepsEvidenceInv ==
  ASSUME EvidenceInv, NEW rec, Landed(rec), UNCHANGED <<outcomes, world>>, StepsAgree',
         \A r \in Run : runs'[r].job = "push" => runs[r].job = "push"
  PROVE  EvidenceInv'
<1>1. /\ LP!Inv' /\ Consistent(Current)' /\ WorldAgrees(Current)'
      /\ Validated(Current) => Validated(Current)'
  BY LandingKeepsEvidence DEF EvidenceInv
<1>2. \A r \in Run : runs'[r].job = "push" => Validated(Current)'
  BY <1>1 DEF EvidenceInv
<1>3. QED
  BY <1>1, <1>2 DEF EvidenceInv, StepsAgree

LEMMA SameView ==
  ASSUME view' = view, LP!Inv, Consistent(Current)
  PROVE  LP!Inv' /\ Consistent(Current)' /\ Current' = Current
<1>1. Current' = Current
  BY DEF Current
<1>2. LP!Inv'
  BY LP!StepKeepsInv, LedgerAssumptions
<1>3. QED
  BY <1>1, <1>2 DEF Consistent

LEMMA StayingKeepsEvidenceInv ==
  ASSUME EvidenceInv, view' = view, outcomes \subseteq outcomes', UNCHANGED world, StepsAgree',
         \A r \in Run : runs'[r].job = "push" => Validated(Current)
  PROVE  EvidenceInv'
<1>1. LP!Inv' /\ Consistent(Current)' /\ Current' = Current
  BY SameView DEF EvidenceInv
<1>2. PassUploaded => PassUploaded'
  BY DEF PassUploaded
<1>3. Validated(Current) => Validated(Current)'
  BY <1>1, <1>2 DEF Validated
<1>4. WorldAgrees(Current)'
  BY <1>1, <1>3 DEF EvidenceInv, WorldAgrees, world
<1>5. QED
  BY <1>1, <1>3, <1>4 DEF EvidenceInv, StepsAgree

LEMMA NoNewPush ==
  ASSUME RunsTyped, NEW x, NEW ok \in BOOLEAN, NEW bound \in BOOLEAN, OneEnds(x, ok, bound)
  PROVE  \A r \in Run : runs'[r].job = "push" => runs[r].job = "push"
<1> SUFFICES ASSUME NEW r \in Run, runs'[r].job = "push" PROVE runs[r].job = "push"
  OBVIOUS
<1>1. runs[r].job \in JobsOf(r)
  BY DEF RunsTyped, GoodRun
<1>2. CASE Stays(r)
  BY <1>2 DEF Stays, Waiting, Invisible
<1>3. CASE Ends(r, ok, bound)
  BY <1>1, <1>3, JobOrder DEF Ends
<1>4. QED
  BY <1>2, <1>3 DEF OneEnds

----------------------------------------------------------------------------
(* Control steps and their runs.                                           *)

OnJob(a) ==
  /\ ActorRun(a) \in Run /\ Executing(ActorRun(a))
  /\ a = "label" <=> ActorRun(a) = LabelRun

OnStep(a) == OnJob(a) /\ runs[ActorRun(a)].job \in StepJobs

LEMMA BusyOnStep ==
  ASSUME RunsTyped, StepsPlaced, NEW a \in Actor, OwnsRun(a), ctl[a].at # "idle"
  PROVE  OnStep(a)
<1>1. CASE a = "label"
  BY <1>1, Runs, StepJobNames DEF StepsPlaced, OnStep, OnJob, ActorRun, Executing
<1>2. CASE a = "resume"
  <2>1. PICK r \in Run \ {LabelRun} : runs[r].job \in StepJobs
    BY <1>2 DEF StepsPlaced
  <2>2. Executing(r)
    BY <2>1, StepJobNames DEF Executing
  <2>3. ActorRun(a) = r
    BY <1>2, <2>2 DEF ActorRun, StepsPlaced
  <2>4. QED
    BY <1>2, <2>1, <2>2, <2>3 DEF OnStep, OnJob
<1>3. QED
  BY <1>1, <1>2 DEF OwnsRun

LEMMA ReadyOnStep ==
  ASSUME RunsTyped, StepsPlaced, NEW a \in Actor, OwnsRun(a), Ready(a)
  PROVE  OnStep(a)
<1>1. CASE a = "label"
  <2>1. runs[LabelRun].job \in StepJobs \cup {"record"}
    BY <1>1 DEF Ready, Job
  <2>2. runs[LabelRun].job \in LabelJobs
    BY Runs DEF RunsTyped, GoodRun, JobsOf
  <2>3. runs[LabelRun].job \in StepJobs
    BY <2>1, <2>2 DEF LabelJobs
  <2>4. QED
    BY <1>1, <2>3, Runs, StepJobNames DEF OnStep, OnJob, ActorRun, Executing
<1>2. CASE a = "resume"
  <2>1. \E r \in Run \ {LabelRun} : Executing(r)
    BY <1>2 DEF Ready, Job, StepJobs
  <2>2. ActorRun(a) \in Run \ {LabelRun} /\ Executing(ActorRun(a))
    BY <1>2, <2>1 DEF ActorRun
  <2>3. runs[ActorRun(a)].job \in StepJobs \cup {"record"}
    BY <1>2, <2>1 DEF Ready, Job
  <2>4. runs[ActorRun(a)].job # "record"
    BY <2>2 DEF RunsTyped, GoodRun, RunState, Jobs, LabelJobs, Invisible
  <2>5. QED
    BY <1>2, <2>2, <2>3, <2>4 DEF OnStep, OnJob
<1>3. QED
  BY <1>1, <1>2 DEF OwnsRun

(* The run whose job actor a's step may end, if it owns one. *)
EndingRun(a) == IF OwnsRun(a) THEN ActorRun(a) ELSE NoRun

(* Actor a's control step moves on within its job or ends it.              *)
LEMMA PlacedAfter ==
  ASSUME RunsTyped, StepsPlaced, NEW a \in Actor, OwnsRun(a) => OnJob(a),
         NEW ok \in BOOLEAN, NEW bound \in BOOLEAN, OneEnds(EndingRun(a), ok, bound),
         NEW next, ctl' = [ctl EXCEPT ![a] = next],
         next.at = "idle" \/ (UNCHANGED runs /\ (OwnsRun(a) => OnStep(a)))
  PROVE  StepsPlaced'
<1>1. DOMAIN ctl' = Actor /\ ctl'[a] = next /\ \A b \in Actor \ {a} : ctl'[b] = ctl[b]
  BY DEF StepsPlaced
<1>2. \A r, q \in Run \ {LabelRun} : Executing(r)' /\ Executing(q)' => r = q
  BY StillOneAtATime
<1>3. ASSUME NEW q \in Run, q # EndingRun(a), runs[q].job \in StepJobs
      PROVE  runs'[q].job \in StepJobs
  BY <1>3, StepJobNames DEF OneEnds, Stays
<1>4. ctl'["label"].at # "idle" => runs'[LabelRun].job \in StepJobs
  <2> SUFFICES ASSUME ctl'["label"].at # "idle" PROVE runs'[LabelRun].job \in StepJobs
    OBVIOUS
  <2>1. CASE a = "label"
    <3>1. UNCHANGED runs /\ OnStep(a)
      BY <1>1, <2>1 DEF OwnsRun
    <3>2. QED
      BY <2>1, <3>1 DEF OnStep, ActorRun
  <2>2. CASE a # "label"
    <3>1. runs[LabelRun].job \in StepJobs
      BY <1>1, <2>2 DEF StepsPlaced, Actor
    <3>2. LabelRun # EndingRun(a)
      BY <2>2, Runs DEF EndingRun, OnJob
    <3>3. QED
      BY <1>3, <3>1, <3>2, Runs
  <2>3. QED
    BY <2>1, <2>2
<1>5. ctl'["resume"].at # "idle" => \E r \in Run \ {LabelRun} : runs'[r].job \in StepJobs
  <2> SUFFICES ASSUME ctl'["resume"].at # "idle"
               PROVE  \E r \in Run \ {LabelRun} : runs'[r].job \in StepJobs
    OBVIOUS
  <2>1. CASE a = "resume"
    <3>1. UNCHANGED runs /\ OnStep(a)
      BY <1>1, <2>1 DEF OwnsRun
    <3>2. QED
      BY <2>1, <3>1 DEF OnStep, OnJob
  <2>2. CASE a # "resume"
    <3>1. PICK r \in Run \ {LabelRun} : runs[r].job \in StepJobs
      BY <1>1, <2>2 DEF StepsPlaced, Actor
    <3>2. r # EndingRun(a)
      BY <2>2, <3>1, Runs DEF EndingRun, OwnsRun, OnJob
    <3>3. QED
      BY <1>3, <3>1, <3>2
  <2>3. QED
    BY <2>1, <2>2
<1>6. QED
  BY <1>1, <1>2, <1>4, <1>5 DEF StepsPlaced, Executing

(* No control step's job ends, and no run but x, which was executing.      *)
LEMMA PlacedByJob ==
  ASSUME RunsTyped, StepsPlaced, UNCHANGED ctl, NEW x, NEW ok \in BOOLEAN, NEW bound \in BOOLEAN,
         OneEnds(x, ok, bound), x \in Run => runs[x].job \notin StepJobs
  PROVE  StepsPlaced'
<1>1. \A r, q \in Run \ {LabelRun} : Executing(r)' /\ Executing(q)' => r = q
  BY StillOneAtATime
<1>2. ASSUME NEW q \in Run, runs[q].job \in StepJobs
      PROVE  runs'[q].job \in StepJobs
  BY <1>2, StepJobNames DEF OneEnds, Stays
<1>3. QED
  BY <1>1, <1>2, Runs DEF StepsPlaced, Executing

----------------------------------------------------------------------------
(* The steps of a control job.                                             *)

LEMMA ControlRuns ==
  ASSUME RunsTyped, NEW a \in Actor, NEW ok \in BOOLEAN, NEW bound \in BOOLEAN,
         runs' = RunsAfter(a, ok, bound)
  PROVE  RunsTyped' /\ OneEnds(EndingRun(a), ok, bound)
<1>1. CASE OwnsRun(a)
  BY <1>1, JobEnds DEF RunsAfter, EndingRun
<1>2. CASE ~OwnsRun(a)
  BY <1>2, RunsStay DEF RunsAfter
<1>3. QED
  BY <1>1, <1>2

(* Whatever a control step does to its own job, and whichever truthful     *)
(* record it lands meanwhile.                                              *)
LEMMA ControlTurn ==
  ASSUME Inv, NEW a \in Actor, OwnsRun(a) => OnStep(a),
         NEW ok \in BOOLEAN, NEW bound \in BOOLEAN, RunsTyped', OneEnds(EndingRun(a), ok, bound),
         NEW next, StepAgrees(next), ctl' = [ctl EXCEPT ![a] = next],
         next.at = "idle" \/ UNCHANGED runs,
         UNCHANGED <<outcomes, starts, world>>,
         \/ view' = view /\ ~bound
         \/ \E rec : /\ Landed(rec) /\ rec.kind # "resume_bound"
                     /\ bound => rec.kind = "transition" /\ rec.state = "RESULT_BOUND"
  PROVE  Inv'
<1>1. RunsTyped /\ StepsPlaced /\ EvidenceInv /\ LaunchInv /\ LP!Inv /\ Consistent(Current)
  BY DEF Inv, EvidenceInv
<1>2. UNCHANGED outcomes /\ UNCHANGED starts /\ UNCHANGED world
  OBVIOUS
<1>3. StepsPlaced'
  BY <1>1, PlacedAfter DEF OnStep
<1>4. StepsAgree'
  BY <1>1, <1>2, OneStep DEF EvidenceInv, StepsAgree, StepsPlaced
<1>5. \A r \in Run : runs'[r].job = "push" => runs[r].job = "push"
  BY <1>1, NoNewPush
<1>6. EvidenceInv'
  <2>1. CASE view' = view
    BY <1>1, <1>2, <1>4, <1>5, <2>1, StayingKeepsEvidenceInv DEF EvidenceInv
  <2>2. CASE \E rec : Landed(rec)
    BY <1>1, <1>2, <1>4, <1>5, <2>2, LandingKeepsEvidenceInv
  <2>3. QED
    BY <2>1, <2>2
<1>7. Turn(EndingRun(a), ok, bound)
  <2>1. RunsMove(EndingRun(a), ok, bound)
    BY DEF RunsMove, OneEnds
  <2>2. ~(EndingRun(a) \in Run /\ Claims(EndingRun(a), ok))
    BY Runs, StepJobNames DEF EndingRun, OnStep, Claims
  <2>3. QED
    BY <2>1, <2>2 DEF Turn
<1>8. LaunchInv'
  BY <1>1, <1>2, <1>7, TurnKeepsLaunchInv
<1>9. QED
  BY <1>3, <1>6, <1>8 DEF Inv

LEMMA OnItsStep ==
  ASSUME Inv, NEW a \in Actor, OwnsRun(a), ctl[a].at # "idle" \/ Ready(a)
  PROVE  OnStep(a)
  BY BusyOnStep, ReadyOnStep DEF Inv

(* A step that goes on within its job, or ends it, without a record.       *)
LEMMA QuietTurn ==
  ASSUME Inv, NEW a \in Actor, OwnsRun(a) => OnStep(a), UNCHANGED <<outcomes, starts, world>>,
         NEW next, StepAgrees(next), view' = view,
         \/ Goto(a, next)
         \/ \E ok \in BOOLEAN : Close(a, ok, FALSE)
  PROVE  Inv'
<1>1. RunsTyped
  BY DEF Inv
<1>2. CASE Goto(a, next)
  <2>1. UNCHANGED runs /\ ctl' = [ctl EXCEPT ![a] = next]
    BY <1>2 DEF Goto
  <2>2. RunsTyped' /\ OneEnds(EndingRun(a), TRUE, FALSE)
    BY <1>1, <2>1, RunsStay
  <2>3. QED
    BY <2>1, <2>2, ControlTurn
<1>3. CASE \E ok \in BOOLEAN : Close(a, ok, FALSE)
  <2>1. PICK ok \in BOOLEAN : Close(a, ok, FALSE)
    BY <1>3
  <2>2. runs' = RunsAfter(a, ok, FALSE) /\ ctl' = [ctl EXCEPT ![a] = Idle]
    BY <2>1 DEF Close, Leave
  <2>3. RunsTyped' /\ OneEnds(EndingRun(a), ok, FALSE)
    BY <1>1, <2>2, ControlRuns
  <2>4. Idle.at = "idle"
    BY DEF Idle
  <2>5. QED
    BY <2>2, <2>3, <2>4, ControlTurn, NoStepAgrees
<1>4. QED
  BY <1>2, <1>3

LEMMA LoadKeeps == ASSUME Inv, NEW a \in Actor, Load(a) PROVE Inv'
<1>1. OwnsRun(a) => OnStep(a)
  BY OnItsStep DEF Load
<1>2. view' = view /\ UNCHANGED <<outcomes, starts, world>>
  BY DEF Load, NoRecord
<1>3. CASE Live
  <2>1. PICK next : /\ next.at = "seen" /\ next.c = Current /\ next.head = branch /\ next.pr = pr
                    /\ Goto(a, next)
    BY <1>3 DEF Load
  <2>2. Consistent(Current) /\ Current.state \in Ledger!LiveStates
    BY <1>3, CurrentTyped, SameLedger DEF Inv, EvidenceInv
  <2>3. StepAgrees(next)
    BY <2>1, <2>2 DEF StepAgrees
  <2>4. QED
    BY <1>1, <1>2, <2>1, <2>3, QuietTurn
<1>4. CASE ~Live
  <2>1. Close(a, TRUE, FALSE)
    BY <1>4 DEF Load
  <2>2. QED
    BY <1>1, <1>2, <2>1, QuietTurn, NoStepAgrees
<1>5. QED
  BY <1>3, <1>4

LEMMA DecideKeeps == ASSUME Inv, NEW a \in Actor, Decide(a) PROVE Inv'
<1>1. OwnsRun(a) => OnStep(a)
  BY OnItsStep DEF Decide
<1>2. view' = view /\ UNCHANGED <<outcomes, starts, world>> /\ ctl[a].at = "seen"
  BY DEF Decide, NoRecord
<1>3. PICK f, d :
        /\ f = Facts(ctl[a].c, ctl[a], Output(a)) /\ d = Ledger!Advance(ctl[a].c, f)
        /\ \/ \E ok \in BOOLEAN : Close(a, ok, FALSE)
           \/ Redispatch(a)
           \/ /\ d.act \notin {"noop", "freeze", "redispatch"}
              /\ Propose(a, RecordFor(Role(a), ctl[a].c, f, d))
  BY DEF Decide
<1>4. CASE \E ok \in BOOLEAN : Close(a, ok, FALSE)
  BY <1>1, <1>2, <1>4, QuietTurn, NoStepAgrees
<1>5. CASE Redispatch(a)
  <2>1. \/ Goto(a, [at |-> "dispatch", nonce |-> ctl[a].c.pending.nonce])
        \/ Close(a, TRUE, FALSE)
    BY <1>5 DEF Redispatch
  <2>2. QED
    BY <1>1, <1>2, <2>1, QuietTurn, NoStepAgrees
<1>6. CASE /\ d.act \notin {"noop", "freeze", "redispatch"}
           /\ Propose(a, RecordFor(Role(a), ctl[a].c, f, d))
  <2>1. PICK rec : rec = RecordFor(Role(a), ctl[a].c, f, d)
    OBVIOUS
  <2>2. CASE Ledger!MayWrite(Role(a), rec)
    <3>1. Truthful(rec) /\ rec.kind # "resume_bound"
      BY <1>2, <1>3, <1>6, <2>1, <2>2, DecisionTruthful DEF Inv
    <3>2. PICK next : next.at = "append" /\ next.rec = rec /\ Goto(a, next)
      BY <1>6, <2>1, <2>2 DEF Propose
    <3>3. StepAgrees(next)
      BY <3>1, <3>2 DEF StepAgrees
    <3>4. QED
      BY <1>1, <1>2, <3>2, <3>3, QuietTurn
  <2>3. CASE ~Ledger!MayWrite(Role(a), rec)
    <3>1. Close(a, TRUE, FALSE)
      BY <1>6, <2>1, <2>3 DEF Propose
    <3>2. QED
      BY <1>1, <1>2, <3>1, QuietTurn, NoStepAgrees
  <2>4. QED
    BY <2>2, <2>3
<1>7. QED
  BY <1>3, <1>4, <1>5, <1>6

LEMMA AppendKeeps == ASSUME Inv, NEW a \in Actor, Append(a) PROVE Inv' /\ Recorded
<1>1. OwnsRun(a) => OnStep(a)
  BY OnItsStep DEF Append
<1>2. UNCHANGED <<outcomes, starts, world>> /\ ctl[a].at = "append" /\ RunsTyped
  BY DEF Append, Inv
<1>3. PICK rec : rec = ctl[a].rec
  OBVIOUS
<1>4. Truthful(rec) /\ rec.kind # "resume_bound"
  BY <1>2, <1>3 DEF Inv, EvidenceInv, StepAgrees
<1>5. CASE ~Admits(rec)
  <2>1. view' = view /\ Close(a, FALSE, FALSE)
    BY <1>3, <1>5 DEF Append, NoRecord
  <2>2. QED
    BY <1>1, <1>2, <2>1, QuietTurn, NoStepAgrees DEF Recorded
<1>6. CASE Admits(rec)
  <2>1. Landed(rec)
    BY <1>3, <1>4, <1>6 DEF Append, Landed, Admits, Lands
  <2>2. CASE rec.kind = "resume_requested" \/ (rec.kind = "resume_abandoned" /\ ctl[a].chain)
    <3>1. \/ Goto(a, [at |-> "dispatch", nonce |-> rec.nonce])
          \/ Goto(a, [at |-> "reload"])
      BY <1>3, <1>6, <2>2 DEF Append
    <3>2. PICK next : Goto(a, next) /\ StepAgrees(next)
      BY <3>1, NoStepAgrees
    <3>3. UNCHANGED runs /\ ctl' = [ctl EXCEPT ![a] = next]
      BY <3>2 DEF Goto
    <3>4. RunsTyped' /\ OneEnds(EndingRun(a), TRUE, FALSE)
      BY <1>2, <3>3, RunsStay
    <3>5. Inv'
      BY <1>1, <1>2, <1>4, <2>1, <3>2, <3>3, <3>4, ControlTurn
    <3>6. QED
      BY <2>1, <3>5 DEF Recorded
  <2>3. CASE ~(rec.kind = "resume_requested" \/ (rec.kind = "resume_abandoned" /\ ctl[a].chain))
    <3>1. PICK bound \in BOOLEAN :
            /\ bound <=> rec.kind = "transition" /\ rec.state = "RESULT_BOUND"
            /\ Close(a, TRUE, bound)
      BY <1>3, <1>6, <2>3 DEF Append
    <3>2. runs' = RunsAfter(a, TRUE, bound) /\ ctl' = [ctl EXCEPT ![a] = Idle]
      BY <3>1 DEF Close, Leave
    <3>3. RunsTyped' /\ OneEnds(EndingRun(a), TRUE, bound)
      BY <1>2, <3>2, ControlRuns
    <3>4. Idle.at = "idle"
      BY DEF Idle
    <3>5. Inv'
      BY <1>1, <1>2, <1>4, <2>1, <3>1, <3>2, <3>3, <3>4, ControlTurn, NoStepAgrees
    <3>6. QED
      BY <2>1, <3>5 DEF Recorded
  <2>4. QED
    BY <2>2, <2>3
<1>7. QED
  BY <1>5, <1>6

LEMMA AppendUnknownKeeps == ASSUME Inv, NEW a \in Actor, AppendUnknown(a) PROVE Inv' /\ Recorded
<1>1. OwnsRun(a) => OnStep(a)
  BY OnItsStep DEF AppendUnknown
<1>2. UNCHANGED <<outcomes, starts, world>> /\ ctl[a].at = "append" /\ RunsTyped
  BY DEF AppendUnknown, Inv
<1>3. Truthful(ctl[a].rec) /\ ctl[a].rec.kind # "resume_bound"
  BY <1>2 DEF Inv, EvidenceInv, StepAgrees
<1>4. runs' = RunsAfter(a, TRUE, FALSE) /\ ctl' = [ctl EXCEPT ![a] = Idle]
  BY DEF AppendUnknown, Close, Leave
<1>5. RunsTyped' /\ OneEnds(EndingRun(a), TRUE, FALSE)
  BY <1>2, <1>4, ControlRuns
<1>6. view' = view \/ Landed(ctl[a].rec)
  BY <1>3 DEF AppendUnknown, NoRecord, Lands, Landed, Admits
<1>7. Idle.at = "idle"
  BY DEF Idle
<1>8. Inv'
  BY <1>1, <1>2, <1>3, <1>4, <1>5, <1>6, <1>7, ControlTurn, NoStepAgrees
<1>9. QED
  BY <1>6, <1>8 DEF Recorded

(* A run that has not begun is dispatched, appears, or begins.             *)
LEMMA WaitingMoves ==
  ASSUME RunsTyped, NEW r \in Run, runs[r].job \in Waiting, NEW job \in Waiting \cup {"resume-bind"}
  PROVE  /\ [runs[r] EXCEPT !.job = job] \in RunState
         /\ GoodRun(r, [runs[r] EXCEPT !.job = job])
         /\ [runs[r] EXCEPT !.job = job].job = job
         /\ [runs[r] EXCEPT !.job = job].valid = runs[r].valid
         /\ r # LabelRun
<1> DEFINE e == [runs[r] EXCEPT !.job = job]
<1>1. runs[r] \in RunState /\ GoodRun(r, runs[r])
  BY DEF RunsTyped
<1>2. job \in Jobs
  BY DEF Jobs, Waiting, Invisible
<1>3. e \in RunState /\ e.job = job /\ e.valid = runs[r].valid
  BY <1>1, <1>2 DEF RunState
<1>4. r # LabelRun
  BY <1>1 DEF GoodRun, JobsOf, LabelJobs, Waiting, Invisible
<1>5. ~runs[r].valid
  BY <1>1 DEF GoodRun, PastValidation, Waiting, Invisible
<1>6. job \in JobsOf(r)
  BY <1>4 DEF JobsOf, Waiting, Invisible
<1>7. GoodRun(r, e)
  BY <1>3, <1>5, <1>6 DEF GoodRun
<1>8. QED
  BY <1>3, <1>4, <1>7

LEMMA DispatchKeeps == ASSUME Inv, NEW a \in Actor, Dispatch(a) PROVE Inv'
<1>1. OwnsRun(a) => OnStep(a)
  BY OnItsStep DEF Dispatch
<1>2. view' = view /\ UNCHANGED <<outcomes, starts, world>> /\ RunsTyped
  BY DEF Dispatch, NoRecord, Inv
<1>3. ctl' = [ctl EXCEPT ![a] = Idle] /\ Idle.at = "idle"
  BY DEF Dispatch, Leave, Idle
<1>4. CASE runs' = RunsAfter(a, TRUE, FALSE)
  <2>1. RunsTyped' /\ OneEnds(EndingRun(a), TRUE, FALSE)
    BY <1>2, <1>4, ControlRuns
  <2>2. QED
    BY <1>1, <1>2, <1>3, <2>1, ControlTurn, NoStepAgrees
<1>5. CASE \E r \in Run : /\ runs[r].job = "absent"
                          /\ runs' = [RunsAfter(a, TRUE, FALSE) EXCEPT ![r].job = "sent"]
  <2>1. PICK r \in Run : /\ runs[r].job = "absent"
                         /\ runs' = [RunsAfter(a, TRUE, FALSE) EXCEPT ![r].job = "sent"]
    BY <1>5
  <2>2. PICK x : x = EndingRun(a)
    OBVIOUS
  <2>3. x \in Run => r # x
    <3>1. "absent" \notin StepJobs
      BY DEF StepJobs
    <3>2. QED
      BY <1>1, <2>1, <2>2, <3>1, Runs DEF EndingRun, OnStep
  <2>4. /\ RunsAfter(a, TRUE, FALSE) \in [Run -> RunState]
        /\ \A q \in Run : RunsAfter(a, TRUE, FALSE)[q] =
                            IF q = x THEN Ended(x, TRUE, FALSE) ELSE runs[q]
    <3>1. runs \in [Run -> RunState]
      BY <1>2 DEF RunsTyped
    <3>2. CASE OwnsRun(a)
      <4>1. x \in Run /\ RunsAfter(a, TRUE, FALSE) = [runs EXCEPT ![x] = Ended(x, TRUE, FALSE)]
        BY <1>1, <2>2, <3>2 DEF RunsAfter, EndingRun, OnStep, OnJob
      <4>2. Ended(x, TRUE, FALSE) \in RunState
        BY <1>2, <4>1, EndedFields
      <4>3. QED
        BY <3>1, <4>1, <4>2
    <3>3. CASE ~OwnsRun(a)
      <4>1. x \notin Run /\ RunsAfter(a, TRUE, FALSE) = runs
        BY <2>2, <3>3, Runs DEF RunsAfter, EndingRun
      <4>2. QED
        BY <3>1, <4>1
    <3>4. QED
      BY <3>2, <3>3
  <2>5. /\ runs' \in [Run -> RunState]
        /\ \A q \in Run : runs'[q] = IF q = r THEN [runs[r] EXCEPT !.job = "sent"]
                                     ELSE IF q = x THEN Ended(x, TRUE, FALSE) ELSE runs[q]
    <3>1. [runs[r] EXCEPT !.job = "sent"] \in RunState
      BY <1>2, <2>1, WaitingMoves DEF Waiting, Invisible
    <3>2. RunsAfter(a, TRUE, FALSE)[r] = runs[r]
      BY <2>3, <2>4
    <3>3. runs' = [RunsAfter(a, TRUE, FALSE) EXCEPT ![r] = [runs[r] EXCEPT !.job = "sent"]]
      BY <2>1, <3>2
    <3>4. QED
      BY <2>4, <3>1, <3>3
  <2>6. \A q \in Run : IF q = r THEN GoodRun(q, runs'[q]) /\ Stays(q)
                       ELSE IF q = x THEN GoodRun(q, runs'[q]) /\ Ends(q, TRUE, FALSE)
                       ELSE GoodRun(q, runs'[q]) /\ Stays(q)
    <3>1. GoodRun(r, runs'[r]) /\ Stays(r)
      <4>1. "sent" \in Waiting /\ "absent" \in Waiting
        BY DEF Waiting, Invisible
      <4>2. runs'[r] = [runs[r] EXCEPT !.job = "sent"]
        BY <2>5
      <4>3. GoodRun(r, runs'[r]) /\ runs'[r].job = "sent" /\ runs'[r].valid = runs[r].valid
        <5>1. PICK e : e = [runs[r] EXCEPT !.job = "sent"]
          OBVIOUS
        <5>2. GoodRun(r, e) /\ e.job = "sent" /\ e.valid = runs[r].valid
          BY <1>2, <2>1, <4>1, <5>1, WaitingMoves
        <5>3. QED
          BY <4>2, <5>1, <5>2
      <4>4. QED
        BY <2>1, <4>1, <4>3 DEF Stays
    <3>2. ASSUME NEW q \in Run, q # r, q = x
          PROVE  GoodRun(q, runs'[q]) /\ Ends(q, TRUE, FALSE)
      BY <1>2, <2>5, <3>2, EndedFields DEF Ends
    <3>3. ASSUME NEW q \in Run, q # r, q # x
          PROVE  GoodRun(q, runs'[q]) /\ Stays(q)
      <4>1. runs'[q] = runs[q]
        BY <2>5, <3>3
      <4>2. QED
        BY <1>2, <4>1 DEF Stays, RunsTyped
    <3>4. QED
      BY <3>1, <3>2, <3>3
  <2>7. RunsTyped' /\ OneEnds(EndingRun(a), TRUE, FALSE)
    <3>1. RunsTyped'
      BY <2>5, <2>6 DEF RunsTyped, GoodRun
    <3>2. OneEnds(x, TRUE, FALSE)
      BY <2>6 DEF OneEnds
    <3>3. QED
      BY <2>2, <3>1, <3>2
  <2>8. QED
    BY <1>1, <1>2, <1>3, <2>7, ControlTurn, NoStepAgrees
<1>6. QED
  BY <1>4, <1>5 DEF Dispatch

----------------------------------------------------------------------------
(* The jobs that record nothing.                                           *)

(* A job's end, or a start of its work, that leaves the ledger alone.      *)
LEMMA QuietJob ==
  ASSUME Inv, UNCHANGED ctl, view' = view, outcomes \subseteq outcomes', UNCHANGED world,
         NEW x, NEW ok \in BOOLEAN, RunsTyped', OneEnds(x, ok, FALSE),
         x \in Run => runs[x].job \notin StepJobs /\ ~Claims(x, ok),
         UNCHANGED starts \/ (x \in Run /\ Starting(x, ok))
  PROVE  Inv'
<1>1. RunsTyped /\ StepsPlaced /\ EvidenceInv /\ LaunchInv /\ LP!Inv /\ Consistent(Current)
  BY DEF Inv, EvidenceInv
<1>2. StepsPlaced'
  BY <1>1, PlacedByJob
<1>3. StepsAgree'
  BY <1>1, Adding, SameSteps DEF EvidenceInv, StepsAgree
<1>4. EvidenceInv'
  <2>1. \A r \in Run : runs'[r].job = "push" => runs[r].job = "push"
    BY <1>1, NoNewPush
  <2>2. QED
    BY <1>1, <1>3, <2>1, StayingKeepsEvidenceInv DEF EvidenceInv
<1>5. LaunchInv'
  <2>1. CASE UNCHANGED starts
    <3>1. Turn(x, ok, FALSE)
      BY DEF Turn, RunsMove, OneEnds
    <3>2. QED
      BY <1>1, <2>1, <3>1, TurnKeepsLaunchInv
  <2>2. CASE x \in Run /\ Starting(x, ok)
    BY <1>1, <2>2, StartingKeepsLaunchInv
  <2>3. QED
    BY <2>1, <2>2
<1>6. QED
  BY <1>2, <1>4, <1>5 DEF Inv

(* The work of the ending job, if it has any, is counted.                  *)
LEMMA EndingStarts ==
  ASSUME RunsTyped, view' = view, NEW x \in Run, NEW ok \in BOOLEAN, OneEnds(x, ok, FALSE),
         runs[x].job \in {"execute", "execute-fallback", "validate", "publish"},
         runs'[x].job = JobAfter(x, runs[x].job, ok, FALSE),
         runs[x].job \in ExecutorJobs => AwaitsExecution(x),
         starts' = Started(runs[x].job)
  PROVE  Starting(x, ok)
<1>1. RunsMove(x, ok, FALSE)
  BY DEF RunsMove, OneEnds
<1>2. ~Claims(x, ok)
  BY DEF Claims
<1>3. runs'[x].job # runs[x].job
  BY DEF JobAfter
<1>4. QED
  BY <1>1, <1>2, <1>3 DEF Starting

(* What the model leaves behind does not change how its job ends.          *)
LEMMA LeftBehind ==
  ASSUME RunsTyped, NEW x \in Run, NEW ok \in BOOLEAN, NEW e,
         e \in RunState, e.job = Ended(x, ok, FALSE).job, e.valid = Ended(x, ok, FALSE).valid,
         runs' = [runs EXCEPT ![x] = e]
  PROVE  RunsTyped' /\ OneEnds(x, ok, FALSE)
<1>1. GoodRun(x, Ended(x, ok, FALSE))
      /\ Ended(x, ok, FALSE).job = JobAfter(x, runs[x].job, ok, FALSE)
      /\ Ended(x, ok, FALSE).valid = (runs[x].valid \/ (runs[x].job = "validate" /\ ok))
  BY EndedFields
<1>2. x \in Run => e \in RunState /\ GoodRun(x, e)
  BY <1>1 DEF GoodRun
<1>3. RunsTyped' /\ \A q \in Run : runs'[q] = IF q = x THEN e ELSE runs[q]
  BY ONLY <1>2, RunsTyped, runs' = [runs EXCEPT ![x] = e], TypedUpdate
<1>4. Ends(x, ok, FALSE)
  BY <1>1, <1>3 DEF Ends
<1>5. \A q \in Run : q # x => Stays(q)
  BY <1>3 DEF Stays
<1>6. QED
  BY <1>3, <1>4, <1>5 DEF OneEnds

LEMMA ExecuteKeeps == ASSUME Inv, NEW r \in Run, Execute(r) PROVE Inv'
<1>1. /\ runs[r].job \in ExecutorJobs /\ view' = view /\ UNCHANGED ctl
      /\ outcomes \subseteq outcomes' /\ UNCHANGED world /\ RunsTyped
  BY DEF Execute, NoRecord, Inv
<1>2. PICK o \in ExecutorOutcomes(r) :
        /\ runs' = [runs EXCEPT ![r] = [Ended(r, TRUE, FALSE) EXCEPT !.output = o.output,
                                                                     !.artifact = o.artifact]]
        /\ starts' = IF o.started THEN Started(runs[r].job) ELSE starts
  BY DEF Execute
<1>3. /\ o.output \in {"silent", "signal", "attested", "nosession"}
      /\ o.artifact \in {"sealed", "corrupt", "none"}
      /\ o.started => AwaitsExecution(r)
  BY <1>2 DEF ExecutorOutcomes
<1>4. PICK e : e = [Ended(r, TRUE, FALSE) EXCEPT !.output = o.output, !.artifact = o.artifact]
  OBVIOUS
<1>5. e \in RunState /\ e.job = Ended(r, TRUE, FALSE).job /\ e.valid = Ended(r, TRUE, FALSE).valid
  <2>1. Ended(r, TRUE, FALSE) \in RunState
    BY <1>1, EndedFields
  <2>2. QED
    BY <1>3, <1>4, <2>1 DEF RunState
<1>6. RunsTyped' /\ OneEnds(r, TRUE, FALSE)
  BY <1>1, <1>2, <1>4, <1>5, LeftBehind
<1>7. runs[r].job \notin StepJobs /\ ~Claims(r, TRUE)
  BY <1>1, StepJobNames DEF Claims, ExecutorJobs
<1>8. UNCHANGED starts \/ Starting(r, TRUE)
  <2>1. runs'[r] = e
    BY <1>1, <1>2, <1>4 DEF RunsTyped
  <2>2. runs'[r].job = JobAfter(r, runs[r].job, TRUE, FALSE)
    BY <1>1, <1>5, <2>1, EndedFields
  <2>3. CASE o.started
    BY <1>1, <1>2, <1>3, <1>6, <2>2, <2>3, EndingStarts DEF ExecutorJobs
  <2>4. QED
    BY <1>2, <2>3
<1>9. QED
  BY <1>1, <1>6, <1>7, <1>8, QuietJob

LEMMA ValidateKeeps == ASSUME Inv, NEW r \in Run, Validate(r) PROVE Inv'
<1>1. /\ runs[r].job = "validate" /\ view' = view /\ UNCHANGED ctl
      /\ outcomes \subseteq outcomes' /\ UNCHANGED world /\ RunsTyped
      /\ starts' = Started("validate")
  BY DEF Validate, Upload, NoRecord, Inv
<1>2. PICK ok \in BOOLEAN : runs' = [runs EXCEPT ![r] = Ended(r, ok, FALSE)]
  BY DEF Validate, EndJob
<1>3. RunsTyped' /\ OneEnds(r, ok, FALSE)
  BY <1>1, <1>2, JobEnds
<1>4. runs'[r].job = JobAfter(r, runs[r].job, ok, FALSE)
  <2>1. runs'[r] = Ended(r, ok, FALSE)
    BY <1>1, <1>2 DEF RunsTyped
  <2>2. QED
    BY <1>1, <2>1, EndedFields
<1>5. Starting(r, ok)
  BY <1>1, <1>3, <1>4, EndingStarts DEF ExecutorJobs
<1>6. runs[r].job \notin StepJobs /\ ~Claims(r, ok)
  BY <1>1 DEF StepJobs, Claims
<1>7. QED
  BY <1>1, <1>3, <1>5, <1>6, QuietJob

LEMMA PublishEnds ==
  ASSUME Inv, NEW r \in Run, runs[r].job = "publish", view' = view, UNCHANGED ctl,
         outcomes \subseteq outcomes', UNCHANGED world, starts' = Started("publish"),
         NEW ok \in BOOLEAN, EndJob(r, ok)
  PROVE  Inv'
<1>1. RunsTyped /\ runs' = [runs EXCEPT ![r] = Ended(r, ok, FALSE)]
  BY DEF Inv, EndJob
<1>2. RunsTyped' /\ OneEnds(r, ok, FALSE)
  BY <1>1, JobEnds
<1>3. runs'[r].job = JobAfter(r, runs[r].job, ok, FALSE)
  <2>1. runs'[r] = Ended(r, ok, FALSE)
    BY <1>1 DEF RunsTyped
  <2>2. QED
    BY <1>1, <2>1, EndedFields
<1>4. Starting(r, ok)
  BY <1>1, <1>2, <1>3, EndingStarts DEF ExecutorJobs
<1>5. runs[r].job \notin StepJobs /\ ~Claims(r, ok)
  BY DEF StepJobs, Claims
<1>6. QED
  BY <1>2, <1>4, <1>5, QuietJob

LEMMA PublishRefusedKeeps == ASSUME Inv, NEW r \in Run, PublishRefused(r) PROVE Inv'
  BY PublishEnds DEF PublishRefused, Upload, NoRecord

(* publish hands the validated commit to its push step.                    *)
LEMMA PublishCheckKeeps == ASSUME Inv, NEW r \in Run, PublishCheck(r) PROVE Inv'
<1>1. /\ runs[r].job = "publish" /\ view' = view /\ UNCHANGED ctl
      /\ outcomes \subseteq outcomes' /\ UNCHANGED world /\ starts' = Started("publish")
  BY DEF PublishCheck, NoRecord
<1>2. /\ RunsTyped /\ StepsPlaced /\ EvidenceInv /\ LaunchInv
      /\ LP!Inv /\ Consistent(Current) /\ WorldAgrees(Current)
  BY DEF Inv, EvidenceInv
<1>3. CASE ~AwaitsPublication
  <2>1. EndJob(r, FALSE)
    BY <1>3 DEF PublishCheck
  <2>2. QED
    BY <1>1, <2>1, PublishEnds
<1>4. CASE AwaitsPublication
  <2>1. PICK e : e = [runs[r] EXCEPT !.job = "push"]
    OBVIOUS
  <2>2. runs' = [runs EXCEPT ![r] = e]
    BY <1>2, <1>4, <2>1 DEF PublishCheck, RunsTyped
  <2>3. /\ e \in RunState /\ GoodRun(r, e) /\ e.job = "push" /\ e.valid = runs[r].valid
    <3>1. runs[r] \in RunState /\ GoodRun(r, runs[r])
      BY <1>2 DEF RunsTyped
    <3>2. e \in RunState /\ e.job = "push" /\ e.valid = runs[r].valid
      BY <2>1, <3>1 DEF RunState, Jobs, LabelJobs
    <3>3. "push" \in JobsOf(r)
      <4>1. CASE r = LabelRun
        BY <4>1 DEF JobsOf, LabelJobs
      <4>2. CASE r # LabelRun
        <5>1. "publish" \in StageJobs(r[1])
          BY <1>1, <3>1, <4>2 DEF GoodRun, JobsOf, Invisible
        <5>2. QED
          BY <4>2, <5>1 DEF JobsOf, StageJobs
      <4>3. QED
        BY <4>1, <4>2
    <3>4. QED
      BY <3>2, <3>3 DEF GoodRun, PastValidation
  <2>4. RunsTyped' /\ \A q \in Run : runs'[q] = IF q = r THEN e ELSE runs[q]
    <3>1. r \in Run => e \in RunState /\ GoodRun(r, e)
      BY <2>3
    <3>2. QED
      BY ONLY <1>2, <2>2, <3>1, TypedUpdate
  <2>5. StepsPlaced'
    <3>1. \A q \in Run : Executing(q)' <=> Executing(q)
      BY <1>1, <2>3, <2>4 DEF Executing, Inactive, Waiting, Invisible
    <3>2. \A q \in Run : runs[q].job \in StepJobs => runs'[q].job = runs[q].job
      BY <1>1, <2>4 DEF StepJobs
    <3>3. QED
      BY <1>1, <1>2, <3>1, <3>2, Runs DEF StepsPlaced
  <2>6. EvidenceInv'
    <3>1. StepsAgree'
      BY <1>1, <1>2, Adding, SameSteps DEF EvidenceInv, StepsAgree
    <3>2. Validated(Current)
      BY <1>2, <1>4 DEF AwaitsPublication, WorldAgrees
    <3>3. QED
      BY <1>1, <1>2, <3>1, <3>2, StayingKeepsEvidenceInv
  <2>7. LaunchInv'
    <3>1. RunsMove(r, FALSE, FALSE)
      <4>1. Pushes(r)
        BY <1>1, <2>3, <2>4 DEF Pushes
      <4>2. QED
        BY <2>4, <4>1 DEF RunsMove, Stays
    <3>2. Starting(r, FALSE)
      BY <1>1, <2>3, <2>4, <3>1 DEF Starting, Claims, ExecutorJobs
    <3>3. QED
      BY <1>2, <3>2, StartingKeepsLaunchInv
  <2>8. QED
    BY <2>4, <2>5, <2>6, <2>7 DEF Inv
<1>5. QED
  BY <1>3, <1>4

LEMMA AppearKeeps == ASSUME Inv, NEW r \in Run, Appear(r) PROVE Inv'
<1>1. /\ runs[r].job = "sent" /\ view' = view /\ UNCHANGED ctl /\ UNCHANGED starts
      /\ outcomes \subseteq outcomes' /\ UNCHANGED world /\ RunsTyped
  BY DEF Appear, NoRecord, Inv
<1>2. PICK job \in {"queued", "lost"} : runs' = [runs EXCEPT ![r].job = job]
  BY DEF Appear
<1>3. PICK e : e = [runs[r] EXCEPT !.job = job]
  OBVIOUS
<1>4. {"sent", job} \subseteq Waiting
  BY DEF Waiting, Invisible
<1>5. e \in RunState /\ GoodRun(r, e) /\ e.job = job /\ e.valid = runs[r].valid
  BY <1>1, <1>3, <1>4, WaitingMoves
<1>6. RunsTyped' /\ \A q \in Run : runs'[q] = IF q = r THEN e ELSE runs[q]
  <2>1. r \in Run => e \in RunState /\ GoodRun(r, e)
    BY <1>5
  <2>2. runs' = [runs EXCEPT ![r] = e]
    BY <1>1, <1>2, <1>3 DEF RunsTyped
  <2>3. QED
    BY ONLY <1>1, <2>1, <2>2, TypedUpdate
<1>7. OneEnds(NoRun, TRUE, FALSE)
  BY <1>1, <1>4, <1>5, <1>6 DEF OneEnds, Stays
<1>8. QED
  BY <1>1, <1>6, <1>7, Runs, QuietJob

LEMMA ArtifactExpiresKeeps == ASSUME Inv, NEW r \in Run, ArtifactExpires(r) PROVE Inv'
<1>1. /\ view' = view /\ UNCHANGED ctl /\ UNCHANGED starts
      /\ outcomes \subseteq outcomes' /\ UNCHANGED world /\ RunsTyped
  BY DEF ArtifactExpires, NoRecord, Inv
<1>2. PICK e : e = [runs[r] EXCEPT !.artifact = "expired"]
  OBVIOUS
<1>3. e \in RunState /\ GoodRun(r, e) /\ e.job = runs[r].job /\ e.valid = runs[r].valid
  BY <1>1, <1>2 DEF RunsTyped, RunState, GoodRun
<1>4. RunsTyped' /\ \A q \in Run : runs'[q] = IF q = r THEN e ELSE runs[q]
  <2>1. r \in Run => e \in RunState /\ GoodRun(r, e)
    BY <1>3
  <2>2. runs' = [runs EXCEPT ![r] = e]
    BY <1>1, <1>2 DEF RunsTyped, ArtifactExpires
  <2>3. QED
    BY ONLY <1>1, <2>1, <2>2, TypedUpdate
<1>5. OneEnds(NoRun, TRUE, FALSE)
  BY <1>3, <1>4 DEF OneEnds, Stays
<1>6. QED
  BY <1>1, <1>4, <1>5, Runs, QuietJob

(* GitHub starts a resume run only while no other one executes.            *)
LEMMA BeginKeeps == ASSUME Inv, NEW r \in Run, Begin(r) PROVE Inv'
<1>1. /\ runs[r].job = "queued" /\ view' = view /\ UNCHANGED ctl /\ UNCHANGED starts
      /\ outcomes \subseteq outcomes' /\ UNCHANGED world
      /\ \A other \in Run \ {LabelRun} : ~Executing(other)
  BY DEF Begin, NoRecord
<1>2. /\ RunsTyped /\ StepsPlaced /\ EvidenceInv /\ LaunchInv /\ LP!Inv /\ Consistent(Current)
  BY DEF Inv, EvidenceInv
<1>3. PICK e : e = [runs[r] EXCEPT !.job = "resume-bind"]
  OBVIOUS
<1>4. runs[r].job \in Waiting
  BY <1>1 DEF Waiting
<1>5. /\ e \in RunState /\ GoodRun(r, e) /\ e.job = "resume-bind" /\ e.valid = runs[r].valid
      /\ r # LabelRun
  BY <1>2, <1>3, <1>4, WaitingMoves
<1>6. RunsTyped' /\ \A q \in Run : runs'[q] = IF q = r THEN e ELSE runs[q]
  <2>1. r \in Run => e \in RunState /\ GoodRun(r, e)
    BY <1>5
  <2>2. runs' = [runs EXCEPT ![r] = e]
    BY <1>2, <1>3 DEF RunsTyped, Begin
  <2>3. QED
    BY ONLY <1>2, <2>1, <2>2, TypedUpdate
<1>7. StepsPlaced'
  <2>1. \A q \in Run \ {LabelRun} : Executing(q)' => q = r
    BY <1>1, <1>6 DEF Executing
  <2>2. ctl["resume"].at = "idle"
    <3>1. \A q \in Run \ {LabelRun} : runs[q].job \notin StepJobs
      BY <1>1, StepJobNames DEF Executing
    <3>2. QED
      BY <1>2, <3>1 DEF StepsPlaced
  <2>3. runs'[LabelRun] = runs[LabelRun]
    BY <1>5, <1>6, Runs
  <2>4. QED
    BY <1>1, <1>2, <2>1, <2>2, <2>3 DEF StepsPlaced
<1>8. EvidenceInv'
  <2>1. StepsAgree'
    BY <1>1, <1>2, Adding, SameSteps DEF EvidenceInv, StepsAgree
  <2>2. \A q \in Run : runs'[q].job = "push" => runs[q].job = "push"
    BY <1>5, <1>6
  <2>3. QED
    BY <1>1, <1>2, <2>1, <2>2, StayingKeepsEvidenceInv DEF EvidenceInv
<1>9. LaunchInv'
  <2>1. Begins(r)
    BY <1>1, <1>5, <1>6 DEF Begins
  <2>2. RunsMove(NoRun, FALSE, FALSE)
    BY <1>6, <2>1 DEF RunsMove, Stays
  <2>3. Turn(NoRun, FALSE, FALSE)
    BY <1>1, <2>2, Runs DEF Turn
  <2>4. QED
    BY <1>1, <1>2, <2>3, TurnKeepsLaunchInv
<1>10. QED
  BY <1>6, <1>7, <1>8, <1>9 DEF Inv

----------------------------------------------------------------------------
(* The records that no control step decides on: the claim of the Issue, of *)
(* a nonce, and the owner's decision.                                      *)

LEMMA RecordJob ==
  ASSUME Inv, UNCHANGED <<outcomes, starts, world>>, NEW rec, Landed(rec), StepsAgree', StepsPlaced',
         NEW x, NEW ok \in BOOLEAN, RunsTyped', OneEnds(x, ok, FALSE),
         IF rec.kind = "resume_bound"
           THEN rec.run = x /\ x \in Run \ {LabelRun} /\ runs[x].job = "resume-bind"
                  /\ Ends(x, ok, FALSE)
           ELSE ~(x \in Run /\ Claims(x, ok))
  PROVE  Inv'
<1>1. /\ RunsTyped /\ EvidenceInv /\ LaunchInv /\ LP!Inv /\ Consistent(Current)
      /\ UNCHANGED outcomes /\ UNCHANGED starts /\ UNCHANGED world
  BY DEF Inv, EvidenceInv
<1>2. EvidenceInv'
  BY <1>1, NoNewPush, LandingKeepsEvidenceInv
<1>3. Turn(x, ok, FALSE)
  <2>1. RunsMove(x, ok, FALSE)
    BY DEF RunsMove, OneEnds
  <2>2. CASE rec.kind = "resume_bound"
    BY <2>1, <2>2 DEF Turn
  <2>3. CASE rec.kind # "resume_bound"
    BY <2>1, <2>3 DEF Turn
  <2>4. QED
    BY <2>2, <2>3
<1>4. LaunchInv'
  BY <1>1, <1>3, TurnKeepsLaunchInv
<1>5. QED
  BY <1>2, <1>4 DEF Inv

LEMMA ByItsJob ==
  ASSUME Inv, UNCHANGED <<outcomes, world>>, UNCHANGED ctl, NEW r \in Run, NEW ok \in BOOLEAN,
         EndJob(r, ok), runs[r].job \notin StepJobs
  PROVE  /\ RunsTyped' /\ OneEnds(r, ok, FALSE) /\ Ends(r, ok, FALSE)
         /\ StepsPlaced' /\ StepsAgree'
<1>1. RunsTyped /\ StepsPlaced /\ StepsAgree
  BY DEF Inv, EvidenceInv, StepsAgree
<1>2. RunsTyped' /\ OneEnds(r, ok, FALSE)
  BY <1>1, JobEnds DEF EndJob
<1>3. Ends(r, ok, FALSE)
  <2>1. runs'[r] = Ended(r, ok, FALSE)
    BY <1>1 DEF RunsTyped, EndJob
  <2>2. QED
    BY <1>1, <2>1, EndedFields DEF Ends
<1>4. StepsPlaced'
  BY <1>1, <1>2, PlacedByJob
<1>5. StepsAgree'
  BY <1>1, Adding, SameSteps
<1>6. QED
  BY <1>2, <1>3, <1>4, <1>5

LEMMA AuthorizeKeeps == ASSUME Inv, Authorize PROVE Inv' /\ Recorded
<1>1. /\ runs[LabelRun].job = "authorize" /\ UNCHANGED ctl
      /\ UNCHANGED <<outcomes, starts, world>> /\ UNCHANGED <<outcomes, world>>
  BY DEF Authorize
<1>2. AuthorizedRec \in LP!AuthorizedRecord
  BY Authorizations, Runs, LifecycleAssumption
     DEF AuthorizedRec, LP!AuthorizedRecord, LP!Roles, Auth
<1>3. Truthful(AuthorizedRec)
  BY <1>2 DEF Truthful, LP!Record, AuthorizedRec
<1>4. Landed(AuthorizedRec) /\ AuthorizedRec.kind # "resume_bound"
  BY <1>3 DEF Authorize, Admits, Lands, Landed, AuthorizedRec
<1>5. PICK ok \in BOOLEAN : EndJob(LabelRun, ok)
  BY DEF Authorize
<1>6. runs[LabelRun].job \notin StepJobs /\ ~Claims(LabelRun, ok)
  BY <1>1 DEF StepJobs, Claims
<1>7. Inv'
  BY <1>1, <1>4, <1>5, <1>6, Runs, ByItsJob, RecordJob
<1>8. QED
  BY <1>4, <1>7 DEF Recorded

LEMMA BindResumeKeeps == ASSUME Inv, NEW r \in Run, BindResume(r) PROVE Inv' /\ Recorded
<1> DEFINE claim == [kind |-> "resume_bound", state |-> Current.state, auth |-> Task,
                     role |-> "bind", nonce |-> NonceOf(r), run |-> r]
<1>1. /\ runs[r].job = "resume-bind" /\ UNCHANGED ctl
      /\ UNCHANGED <<outcomes, starts, world>> /\ UNCHANGED <<outcomes, world>>
  BY DEF BindResume
<1>2. runs[r].job \notin StepJobs /\ ~Claims(r, FALSE) /\ r # LabelRun
  BY <1>1 DEF StepJobs, Claims, Inv, RunsTyped, GoodRun, JobsOf, LabelJobs
<1>3. CASE view' = view /\ EndJob(r, FALSE)
  <2>1. OneEnds(r, FALSE, FALSE) /\ RunsTyped'
    BY <1>1, <1>2, <1>3, ByItsJob
  <2>2. QED
    BY <1>1, <1>2, <1>3, <2>1, QuietJob DEF Recorded
<1>4. CASE Live /\ Admits(claim) /\ Lands(claim) /\ \E ok \in BOOLEAN : EndJob(r, ok)
  <2>1. Current.state \in LP!States
    BY <1>4, CurrentTyped, RecordTypes DEF Inv, EvidenceInv
  <2>2. claim \in LP!ResumeBoundRecord
    BY <1>2, <2>1, Authorizations, ResumeRuns DEF LP!ResumeBoundRecord, LP!Roles
  <2>3. PICK rec : rec = claim
    OBVIOUS
  <2>4. Truthful(rec) /\ rec.kind = "resume_bound" /\ rec.run = r
    BY <1>2, <2>2, <2>3 DEF Truthful, LP!Record
  <2>5. Landed(rec)
    BY <1>4, <2>3, <2>4 DEF Landed, Admits, Lands
  <2>6. PICK ok \in BOOLEAN : EndJob(r, ok)
    BY <1>4
  <2>7. Inv'
    BY <1>1, <1>2, <2>4, <2>5, <2>6, ByItsJob, RecordJob
  <2>8. QED
    BY <2>5, <2>7 DEF Recorded
<1>5. QED
  BY <1>3, <1>4 DEF BindResume, NoRecord

(* A live authorization can always fail.                                   *)
LEMMA FailureLands ==
  ASSUME Inv, Live, NEW role \in {"bind", "owner-decision"}, NEW code \in FailureCode,
         NEW rec, rec = Ledger!FailedBy(Task, role, Current, code), Lands(rec)
  PROVE  Landed(rec) /\ rec.kind # "resume_bound"
<1>1. Current.state \in LP!LiveStates
  BY CurrentTyped DEF Inv, EvidenceInv
<1>2. role \in LP!Roles
  BY DEF LP!Roles
<1>3. Truthful(rec)
  BY <1>1, <1>2, FailureTruthful
<1>4. "FAILED" \in LP!LegalTransitions(Current.state)
  BY <1>1 DEF LP!LegalTransitions, LP!LiveStates
<1>5. role \in LP!WriterRoles("FAILED")
  BY <1>2 DEF LP!WriterRoles
<1>6. rec.kind = "transition" /\ rec.state = "FAILED" /\ rec.auth = Task /\ rec.role = role
      /\ rec.from = Current.state
  BY DEF Ledger!FailedBy
<1>7. LP!Accepted(view, rec)
  BY <1>4, <1>5, <1>6 DEF LP!Accepted, LP!TransitionAccepted, Current
<1>8. QED
  BY <1>3, <1>6, <1>7, SameLedger DEF Landed, Lands

LEMMA ControlGoneKeeps == ASSUME Inv, NEW r \in Run, ControlGone(r) PROVE Inv' /\ Recorded
<1>1. /\ runs[r].job = "resume-bind" /\ UNCHANGED ctl /\ EndJob(r, FALSE)
      /\ UNCHANGED <<outcomes, starts, world>> /\ UNCHANGED <<outcomes, world>>
  BY DEF ControlGone
<1>2. PICK rec : rec = Ledger!FailedBy(Task, "bind", Current, "CONTROL_SHA_NOT_ON_MAIN")
  OBVIOUS
<1>3. Landed(rec) /\ rec.kind # "resume_bound"
  BY <1>2, FailureLands DEF ControlGone, FailureCode
<1>4. runs[r].job \notin StepJobs /\ ~Claims(r, FALSE)
  BY <1>1 DEF StepJobs, Claims
<1>5. Inv'
  BY <1>1, <1>3, <1>4, ByItsJob, RecordJob
<1>6. QED
  BY <1>3, <1>5 DEF Recorded

LEMMA RejectKeeps == ASSUME Inv, Reject PROVE Inv' /\ Recorded
<1>1. /\ UNCHANGED ctl /\ UNCHANGED runs /\ UNCHANGED <<outcomes, starts, world>>
      /\ UNCHANGED outcomes /\ UNCHANGED world /\ RunsTyped /\ StepsPlaced /\ StepsAgree
  BY DEF Reject, Inv, EvidenceInv, StepsAgree
<1>2. PICK rec : rec = Ledger!FailedBy(Task, "owner-decision", Current, "OWNER_WITHDREW")
  OBVIOUS
<1>3. Landed(rec) /\ rec.kind # "resume_bound"
  BY <1>2, FailureLands DEF Reject, OwnerMayDecide, AwaitsOwner, FailureCode
<1>4. RunsTyped' /\ OneEnds(NoRun, TRUE, FALSE)
  BY <1>1, RunsStay
<1>5. StepsPlaced'
  BY <1>1, <1>4, Runs, PlacedByJob
<1>6. StepsAgree'
  BY <1>1, Adding, SameSteps
<1>7. Inv'
  BY <1>1, <1>3, <1>4, <1>5, <1>6, Runs, RecordJob
<1>8. QED
  BY <1>3, <1>7 DEF Recorded

(* The owner approves one more fallback run.                               *)
LEMMA ApproveKeeps == ASSUME Inv, Approve PROVE Inv' /\ Recorded
<1>1. /\ UNCHANGED runs /\ UNCHANGED <<outcomes, starts, world>>
      /\ UNCHANGED <<outcomes, world>> /\ UNCHANGED outcomes /\ UNCHANGED world
      /\ RunsTyped /\ StepsPlaced /\ StepsAgree /\ DOMAIN ctl = Actor
      /\ "owner" \in Actor /\ ~OwnsRun("owner")
  BY DEF Approve, Inv, EvidenceInv, StepsAgree, StepsPlaced, Actor, OwnsRun
<1>2. PICK rec : rec = Ledger!Requested(Task, "owner-decision", Current, "fallback",
                                        NextNonce(Current, "fallback"))
  OBVIOUS
<1>3. /\ Current \in LP!AuthView /\ Live /\ Current.state = "FALLBACK_AUTHORIZED"
      /\ Current.pending.stage = "none" /\ Current.attempts["fallback"] < MaxFallback
      /\ view' = Ledger!Fold(view, rec)
  BY <1>2, CurrentTyped DEF Inv, EvidenceInv, Approve, OwnerMayDecide, AwaitsOwner, Lands
<1>4. NextNonce(Current, "fallback") \in Nonce
  <2>1. Current.attempts["fallback"] \in Nat /\ MaxFallback \in Nat
    BY <1>3, LifecycleAssumption DEF LP!AuthView, LP!Attempts, LP!Stages
  <2>2. Current.attempts["fallback"] + 1 \in 1 .. MaxFallback
    BY <1>3, <2>1
  <2>3. QED
    BY <2>2 DEF NextNonce, Nonce, ResumeRun
<1>5. Truthful(rec)
  <2>1. "owner-decision" \in LP!Roles /\ Current.state \in LP!LiveStates /\ "fallback" \in LP!Stages
    BY <1>3 DEF LP!Roles, LP!LiveStates, LP!Stages
  <2>2. QED
    BY <1>2, <1>3, <1>4, <2>1, RequestTruthful
<1>6. /\ rec.kind = "resume_requested" /\ rec.auth = Task /\ rec.role = "owner-decision"
      /\ rec.state = Current.state /\ rec.stage = "fallback"
      /\ rec.attempt = Current.attempts["fallback"] + 1
  BY <1>2 DEF Ledger!Requested
<1>7. LP!Accepted(view, rec)
  BY <1>3, <1>6 DEF LP!Accepted, LP!ResumeAccepted, LP!ResumeRoles, LP!RequestAccepted,
                    LP!StageState, LP!WithinCap, Current, Live
<1>8. Landed(rec)
  BY <1>3, <1>5, <1>7, SameLedger DEF Landed
<1>9. RunsTyped' /\ OneEnds(NoRun, TRUE, FALSE) /\ OneEnds(EndingRun("owner"), TRUE, FALSE)
  BY <1>1, RunsStay
<1>10. StepsPlaced' /\ StepsAgree'
  <2>1. CASE UNCHANGED ctl
    BY <1>1, <1>9, <2>1, Runs, PlacedByJob, Adding, SameSteps
  <2>2. CASE ctl' = [ctl EXCEPT !["owner"] =
                       [at |-> "dispatch", nonce |-> NextNonce(Current, "fallback")]]
    <3>1. PICK next : next = [at |-> "dispatch", nonce |-> NextNonce(Current, "fallback")]
      OBVIOUS
    <3>2. StepAgrees(next)
      BY <3>1, NoStepAgrees
    <3>3. StepsPlaced'
      BY <1>1, <1>9, <2>2, <3>1, PlacedAfter
    <3>4. StepsAgree'
      BY <1>1, <2>2, <3>1, <3>2, OneStep
    <3>5. QED
      BY <3>3, <3>4
  <2>3. QED
    BY <2>1, <2>2 DEF Approve
<1>11. Inv'
  BY <1>1, <1>6, <1>8, <1>9, <1>10, Runs, RecordJob
<1>12. QED
  BY <1>8, <1>11 DEF Recorded

----------------------------------------------------------------------------
(* The branch, the pull request and the preflight.                         *)

(* Whatever becomes of them is of no concern to the runs.                  *)
LEMMA WorldTurn ==
  ASSUME Inv, UNCHANGED <<runs, starts, ctl>>, view' = view, OnlyAdds, WorldAgrees(Current)',
         Validated(Current) => Validated(Current)'
  PROVE  Inv'
<1>1. /\ RunsTyped /\ StepsPlaced /\ EvidenceInv /\ LaunchInv /\ LP!Inv /\ Consistent(Current)
      /\ UNCHANGED runs /\ UNCHANGED starts /\ UNCHANGED ctl
  BY DEF Inv, EvidenceInv
<1>2. RunsTyped' /\ OneEnds(NoRun, TRUE, FALSE)
  BY <1>1, RunsStay
<1>3. StepsPlaced'
  BY <1>1, <1>2, Runs, PlacedByJob
<1>4. EvidenceInv'
  <2>1. StepsAgree'
    BY <1>1, SameSteps DEF EvidenceInv, StepsAgree
  <2>2. LP!Inv' /\ Consistent(Current)'
    BY <1>1, SameView
  <2>3. \A r \in Run : runs'[r].job = "push" => Validated(Current)'
    BY <1>1 DEF EvidenceInv
  <2>4. QED
    BY <2>1, <2>2, <2>3 DEF EvidenceInv, StepsAgree
<1>5. LaunchInv'
  <2>1. Turn(NoRun, TRUE, FALSE)
    BY <1>2, Runs DEF Turn, RunsMove, OneEnds
  <2>2. QED
    BY <1>1, <2>1, TurnKeepsLaunchInv
<1>6. QED
  BY <1>2, <1>3, <1>4, <1>5 DEF Inv

LEMMA PreflightCompletesKeeps == ASSUME Inv, PreflightCompletes PROVE Inv'
<1>1. /\ UNCHANGED <<runs, starts, ctl>> /\ view' = view /\ branch' = branch /\ pr' = pr
      /\ UNCHANGED outcomes /\ preflight = "none" /\ Current' = Current
      /\ WorldAgrees(Current)
  BY DEF PreflightCompletes, NoRecord, Current, Inv, EvidenceInv
<1>2. OnlyAdds
  BY <1>1 DEF OnlyAdds, PassUploaded
<1>3. Validated(Current)' <=> Validated(Current)
  BY <1>1 DEF Validated, PassUploaded
<1>4. WorldAgrees(Current)'
  BY <1>1, <1>3 DEF WorldAgrees
<1>5. QED
  BY <1>1, <1>2, <1>3, <1>4, WorldTurn

LEMMA OpenPRKeeps == ASSUME Inv, OpenPR PROVE Inv'
<1>1. /\ UNCHANGED <<runs, starts, ctl>> /\ view' = view /\ branch' = branch /\ pr' = branch
      /\ UNCHANGED outcomes /\ preflight' = preflight /\ Current' = Current
      /\ WorldAgrees(Current)
  BY DEF OpenPR, NoRecord, Current, Inv, EvidenceInv
<1>2. OnlyAdds
  BY <1>1 DEF OnlyAdds, PassUploaded, WorldAgrees
<1>3. Validated(Current)' <=> Validated(Current)
  BY <1>1 DEF Validated, PassUploaded
<1>4. WorldAgrees(Current)'
  BY <1>1, <1>3 DEF WorldAgrees
<1>5. QED
  BY <1>1, <1>2, <1>3, <1>4, WorldTurn

LEMMA ForeignPushKeeps == ASSUME Inv, ForeignPush PROVE Inv'
<1>1. /\ UNCHANGED <<runs, starts, ctl>> /\ view' = view /\ branch = NoDigest
      /\ branch' = ForeignHead /\ pr' = pr
      /\ UNCHANGED outcomes /\ preflight' = preflight /\ Current' = Current
      /\ WorldAgrees(Current) /\ Consistent(Current) /\ LP!Inv
  BY DEF ForeignPush, NoRecord, Current, Inv, EvidenceInv
<1>2. OnlyAdds
  BY <1>1, Runs DEF OnlyAdds, PassUploaded
<1>3. Validated(Current)' <=> Validated(Current)
  BY <1>1 DEF Validated, PassUploaded
<1>4. Current.state \notin {"PUBLISHED", "COMPLETED"}
  BY <1>1, Runs DEF Consistent, WorldAgrees, Ledger!ResultStates
<1>5. pr' \notin Run
  BY <1>1, Runs DEF WorldAgrees
<1>6. WorldAgrees(Current)'
  BY <1>1, <1>3, <1>4, <1>5, Runs DEF WorldAgrees
<1>7. QED
  BY <1>1, <1>2, <1>3, <1>6, WorldTurn

(* What merely passes, or is looked at.                                    *)
LEMMA NothingMoves ==
  ASSUME Inv, UNCHANGED <<runs, starts, ctl, outcomes>>, view' = view, UNCHANGED world
  PROVE  Inv'
<1>1. Current' = Current /\ WorldAgrees(Current)
  BY DEF Current, Inv, EvidenceInv
<1>2. OnlyAdds
  BY Adding
<1>3. Validated(Current)' <=> Validated(Current)
  BY <1>1 DEF Validated, PassUploaded
<1>4. WorldAgrees(Current)'
  BY <1>1, <1>3 DEF WorldAgrees, world
<1>5. QED
  BY <1>1, <1>2, <1>3, <1>4, WorldTurn

(* The push of publish: the head that a validated result leads to.         *)
LEMMA PushKeeps == ASSUME Inv, NEW r \in Run, Push(r) PROVE Inv'
<1>1. /\ runs[r].job = "push" /\ view' = view /\ UNCHANGED ctl /\ UNCHANGED starts
      /\ pr' = pr /\ preflight' = preflight /\ Current' = Current
      /\ runs' = [runs EXCEPT ![r] = Ended(r, TRUE, FALSE)]
  BY DEF Push, NoRecord, Current, EndJob
<1>2. /\ RunsTyped /\ StepsPlaced /\ EvidenceInv /\ LaunchInv /\ LP!Inv /\ Consistent(Current)
      /\ WorldAgrees(Current) /\ Validated(Current)
  BY <1>1 DEF Inv, EvidenceInv
<1>3. RunsTyped' /\ OneEnds(r, TRUE, FALSE)
  BY <1>1, <1>2, JobEnds
<1>4. runs[r].job \notin StepJobs /\ ~Claims(r, TRUE)
  BY <1>1 DEF StepJobs, Claims
<1>5. StepsPlaced'
  BY <1>1, <1>2, <1>3, <1>4, PlacedByJob
<1>6. LaunchInv'
  <2>1. Turn(r, TRUE, FALSE)
    BY <1>1, <1>3, <1>4 DEF Turn, RunsMove, OneEnds
  <2>2. QED
    BY <1>1, <1>2, <2>1, TurnKeepsLaunchInv
<1>7. CASE ~LeaseHolds
  <2>1. outcomes \subseteq outcomes' /\ UNCHANGED world
    BY <1>1, <1>7 DEF Push, Upload, world
  <2>2. StepsAgree'
    BY <1>1, <1>2, <2>1, Adding, SameSteps DEF EvidenceInv, StepsAgree
  <2>3. EvidenceInv'
    BY <1>1, <1>2, <2>1, <2>2, StayingKeepsEvidenceInv
  <2>4. QED
    BY <1>3, <1>5, <1>6, <2>3 DEF Inv
<1>8. CASE LeaseHolds
  <2>1. branch' = Current.result /\ UNCHANGED outcomes
    BY <1>8 DEF Push
  <2>2. branch \in Run => branch' = branch
    BY <1>2, <2>1 DEF WorldAgrees
  <2>3. OnlyAdds
    BY <1>1, <2>1, <2>2 DEF OnlyAdds, PassUploaded
  <2>4. StepsAgree'
    BY <1>1, <1>2, <2>3, SameSteps DEF EvidenceInv, StepsAgree
  <2>5. Validated(Current)' <=> Validated(Current)
    BY <1>1, <2>1 DEF Validated, PassUploaded
  <2>6. pr \in Run => pr = branch'
    BY <1>2, <2>2 DEF WorldAgrees
  <2>7. Current.state \in {"PUBLISHED", "COMPLETED"} => branch' = branch
    BY <1>2, <2>2 DEF WorldAgrees, Consistent, Validated
  <2>8. WorldAgrees(Current)'
    BY <1>1, <1>2, <2>1, <2>5, <2>6, <2>7 DEF WorldAgrees, Validated
  <2>9. EvidenceInv'
    BY <1>1, <1>2, <2>4, <2>5, <2>8, SameView DEF EvidenceInv, StepsAgree
  <2>10. QED
    BY <1>3, <1>5, <1>6, <2>9 DEF Inv
<1>9. QED
  BY <1>7, <1>8

(* A job dies: its run goes on with what follows it, as after a failure.   *)
LEMMA DyingJob ==
  ASSUME RunsTyped, StepsPlaced, NEW a \in {"label", "resume"}, Job(a) \notin {"none", "done"}
  PROVE  OnJob(a) /\ runs[ActorRun(a)].job = Job(a)
<1>1. a = "label" \/ \E r \in Run \ {LabelRun} : Executing(r)
  BY DEF Job
<1>2. /\ ActorRun(a) \in Run /\ runs[ActorRun(a)].job = Job(a)
      /\ (a = "label" <=> ActorRun(a) = LabelRun)
      /\ a = "resume" => \A r \in Run \ {LabelRun} : Executing(r) => r = ActorRun(a)
  BY <1>1, OwnRun
<1>3. Executing(ActorRun(a))
  <2>1. CASE a = "label"
    <3>1. runs[LabelRun].job \in LabelJobs /\ runs[LabelRun].job # "done"
      BY <1>2, <2>1, Runs DEF RunsTyped, GoodRun, JobsOf
    <3>2. QED
      BY <1>2, <2>1, <3>1 DEF Executing, Inactive, Waiting, Invisible, LabelJobs
  <2>2. CASE a = "resume"
    BY <1>1, <1>2, <2>2
  <2>3. QED
    BY <2>1, <2>2
<1>4. QED
  BY <1>2, <1>3 DEF OnJob

LEMMA JobDiesKeeps == ASSUME Inv, NEW a \in Actor, JobDies(a) PROVE Inv'
<1>1. /\ RunsTyped /\ StepsPlaced /\ EvidenceInv /\ LaunchInv /\ LP!Inv /\ Consistent(Current)
      /\ view' = view /\ UNCHANGED outcomes /\ UNCHANGED world /\ UNCHANGED <<outcomes, world>>
      /\ ctl' = [ctl EXCEPT ![a] = Idle] /\ Idle.at = "idle" /\ outcomes \subseteq outcomes'
  BY DEF JobDies, NoRecord, Inv, EvidenceInv, Idle
<1>2. PICK x : x = EndingRun(a)
  OBVIOUS
<1>3. OwnsRun(a) => OnJob(a) /\ runs[x].job = Job(a) /\ x \in Run
  BY <1>1, <1>2, DyingJob DEF JobDies, OwnsRun, EndingRun, OnJob
<1>4. ~OwnsRun(a) => x \notin Run
  BY <1>2, Runs DEF EndingRun
<1>5. RunsTyped' /\ OneEnds(x, FALSE, FALSE)
  <2>1. CASE OwnsRun(a)
    <3>1. PICK e : e = [Ended(x, FALSE, FALSE) EXCEPT
                          !.output = IF Job(a) \in ExecutorJobs THEN "silent" ELSE @]
      OBVIOUS
    <3>2. Ended(x, FALSE, FALSE) \in RunState
      BY <1>1, <1>3, <2>1, EndedFields
    <3>3. /\ e \in RunState /\ e.job = Ended(x, FALSE, FALSE).job
          /\ e.valid = Ended(x, FALSE, FALSE).valid
      BY <3>1, <3>2 DEF RunState
    <3>4. runs' = [runs EXCEPT ![x] = e]
      BY <1>2, <2>1, <3>1 DEF JobDies, EndingRun
    <3>5. QED
      BY <1>1, <1>3, <2>1, <3>3, <3>4, LeftBehind
  <2>2. CASE ~OwnsRun(a)
    BY <1>1, <2>2, RunsStay DEF JobDies
  <2>3. QED
    BY <2>1, <2>2
<1>6. StepsPlaced'
  BY <1>1, <1>2, <1>3, <1>5, PlacedAfter
<1>7. StepsAgree'
  BY <1>1, OneStep, NoStepAgrees DEF EvidenceInv, StepsAgree, StepsPlaced
<1>8. EvidenceInv'
  BY <1>1, <1>5, <1>7, NoNewPush, StayingKeepsEvidenceInv DEF EvidenceInv
<1>9. LaunchInv'
  <2>1. CASE UNCHANGED starts
    <3>1. Turn(x, FALSE, FALSE)
      BY <1>1, <1>5 DEF Turn, RunsMove, OneEnds, Claims
    <3>2. QED
      BY <1>1, <2>1, <3>1, TurnKeepsLaunchInv
  <2>2. CASE /\ OwnsRun(a) /\ starts' = Started(Job(a))
             /\ Job(a) \in ExecutorJobs => AwaitsExecution(ActorRun(a))
             /\ Job(a) \in {"execute", "execute-fallback", "validate", "publish"}
    <3>1. runs'[x].job = JobAfter(x, runs[x].job, FALSE, FALSE)
      <4>1. Ended(x, FALSE, FALSE) \in RunState /\ runs \in [Run -> RunState]
            /\ Ended(x, FALSE, FALSE).job = JobAfter(x, runs[x].job, FALSE, FALSE)
        BY <1>1, <1>3, <2>2, EndedFields DEF RunsTyped
      <4>2. runs'[x] = [Ended(x, FALSE, FALSE) EXCEPT
                          !.output = IF Job(a) \in ExecutorJobs THEN "silent" ELSE @]
        BY <1>2, <1>3, <2>2, <4>1 DEF JobDies, EndingRun
      <4>3. QED
        BY <4>1, <4>2 DEF RunState
    <3>2. Starting(x, FALSE)
      BY <1>1, <1>2, <1>3, <1>5, <2>2, <3>1, EndingStarts DEF EndingRun
    <3>3. QED
      BY <1>1, <1>3, <2>2, <3>2, StartingKeepsLaunchInv
  <2>3. QED
    BY <2>1, <2>2 DEF JobDies, Started
<1>10. QED
  BY <1>5, <1>6, <1>8, <1>9 DEF Inv

----------------------------------------------------------------------------
(* The invariant is inductive.                                             *)

LEMMA NextKeepsInv == ASSUME Inv, [Next]_vars PROVE Inv' /\ Recorded
<1>1. CASE UNCHANGED vars
  BY <1>1, NothingMoves DEF vars, world, Recorded
<1>2. ASSUME NEW a \in Actor, Control(a) PROVE Inv' /\ Recorded
  <2>1. CASE Load(a)
    BY <2>1, LoadKeeps DEF Load, NoRecord, Recorded
  <2>2. CASE Decide(a)
    BY <2>2, DecideKeeps DEF Decide, NoRecord, Recorded
  <2>3. CASE Dispatch(a)
    BY <2>3, DispatchKeeps DEF Dispatch, NoRecord, Recorded
  <2>4. QED
    BY <1>2, <2>1, <2>2, <2>3, AppendKeeps, AppendUnknownKeeps DEF Control
<1>3. ASSUME NEW r \in Run, JobStep(r) PROVE Inv' /\ Recorded
  <2>1. CASE Appear(r) \/ Begin(r)
    BY <2>1, AppearKeeps, BeginKeeps DEF Appear, Begin, NoRecord, Recorded
  <2>2. CASE Execute(r) \/ Validate(r)
    BY <2>2, ExecuteKeeps, ValidateKeeps DEF Execute, Validate, NoRecord, Recorded
  <2>3. CASE PublishRefused(r) \/ PublishCheck(r) \/ Push(r)
    BY <2>3, PublishRefusedKeeps, PublishCheckKeeps, PushKeeps
       DEF PublishRefused, PublishCheck, Push, NoRecord, Recorded
  <2>4. QED
    BY <1>3, <2>1, <2>2, <2>3, BindResumeKeeps, ControlGoneKeeps DEF JobStep
<1>4. CASE CandidateStep
  <2>1. CASE Gate
    BY <2>1, NothingMoves DEF Gate, NoRecord, Recorded
  <2>2. CASE PreflightCompletes \/ OpenPR
    BY <2>2, PreflightCompletesKeeps, OpenPRKeeps DEF PreflightCompletes, OpenPR, NoRecord, Recorded
  <2>3. QED
    BY <1>4, <2>1, <2>2 DEF CandidateStep
<1>5. CASE Clock
  BY <1>5, NothingMoves DEF Clock, DeadlinePasses, GracePasses, Recorded
<1>6. ASSUME NEW r \in Run, ArtifactExpires(r) PROVE Inv' /\ Recorded
  BY <1>6, ArtifactExpiresKeeps DEF ArtifactExpires, NoRecord, Recorded
<1>7. ASSUME NEW a \in Actor, JobDies(a) PROVE Inv' /\ Recorded
  BY <1>7, JobDiesKeeps DEF JobDies, NoRecord, Recorded
<1>8. CASE ForeignPush
  BY <1>8, ForeignPushKeeps DEF ForeignPush, NoRecord, Recorded
<1>9. QED
  BY <1>1, <1>2, <1>3, <1>4, <1>5, <1>6, <1>7, <1>8, AuthorizeKeeps, ApproveKeeps, RejectKeeps
     DEF Next

(* A remediation starts from a ledger that holds its completed parent.     *)
LEMMA ParentSound ==
  ASSUME Remediation
  PROVE  /\ CompletedParent \in LP!AuthView /\ LP!Sound(CompletedParent)
         /\ CompletedParent.state = "COMPLETED"
         /\ CompletedParent.parent = NoAuth /\ CompletedParent.branch = Parent
<1>1. PICK c : c = LP!Unclaimed
  OBVIOUS
<1>2. PICK id : id = [execution |-> 1, result |-> ParentHead, commit |-> ParentHead]
  OBVIOUS
<1>3. CompletedParent =
        [c EXCEPT !.state = "COMPLETED", !.owner = LabelRun, !.branch = Parent,
                  !.result = ParentHead, !.validated = ParentHead, !.commit = ParentHead,
                  !.head = ParentHead, !.prHead = ParentHead, !.identity = id]
  BY <1>1, <1>2, SameLedger DEF CompletedParent
<1>4. /\ "COMPLETED" \in LP!AnyState /\ LabelRun \in LP!OptRun /\ ParentHead \in LP!OptDigest
      /\ id \in LP!OptIdentity /\ Parent \in LP!OptAuth
  BY <1>2, Runs DEF LP!AnyState, LP!States, LP!TerminalStates, LP!OptRun, LP!OptDigest, Digest,
                    LP!OptIdentity, LP!Identity, LP!OptAuth, Auth
<1>5. /\ c \in LP!AuthView /\ c.pending = LP!NoPending /\ c.attempts = [s \in LP!Stages |-> 0]
      /\ c.fromFallback = FALSE /\ c.admitted = FALSE /\ c.parent = NoAuth
  BY <1>1, LP!UnclaimedSound, LedgerAssumptions DEF LP!Unclaimed
<1>6. CompletedParent \in LP!AuthView
  BY <1>3, <1>4, <1>5 DEF LP!AuthView
<1>7. /\ CompletedParent.state = "COMPLETED" /\ CompletedParent.pending = LP!NoPending
      /\ CompletedParent.attempts = [s \in LP!Stages |-> 0]
      /\ CompletedParent.fromFallback = FALSE /\ CompletedParent.admitted = FALSE
      /\ CompletedParent.validated = ParentHead /\ CompletedParent.result = ParentHead
      /\ CompletedParent.commit = ParentHead /\ CompletedParent.identity = id
      /\ CompletedParent.prHead = ParentHead /\ CompletedParent.head = ParentHead
      /\ CompletedParent.parent = NoAuth /\ CompletedParent.branch = Parent
  BY <1>3, <1>5 DEF LP!AuthView
<1>8. LP!Sound(CompletedParent)
  <2>1. PICK d : d = CompletedParent
    OBVIOUS
  <2>2. LP!PendingMatches(d) /\ LP!AdmissionTracked(d)
    BY <1>7, <2>1 DEF LP!PendingMatches, LP!AdmissionTracked, LP!NoPending
  <2>3. LP!WithinBudget(d)
    BY <1>7, <2>1 DEF LP!WithinBudget, LP!Stages
  <2>4. LP!OneLineage(d)
    BY <1>2, <1>7, <2>1 DEF LP!OneLineage
  <2>5. QED
    BY <2>1, <2>2, <2>3, <2>4 DEF LP!Sound
<1>9. QED
  BY <1>6, <1>7, <1>8

LEMMA InitialLedger == ASSUME Init PROVE LP!Inv /\ Current = LP!Unclaimed
<1>1. LP!Unclaimed \in LP!AuthView /\ LP!Sound(LP!Unclaimed) /\ LP!Unclaimed.state = "NONE"
  BY LP!UnclaimedSound, LedgerAssumptions DEF LP!Unclaimed
<1>2. PICK claimed, auths :
        /\ view = [claimed |-> claimed, active |-> NoAuth, auths |-> auths]
        /\ claimed = (IF Remediation THEN {Parent} ELSE {})
        /\ auths = [a \in Auth |-> IF Remediation /\ a = Parent THEN CompletedParent
                                   ELSE LP!Unclaimed]
  <2>1. Ledger!EmptyView = [claimed |-> {}, active |-> NoAuth, auths |-> [a \in Auth |-> LP!Unclaimed]]
    BY SameLedger DEF LP!EmptyView
  <2>2. CASE Remediation
    <3>1. view = [claimed |-> {Parent}, active |-> NoAuth,
                  auths |-> [[a \in Auth |-> LP!Unclaimed] EXCEPT ![Parent] = CompletedParent]]
      BY <2>1, <2>2 DEF Init
    <3>2. [[a \in Auth |-> LP!Unclaimed] EXCEPT ![Parent] = CompletedParent] =
            [a \in Auth |-> IF Remediation /\ a = Parent THEN CompletedParent ELSE LP!Unclaimed]
      BY <2>2
    <3>3. QED
      BY <2>2, <3>1, <3>2
  <2>3. CASE ~Remediation
    <3>1. [a \in Auth |-> LP!Unclaimed] =
            [a \in Auth |-> IF Remediation /\ a = Parent THEN CompletedParent ELSE LP!Unclaimed]
      BY <2>3
    <3>2. QED
      BY <2>1, <2>3, <3>1 DEF Init
  <2>4. QED
    BY <2>2, <2>3
<1>3. \A a \in Auth : auths[a] \in LP!AuthView /\ LP!Sound(auths[a])
  BY <1>1, <1>2, ParentSound
<1>4. /\ \A a \in Auth : auths[a].state = IF a \in claimed THEN "COMPLETED" ELSE "NONE"
      /\ claimed \subseteq Auth /\ NoAuth \in LP!OptAuth
  BY <1>1, <1>2, ParentSound DEF Auth, LP!OptAuth
<1>5. LP!TypeOK
  BY <1>2, <1>3, <1>4 DEF LP!TypeOK
<1>6. LP!IndexAgreesWithChain
  BY <1>2, <1>4, Authorizations DEF LP!IndexAgreesWithChain, LP!LiveStates
<1>7. LP!BranchLineage
  BY <1>2, <1>4, ParentSound DEF LP!BranchLineage
<1>8. Current = LP!Unclaimed
  BY <1>2, Authorizations DEF Current, Task, Parent
<1>9. QED
  BY <1>2, <1>3, <1>5, <1>6, <1>7, <1>8 DEF LP!Inv

LEMMA InitKeepsInv == Init => Inv
<1> SUFFICES ASSUME Init PROVE Inv
  OBVIOUS
<1>1. LP!Inv /\ Current \in LP!AuthView /\ Current = LP!Unclaimed
  BY InitialLedger, CurrentTyped
<1>2. /\ Current.state = "NONE" /\ Current.pending = LP!NoPending
      /\ Current.attempts = [s \in LP!Stages |-> 0]
  BY <1>1 DEF LP!Unclaimed
<1>3. \A r \in Run : /\ runs[r].job = (IF r = LabelRun THEN "authorize" ELSE "absent")
                     /\ runs[r].valid = FALSE /\ runs[r] \in RunState
  BY DEF Init, RunState, Jobs, LabelJobs, Invisible
<1>4. RunsTyped
  <2>1. runs \in [Run -> RunState]
    BY <1>3 DEF Init
  <2>2. \A r \in Run : GoodRun(r, runs[r])
    BY <1>3 DEF GoodRun, JobsOf, LabelJobs, Invisible
  <2>3. QED
    BY <2>1, <2>2 DEF RunsTyped
<1>5. StepsPlaced
  <2>1. \A a \in Actor : ctl[a] = Idle
    BY DEF Init
  <2>2. DOMAIN ctl = Actor /\ "label" \in Actor /\ "resume" \in Actor
    BY DEF Init, Actor
  <2>3. \A r \in Run \ {LabelRun} : ~Executing(r)
    BY <1>3 DEF Executing, Inactive, Waiting, Invisible
  <2>4. QED
    BY <2>1, <2>2, <2>3 DEF StepsPlaced, Idle
<1>6. EvidenceInv
  <2>1. Consistent(Current)
    BY <1>1, <1>2, SameLedger DEF Consistent, LP!NoPending, LP!Stages, Ledger!ResultStates
  <2>2. WorldAgrees(Current)
    BY <1>2, Runs DEF WorldAgrees, Init, LeasedOn
  <2>3. \A a \in Actor : StepAgrees(ctl[a])
    BY NoStepAgrees DEF Init
  <2>4. \A r \in Run : runs[r].job # "push"
    BY <1>3
  <2>5. QED
    BY <1>1, <2>1, <2>2, <2>3, <2>4 DEF EvidenceInv
<1>7. LaunchInv
  <2>1. StartsTyped /\ starts.primary = 0 /\ starts.fallback = 0
        /\ starts.validation = 0 /\ starts.publication = 0
    BY DEF Init, StartsTyped
  <2>2. OneClaim
    <3>1. \A r \in Run : ~Claimed(r)
      BY <1>3 DEF Claimed, Waiting, Invisible
    <3>2. Current.pending.run = NoRun
      BY <1>2 DEF LP!NoPending
    <3>3. QED
      BY <3>1, <3>2 DEF OneClaim
  <2>3. OneBearer
    BY <1>3 DEF OneBearer, Bearer
  <2>4. PrimaryCounted
    BY <2>1 DEF PrimaryCounted
  <2>5. FallbackCounted
    BY <1>2, <2>1 DEF FallbackCounted, Unlaunched, LP!NoPending, LP!Stages
  <2>6. ValidationCounted /\ PublicationCounted
    BY <2>1 DEF ValidationCounted, PublicationCounted, Count
  <2>7. QED
    BY <2>1, <2>2, <2>3, <2>4, <2>5, <2>6 DEF LaunchInv
<1>8. QED
  BY <1>4, <1>5, <1>6, <1>7 DEF Inv

(* A step that has read the ledger comes to a record by its own decision.  *)
LEMMA DecisionProposes ==
  ASSUME StepsPlaced, NEW a \in Actor, Decide(a), ctl'[a].at = "append"
  PROVE  \E f, d : /\ d = Ledger!Advance(ctl[a].c, f)
                   /\ d.act \notin {"noop", "freeze", "redispatch"}
                   /\ Ledger!MayWrite(Role(a), RecordFor(Role(a), ctl[a].c, f, d))
                   /\ ctl'[a].rec = RecordFor(Role(a), ctl[a].c, f, d)
<1>1. PICK f, d :
        /\ d = Ledger!Advance(ctl[a].c, f)
        /\ \/ \E ok \in BOOLEAN : Close(a, ok, FALSE)
           \/ Redispatch(a)
           \/ /\ d.act \notin {"noop", "freeze", "redispatch"}
              /\ Propose(a, RecordFor(Role(a), ctl[a].c, f, d))
  BY DEF Decide
<1>2. ASSUME NEW x, ctl' = [ctl EXCEPT ![a] = x] PROVE ctl'[a] = x
  BY <1>2 DEF StepsPlaced
<1>3. ASSUME NEW ok, Close(a, ok, FALSE) PROVE FALSE
  <2>1. ctl' = [ctl EXCEPT ![a] = Idle]
    BY <1>3 DEF Close, Leave
  <2>2. ctl'[a] = Idle
    BY <1>2, <2>1
  <2>3. QED
    BY <2>2 DEF Idle
<1>4. ASSUME NEW next, Goto(a, next) PROVE ctl'[a] = next
  BY <1>2, <1>4 DEF Goto
<1>5. ~Redispatch(a)
  <2> SUFFICES ASSUME Redispatch(a) PROVE FALSE
    OBVIOUS
  <2>1. Goto(a, [at |-> "dispatch", nonce |-> ctl[a].c.pending.nonce])
    BY <1>3 DEF Redispatch
  <2>2. ctl'[a] = [at |-> "dispatch", nonce |-> ctl[a].c.pending.nonce]
    BY <1>4, <2>1
  <2>3. QED
    BY <2>2
<1>6. PICK rec : rec = RecordFor(Role(a), ctl[a].c, f, d)
  OBVIOUS
<1>7. d.act \notin {"noop", "freeze", "redispatch"} /\ Propose(a, rec)
  BY <1>1, <1>3, <1>5, <1>6
<1>8. Ledger!MayWrite(Role(a), rec) /\ Goto(a, [at |-> "append", rec |-> rec, chain |-> ctl[a].chain])
  BY <1>3, <1>7 DEF Propose
<1>9. ctl'[a] = [at |-> "append", rec |-> rec, chain |-> ctl[a].chain]
  BY <1>4, <1>8
<1>10. QED
  BY <1>1, <1>6, <1>7, <1>8, <1>9

LEMMA ProposalIsDecided ==
  ASSUME Inv, Next, NEW a \in Actor, ctl[a].at = "seen", ctl'[a].at = "append"
  PROVE  Decide(a)
<1>1. DOMAIN ctl = Actor /\ ctl'[a] # ctl[a] /\ ctl'[a] # Idle
  BY DEF Inv, StepsPlaced, Idle
<1>2. ASSUME NEW b \in Actor, b # a PROVE \A x : ctl' # [ctl EXCEPT ![b] = x]
  BY <1>1, <1>2
<1>3. \A b \in Actor : ctl' # [ctl EXCEPT ![b] = Idle]
  BY <1>1, <1>2
<1>4. ASSUME NEW b \in Actor, Control(b) PROVE Decide(a)
  <2>1. b = a
    BY <1>2, <1>4
       DEF Control, Load, Decide, Append, AppendUnknown, Dispatch, Propose, Redispatch, Close, Goto, Leave
  <2>2. QED
    BY <1>4, <2>1 DEF Control, Load, Append, AppendUnknown, Dispatch
<1>5. ASSUME NEW r \in Run, JobStep(r) PROVE FALSE
  BY <1>1, <1>5 DEF JobStep, BindResume, ControlGone, Appear, Begin, Execute, Validate,
                    PublishRefused, PublishCheck, Push
<1>6. ~CandidateStep /\ ~Clock
  BY <1>1 DEF CandidateStep, PreflightCompletes, Gate, OpenPR, Clock, DeadlinePasses, GracePasses
<1>7. ASSUME NEW b \in Actor, JobDies(b) PROVE FALSE
  BY <1>3, <1>7 DEF JobDies
<1>8. ~Authorize /\ ~Reject /\ ~ForeignPush
  BY <1>1 DEF Authorize, Reject, ForeignPush
<1>9. ~Approve
  <2> SUFFICES ASSUME Approve PROVE FALSE
    OBVIOUS
  <2>1. "owner" \in Actor /\ ctl["owner"] = Idle
    BY DEF Approve, OwnerMayDecide, Actor
  <2>2. a # "owner"
    BY <2>1 DEF Idle
  <2>3. ctl' = ctl \/ \E x : ctl' = [ctl EXCEPT !["owner"] = x]
    BY DEF Approve
  <2>4. QED
    BY <1>1, <1>2, <2>1, <2>2, <2>3
<1>10. ASSUME NEW r \in Run, ArtifactExpires(r) PROVE FALSE
  BY <1>1, <1>10 DEF ArtifactExpires
<1>11. QED
  BY <1>4, <1>5, <1>6, <1>7, <1>8, <1>9, <1>10 DEF Next

----------------------------------------------------------------------------
(* The theorems.                                                           *)

(* Inv holds initially and every step of every job, of the candidate-PR    *)
(* workflow, of the owner, of GitHub and of time preserves it: the         *)
(* induction the safety theorems below rest on.                            *)
THEOREM InvHolds == Spec => []Inv
<1>1. Inv /\ [Next]_vars => Inv'
  BY NextKeepsInv
<1>2. QED
  BY <1>1, InitKeepsInv, PTL DEF Spec

(* The execution branch only ever carries the commit of a result that was  *)
(* validated (the publish job's check and its push straddle other writers).*)
THEOREM PublishedCorrect == Spec => []PublishedIsValidated
<1>1. Inv => PublishedIsValidated
  BY DEF Inv, EvidenceInv, WorldAgrees, Validated, PassUploaded, PublishedIsValidated
<1>2. QED
  BY <1>1, InvHolds, PTL

(* A COMPLETED record, decided by advance from facts that may be stale by  *)
(* the time it lands, is true of GitHub.                                   *)
THEOREM CompletedCorrect == Spec => []CompletedIsReal
<1>1. Inv => CompletedIsReal
  BY DEF Inv, EvidenceInv, WorldAgrees, CompletedIsReal
<1>2. QED
  BY <1>1, InvHolds, PTL

(* However many runs carry a nonce, each approval of the owner launches    *)
(* the fallback model at most once, and the primary is launched once.      *)
THEOREM LaunchCorrect == Spec => []OneLaunchPerApproval
<1>1. Inv => OneLaunchPerApproval
  <2> SUFFICES ASSUME Inv PROVE OneLaunchPerApproval
    OBVIOUS
  <2>1. starts.fallback \in Nat /\ starts.primary <= 1
    BY DEF Inv, LaunchInv, StartsTyped, PrimaryCounted
  <2>2. Current.attempts["fallback"] \in Nat
    BY CurrentTyped DEF Inv, EvidenceInv, LP!AuthView, LP!Attempts, LP!Stages
  <2>3. starts.fallback + (IF Unlaunched(Current) THEN 1 ELSE 0) <= Current.attempts["fallback"]
    BY DEF Inv, LaunchInv, FallbackCounted
  <2>4. starts.fallback <= Current.attempts["fallback"]
    BY <2>1, <2>2, <2>3
  <2>5. QED
    BY <2>1, <2>4 DEF OneLaunchPerApproval
<1>2. QED
  BY <1>1, InvHolds, PTL

(* First attempts, resumes, abandoned resumes and duplicate runs together  *)
(* start validate at most twice and publish at most three times.           *)
THEOREM BudgetCorrect == Spec => []StageBudget
<1>1. Inv => StageBudget
  <2> SUFFICES ASSUME Inv PROVE StageBudget
    OBVIOUS
  <2>1. starts.validation \in Nat /\ starts.publication \in Nat
    BY DEF Inv, LaunchInv, StartsTyped
  <2>2. \A over \in BOOLEAN : Count(over) \in {0, 1}
    BY DEF Count
  <2>3. ValidationCounted /\ PublicationCounted
    BY DEF Inv, LaunchInv
  <2>4. PICK m \in {0, 1}, n \in {0, 1} : starts.validation <= m + n
    BY <2>3 DEF ValidationCounted, Count
  <2>5. PICK i \in {0, 1}, j \in {0, 1}, k \in {0, 1} : starts.publication <= i + j + k
    BY <2>3 DEF PublicationCounted, Count
  <2>6. QED
    BY <2>1, <2>4, <2>5 DEF StageBudget
<1>2. QED
  BY <1>1, InvHolds, PTL

(* publish pushes under the lease: no head is ever replaced but the one    *)
(* the branch is expected to have.                                         *)
THEOREM OverwriteCorrect == Spec => NothingOverwritten
<1>1. [Next]_vars => [branch \notin {NoDigest, LeasedOn} => branch' = branch]_vars
  <2> SUFFICES ASSUME Next, branch \notin {NoDigest, LeasedOn} PROVE branch' = branch
    OBVIOUS
  <2>1. ASSUME NEW a \in Actor, Control(a) PROVE branch' = branch
    BY <2>1 DEF Control, Load, Decide, Append, AppendUnknown, Dispatch, world
  <2>2. ASSUME NEW r \in Run, JobStep(r) PROVE branch' = branch
    <3>1. CASE Push(r)
      BY <3>1 DEF Push, LeaseHolds
    <3>2. QED
      BY <2>2, <3>1 DEF JobStep, BindResume, ControlGone, Appear, Begin, Execute, Validate,
                        PublishRefused, PublishCheck, world
  <2>3. CASE CandidateStep \/ Clock
    BY <2>3 DEF CandidateStep, PreflightCompletes, Gate, OpenPR, Clock, DeadlinePasses,
                GracePasses, world
  <2>4. ASSUME NEW a \in Actor, JobDies(a) PROVE branch' = branch
    BY <2>4 DEF JobDies, world
  <2>5. CASE Authorize \/ Approve \/ Reject \/ ForeignPush
    BY <2>5 DEF Authorize, Approve, Reject, ForeignPush, world
  <2>6. ASSUME NEW r \in Run, ArtifactExpires(r) PROVE branch' = branch
    BY <2>6 DEF ArtifactExpires, world
  <2>7. QED
    BY <2>1, <2>2, <2>3, <2>4, <2>5, <2>6 DEF Next
<1>2. QED
  BY <1>1, PTL DEF Spec, NothingOverwritten

(* A record that Ledger.append refuses was overtaken: what is decided on   *)
(* the authorization as it stands is accepted, whatever the facts were.    *)
THEOREM FreshCorrect == Spec => FreshIsAccepted
<1> DEFINE Fresh ==
      \A a \in Actor :
        ctl[a].at = "seen" /\ ctl[a].c = Current /\ ctl'[a].at = "append" =>
          Ledger!Accepted(view, ctl'[a].rec)
<1>1. Inv /\ [Next]_vars => [Fresh]_vars
  <2> SUFFICES ASSUME Inv, Next, NEW a \in Actor,
                      ctl[a].at = "seen", ctl[a].c = Current, ctl'[a].at = "append"
               PROVE  Ledger!Accepted(view, ctl'[a].rec)
    OBVIOUS
  <2>1. Decide(a)
    BY ProposalIsDecided
  <2>2. PICK f, d :
          /\ d = Ledger!Advance(ctl[a].c, f) /\ d.act \notin {"noop", "freeze", "redispatch"}
          /\ Ledger!MayWrite(Role(a), RecordFor(Role(a), ctl[a].c, f, d))
          /\ ctl'[a].rec = RecordFor(Role(a), ctl[a].c, f, d)
    BY <2>1, DecisionProposes DEF Inv
  <2>3. Current \in LP!AuthView /\ Current.state \in LP!LiveStates /\ Live
    <3>1. ctl[a].c.state \in LP!LiveStates
      BY SameLedger DEF Inv, EvidenceInv, StepAgrees
    <3>2. QED
      BY <3>1, CurrentTyped DEF Inv, EvidenceInv
  <2>4. QED
    BY <2>2, <2>3, DecisionAccepted
<1>2. QED
  BY <1>1, InvHolds, PTL DEF Spec, FreshIsAccepted

(* Every step of the lifecycle leaves the chain alone or appends one       *)
(* record that the chain accepts: the ledger's own specification, which    *)
(* lets any record of any role land at any moment, allows every write of   *)
(* these jobs, so what is proved of it holds of them.                      *)
THEOREM LedgerFollowed == Spec => [][LP!Next]_view
<1>1. Inv /\ [Next]_vars => [LP!Next]_view
  BY NextKeepsInv, LandedStep DEF Recorded, Inv, EvidenceInv
<1>2. QED
  BY <1>1, InvHolds, PTL DEF Spec

(* Whatever the jobs interleave and however stale what they decided from,  *)
(* the states of the authorizations move as the abstract machine allows.   *)
THEOREM StatesMoveLegally ==
  Spec => [][Ledger!Machine!Next]_([a \in Auth |-> view.auths[a].state])
<1>1. Inv /\ [Next]_vars =>
        [Ledger!Machine!Next]_([a \in Auth |-> view.auths[a].state])
  <2> SUFFICES ASSUME Inv, [Next]_vars
               PROVE  [Ledger!Machine!Next]_([a \in Auth |-> view.auths[a].state])
    OBVIOUS
  <2>1. [LP!Next]_view /\ LP!Inv
    BY NextKeepsInv, LandedStep DEF Recorded, Inv, EvidenceInv
  <2>2. [LP!Machine!Next]_([a \in Auth |-> view.auths[a].state])
    BY <2>1, LP!StepRefines, LedgerAssumptions
  <2>3. QED
    BY <2>2 DEF LP!Machine!Next, Ledger!Machine!Next, LP!Machine!Claim, Ledger!Machine!Claim,
                LP!Machine!Move, Ledger!Machine!Move, LP!Machine!LiveStates,
                Ledger!Machine!LiveStates, LP!Machine!LegalTransitions,
                Ledger!Machine!LegalTransitions
<1>2. QED
  BY <1>1, InvHolds, PTL DEF Spec

(* A first authorization's Issue, which starts from the empty ledger,      *)
(* implements the abstract state machine (a remediation's starts with its  *)
(* parent's completed chain, and only moves as the machine does).          *)
THEOREM RefinementCorrect == ~Remediation => (Spec => ImplementsStateMachine)
<1> SUFFICES ASSUME ~Remediation PROVE Spec => ImplementsStateMachine
  OBVIOUS
<1>1. Init => Ledger!Machine!Init
  BY DEF Init, Ledger!EmptyView, Ledger!Unclaimed, Ledger!Machine!Init
<1>2. Spec => Init
  BY DEF Spec
<1>3. QED
  BY <1>1, <1>2, StatesMoveLegally, PTL DEF ImplementsStateMachine, Ledger!ImplementsStateMachine,
                                            Ledger!Machine!Spec

=============================================================================
