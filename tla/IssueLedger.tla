---------------------------- MODULE IssueLedger ----------------------------
(***************************************************************************)
(* The verified fold of one Issue's signed ledger: apply_record, the rules *)
(* that decide which record may extend the chain, and the view the fold    *)
(* computes.  A record that a rule refuses is LedgerCorruptError in the    *)
(* code and leaves the view unchanged here.  Signatures, schemas and       *)
(* digests are abstracted: a digest is a member of Digest.                 *)
(***************************************************************************)
EXTENDS Naturals

CONSTANTS
  Auth,               \* authorization identities
  Run,                \* workflow run ids
  Nonce,              \* resume nonces
  Digest,             \* result, commit and head digests
  FailureCode,        \* the closed failure vocabulary
  NoAuth, NoRun, NoNonce, NoDigest,
  MaxAttempt          \* bound: the largest resume attempt a record may carry

ASSUME NullsAssumption ==
  /\ NoAuth \notin Auth
  /\ NoRun \notin Run
  /\ NoNonce \notin Nonce
  /\ NoDigest \notin Digest

ASSUME BoundAssumption == MaxAttempt \in Nat

VARIABLE view         \* the LedgerView of the whole chain

LiveStates == {"AUTHORIZED", "FALLBACK_AUTHORIZED", "RESULT_BOUND", "VALIDATED", "PUBLISHED"}

TerminalStates == {"COMPLETED", "FAILED"}

States == LiveStates \cup TerminalStates

Roles == {"authorize", "bind", "record-validation", "finalize", "reconcile",
          "candidate-pr-record", "owner-decision"}

LegalTransitions(s) ==
  CASE s = "NONE"                -> {"AUTHORIZED"}
    [] s = "AUTHORIZED"          -> {"RESULT_BOUND", "FALLBACK_AUTHORIZED", "FAILED"}
    [] s = "FALLBACK_AUTHORIZED" -> {"RESULT_BOUND", "FAILED"}
    [] s = "RESULT_BOUND"        -> {"VALIDATED", "FAILED"}
    [] s = "VALIDATED"           -> {"PUBLISHED", "FAILED"}
    [] s = "PUBLISHED"           -> {"COMPLETED", "FAILED"}
    [] OTHER                     -> {}

(* Which control role may write which target state. *)
WriterRoles(s) ==
  CASE s = "AUTHORIZED"          -> {"authorize"}
    [] s = "FALLBACK_AUTHORIZED" -> {"bind"}
    [] s = "RESULT_BOUND"        -> {"bind", "reconcile"}
    [] s = "VALIDATED"           -> {"record-validation", "reconcile"}
    [] s = "PUBLISHED"           -> {"finalize", "reconcile"}
    [] s = "COMPLETED"           -> {"candidate-pr-record", "reconcile"}
    [] OTHER                     -> Roles

ResumeRoles == {"bind", "record-validation", "finalize", "reconcile", "owner-decision"}

(* RESUME_STAGES: the state in which a stage may resume, and its cap on    *)
(* attempts (the first attempt is not a resume).                           *)
Stages == {"validation", "publication", "fallback"}

StageState(stage) ==
  CASE stage = "validation"  -> "RESULT_BOUND"
    [] stage = "publication" -> "VALIDATED"
    [] OTHER                 -> "FALLBACK_AUTHORIZED"

StageCap(stage) == IF stage = "validation" THEN 2 ELSE 3

Bug_WithinCap(stage, k) == stage = "fallback" \/ k <= StageCap(stage)

WithinCap(stage, k) == stage = "fallback" \/ k <= StageCap(stage) - 1

NoPending == [stage |-> "none", nonce |-> NoNonce, attempt |-> 0, run |-> NoRun]

----------------------------------------------------------------------------
(* Records: the fields of each kind that the rules read or the fold keeps. *)

AuthorizedRecord ==
  [kind : {"transition"}, state : {"AUTHORIZED"}, auth : Auth, role : Roles,
   run : Run, offer : BOOLEAN, parent : Auth \cup {NoAuth}, branch : Auth]

FallbackRecord ==
  [kind : {"transition"}, state : {"FALLBACK_AUTHORIZED"}, auth : Auth,
   role : Roles, agreed : BOOLEAN]

BoundRecord ==
  [kind : {"transition"}, state : {"RESULT_BOUND"}, auth : Auth, role : Roles,
   fallback : BOOLEAN, result : Digest]

ValidatedRecord ==
  [kind : {"transition"}, state : {"VALIDATED"}, auth : Auth, role : Roles,
   result : Digest, commit : Digest]

Identity == [execution : {1, 2}, result : Digest, commit : Digest]

PublishedRecord ==
  [kind : {"transition"}, state : {"PUBLISHED"}, auth : Auth, role : Roles,
   identity : Identity, head : Digest]

CompletedRecord ==
  [kind : {"transition"}, state : {"COMPLETED"}, auth : Auth, role : Roles,
   head : Digest]

FailedRecord ==
  [kind : {"transition"}, state : {"FAILED"}, auth : Auth, role : Roles,
   from : LiveStates, code : FailureCode]

RequestedRecord ==
  [kind : {"resume_requested"}, state : States, auth : Auth, role : Roles,
   stage : Stages, nonce : Nonce, attempt : 1 .. MaxAttempt]

AbandonedRecord ==
  [kind : {"resume_abandoned"}, state : States, auth : Auth, role : Roles,
   nonce : Nonce]

ResumeBoundRecord ==
  [kind : {"resume_bound"}, state : States, auth : Auth, role : Roles,
   nonce : Nonce, run : Run]

Record ==
  AuthorizedRecord \cup FallbackRecord \cup BoundRecord \cup ValidatedRecord
    \cup PublishedRecord \cup CompletedRecord \cup FailedRecord
    \cup RequestedRecord \cup AbandonedRecord \cup ResumeBoundRecord

----------------------------------------------------------------------------
(* The view: AuthorizationView per authorization, LedgerView for the Issue. *)

Pending ==
  [stage : Stages \cup {"none"}, nonce : Nonce \cup {NoNonce}, attempt : Nat,
   run : Run \cup {NoRun}]

NoIdentity == [execution |-> 0, result |-> NoDigest, commit |-> NoDigest]

(* owner is _owning_run: the last run a resume_bound record names, or the  *)
(* authorize run.  The other fields are the evidence the rules read.       *)
Unclaimed ==
  [state |-> "NONE", pending |-> NoPending, attempts |-> [stage \in Stages |-> 0],
   owner |-> NoRun, offer |-> FALSE, parent |-> NoAuth, branch |-> NoAuth,
   admitted |-> FALSE, fromFallback |-> FALSE, result |-> NoDigest,
   validated |-> NoDigest, commit |-> NoDigest, identity |-> NoIdentity,
   head |-> NoDigest, prHead |-> NoDigest]

EmptyView ==
  [claimed |-> {}, active |-> NoAuth, auths |-> [a \in Auth |-> Unclaimed]]

(* AuthorizationView.execution_id: once a fallback was admitted, only the  *)
(* attempt-2 identity can be published.                                    *)
ExecutionId(c) == IF c.admitted THEN 2 ELSE 1

----------------------------------------------------------------------------
(* The rules of apply_record, for record r against the verified view v.    *)

(* An AUTHORIZED record is never a replay and never beside a live          *)
(* authorization.                                                          *)
Bug_ClaimIsFresh(v, r) == r.auth \notin v.claimed

ClaimIsFresh(v, r) == r.auth \notin v.claimed /\ v.active = NoAuth

(* It runs on its own branch, or as the remediation of a completed parent  *)
(* on that parent's branch.                                                *)
Bug_AuthorizedBindings(v, r) ==
  IF r.parent = NoAuth
    THEN r.branch = r.auth
    ELSE /\ v.auths[r.parent].state \in States
         /\ r.branch = v.auths[r.parent].branch

AuthorizedBindings(v, r) ==
  IF r.parent = NoAuth
    THEN r.branch = r.auth
    ELSE /\ v.auths[r.parent].state = "COMPLETED"
         /\ r.branch = v.auths[r.parent].branch

(* The evidence of a record against the evidence already on the chain. *)
Bug_CrossBindings(c, r) ==
  CASE r.state = "FALLBACK_AUTHORIZED" -> c.offer /\ r.agreed
    [] r.state = "VALIDATED"           -> r.result = c.result
    [] r.state = "PUBLISHED"           ->
         r.identity = [execution |-> ExecutionId(c), result |-> c.validated,
                       commit |-> c.commit]
    [] r.state = "COMPLETED"           -> r.head = c.head
    [] OTHER                           -> TRUE

CrossBindings(c, r) ==
  CASE r.state = "FALLBACK_AUTHORIZED" -> c.offer /\ r.agreed
    [] r.state = "RESULT_BOUND"        -> r.fallback = (c.state = "FALLBACK_AUTHORIZED")
    [] r.state = "VALIDATED"           -> r.result = c.result
    [] r.state = "PUBLISHED"           ->
         r.identity = [execution |-> ExecutionId(c), result |-> c.validated,
                       commit |-> c.commit]
    [] r.state = "COMPLETED"           -> r.head = c.head
    [] OTHER                           -> TRUE

TransitionAccepted(v, r) ==
  LET c == v.auths[r.auth]
  IN  /\ r.state \in LegalTransitions(c.state)
      /\ r.role \in WriterRoles(r.state)
      /\ r.state = "AUTHORIZED" => ClaimIsFresh(v, r) /\ AuthorizedBindings(v, r)
      /\ r.state = "FAILED" => r.from = c.state
      /\ r.state \notin {"AUTHORIZED", "FAILED"} => CrossBindings(c, r)

RequestAccepted(c, r) ==
  /\ c.state = StageState(r.stage)
  /\ c.pending.stage = "none"
  /\ r.attempt = c.attempts[r.stage] + 1
  /\ WithinCap(r.stage, r.attempt)

NamesPendingNonce(c, r) == c.pending.stage # "none" /\ c.pending.nonce = r.nonce

Bug_ResumeAccepted(v, r) ==
  LET c == v.auths[r.auth]
  IN  /\ v.active = r.auth
      /\ r.role \in ResumeRoles
      /\ r.state = c.state
      /\ r.kind = "resume_requested" => RequestAccepted(c, r)
      /\ r.kind \in {"resume_abandoned", "resume_bound"} => NamesPendingNonce(c, r)

ResumeAccepted(v, r) ==
  LET c == v.auths[r.auth]
  IN  /\ v.active = r.auth
      /\ r.role \in ResumeRoles
      /\ r.state = c.state
      /\ r.kind = "resume_requested" => RequestAccepted(c, r)
      /\ r.kind = "resume_abandoned" => NamesPendingNonce(c, r)
      /\ r.kind = "resume_bound" => NamesPendingNonce(c, r) /\ c.pending.run = NoRun

Accepted(v, r) ==
  IF r.kind = "transition" THEN TransitionAccepted(v, r) ELSE ResumeAccepted(v, r)

----------------------------------------------------------------------------
(* The fold of an accepted record: FoldEvidence keeps the evidence of a    *)
(* transition, FoldTransition also consumes the pending resume, and a      *)
(* terminal transition releases the Issue's active slot.                   *)

FoldEvidence(c, r) ==
  CASE r.state = "AUTHORIZED" ->
         [c EXCEPT !.owner = r.run, !.offer = r.offer, !.parent = r.parent,
                   !.branch = r.branch]
    [] r.state = "FALLBACK_AUTHORIZED" -> [c EXCEPT !.admitted = TRUE]
    [] r.state = "RESULT_BOUND" ->
         [c EXCEPT !.fromFallback = r.fallback, !.result = r.result]
    [] r.state = "VALIDATED" -> [c EXCEPT !.validated = r.result, !.commit = r.commit]
    [] r.state = "PUBLISHED" -> [c EXCEPT !.identity = r.identity, !.head = r.head]
    [] r.state = "COMPLETED" -> [c EXCEPT !.prHead = r.head]
    [] OTHER -> c

Bug_FoldTransition(c, r) == [FoldEvidence(c, r) EXCEPT !.state = r.state]

FoldTransition(c, r) ==
  [FoldEvidence(c, r) EXCEPT !.state = r.state, !.pending = NoPending]

Bug_FoldResume(c, r) ==
  CASE r.kind = "resume_requested" ->
         [c EXCEPT !.attempts[r.stage] = r.attempt,
                   !.pending = [stage |-> r.stage, nonce |-> NoNonce,
                                attempt |-> r.attempt, run |-> r.nonce]]
    [] r.kind = "resume_abandoned" -> [c EXCEPT !.pending = NoPending]
    [] OTHER -> [c EXCEPT !.pending.run = r.run, !.owner = r.run]

FoldResume(c, r) ==
  CASE r.kind = "resume_requested" ->
         [c EXCEPT !.attempts[r.stage] = r.attempt,
                   !.pending = [stage |-> r.stage, nonce |-> r.nonce,
                                attempt |-> r.attempt, run |-> NoRun]]
    [] r.kind = "resume_abandoned" -> [c EXCEPT !.pending = NoPending]
    [] OTHER -> [c EXCEPT !.pending.run = r.run, !.owner = r.run]

ActiveAfter(v, r) ==
  IF r.state \in TerminalStates THEN NoAuth
  ELSE IF r.state = "AUTHORIZED" /\ r.kind = "transition" THEN r.auth
  ELSE v.active

Bug_ClaimedAfter(v, r) ==
  IF r.state = "AUTHORIZED" THEN v.claimed \cup {r.auth}
  ELSE IF r.state = "FAILED" THEN v.claimed \ {r.auth}
  ELSE v.claimed

ClaimedAfter(v, r) ==
  IF r.state = "AUTHORIZED" THEN v.claimed \cup {r.auth} ELSE v.claimed

Fold(v, r) ==
  [claimed |-> ClaimedAfter(v, r),
   active  |-> ActiveAfter(v, r),
   auths   |-> [v.auths EXCEPT ![r.auth] =
                  IF r.kind = "transition" THEN FoldTransition(@, r)
                                           ELSE FoldResume(@, r)]]

----------------------------------------------------------------------------
(* The ledger of one Issue: it grows by one accepted record at a time.     *)

Init == view = EmptyView

Append(S) == \E r \in S : Accepted(view, r) /\ view' = Fold(view, r)

Next ==
  \/ Append(AuthorizedRecord)
  \/ Append(FallbackRecord)
  \/ Append(BoundRecord)
  \/ Append(ValidatedRecord)
  \/ Append(PublishedRecord)
  \/ Append(CompletedRecord)
  \/ Append(FailedRecord)
  \/ Append(RequestedRecord)
  \/ Append(AbandonedRecord)
  \/ Append(ResumeBoundRecord)

Spec == Init /\ [][Next]_view

----------------------------------------------------------------------------
(* Properties.                                                             *)

AnyState == States \cup {"NONE"}

Attempts == [Stages -> Nat]

OptAuth == Auth \cup {NoAuth}

OptRun == Run \cup {NoRun}

OptDigest == Digest \cup {NoDigest}

OptIdentity == Identity \cup {NoIdentity}

AuthView ==
  [state : AnyState, pending : Pending, attempts : Attempts, owner : OptRun,
   offer : BOOLEAN, parent : OptAuth, branch : OptAuth, admitted : BOOLEAN,
   fromFallback : BOOLEAN, result : OptDigest, validated : OptDigest,
   commit : OptDigest, identity : OptIdentity, head : OptDigest, prHead : OptDigest]

(* The fold always yields a LedgerView: every field of every               *)
(* AuthorizationView stays within its type, whatever record was accepted.  *)
TypeOK ==
  view \in [claimed : SUBSET Auth, active : OptAuth,
            auths : [Auth -> AuthView]]

(* The index of the Issue agrees with the chain: the active slot holds     *)
(* exactly the one live authorization (so there is at most one), and the   *)
(* replay set holds exactly the authorizations that were ever claimed.     *)
IndexAgreesWithChain ==
  \A a \in Auth :
    /\ view.active = a <=> view.auths[a].state \in LiveStates
    /\ a \in view.claimed <=> view.auths[a].state # "NONE"

PendingMatches(c) ==
  c.pending.stage # "none" =>
    /\ c.state = StageState(c.pending.stage)
    /\ c.pending.attempt = c.attempts[c.pending.stage]

(* A pending resume belongs to an authorization in the state of its stage  *)
(* and carries the attempt that was counted for it: no transition leaves a *)
(* resume of an earlier stage behind that a late run could still claim.    *)
PendingMatchesStage == \A a \in Auth : PendingMatches(view.auths[a])

WithinBudget(c) == c.attempts["validation"] <= 1 /\ c.attempts["publication"] <= 2

(* The resume budget: over the whole life of an authorization at most one  *)
(* validation resume and two publication resumes are ever recorded,        *)
(* abandoned ones included ("the attempt stays consumed").                 *)
ResumeBudget == \A a \in Auth : WithinBudget(view.auths[a])

ResultStates == {"RESULT_BOUND", "VALIDATED", "PUBLISHED", "COMPLETED"}

OneLineage(c) ==
  /\ c.state \in ResultStates => c.fromFallback = c.admitted
  /\ c.state \in ResultStates \ {"RESULT_BOUND"} => c.validated = c.result
  /\ c.state \in {"PUBLISHED", "COMPLETED"} =>
       c.identity = [execution |-> IF c.fromFallback THEN 2 ELSE 1,
                     result |-> c.result, commit |-> c.commit]
  /\ c.state = "COMPLETED" => c.prHead = c.head

(* The evidence of a successful authorization is one lineage: the bound    *)
(* result came from the admitted attempt, the validated result is the      *)
(* bound one, the publication identity names that attempt, result and      *)
(* commit, and the completed pull request is at the published head.        *)
EvidenceLineage == \A a \in Auth : OneLineage(view.auths[a])

(* Two authorizations of the Issue share an execution branch only along a  *)
(* remediation chain, and every authorization a remediation builds on is   *)
(* completed: no two runs ever publish to one branch for two tasks.        *)
BranchLineage ==
  \A a \in view.claimed :
    LET c == view.auths[a]
    IN  IF c.parent = NoAuth
          THEN c.branch = a
          ELSE /\ view.auths[c.parent].state = "COMPLETED"
               /\ c.branch = view.auths[c.parent].branch

(* What a step may never do: a terminal authorization never changes again, *)
(* not even by a resume record, and a claimed identity is never released.  *)
TerminalIsFinal ==
  [][ /\ view.claimed \subseteq view'.claimed
      /\ \A a \in Auth : view.auths[a].state \in TerminalStates =>
                           view'.auths[a] = view.auths[a] ]_view

(* The fold implements the abstract state machine of the Issue. *)
Machine == INSTANCE IssueStateMachine WITH st <- [a \in Auth |-> view.auths[a].state]

ImplementsStateMachine == Machine!Spec
=============================================================================
