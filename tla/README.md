# A TLA+ development of the Project-Hunter issue agent

Project-Hunter is a Python system with two halves: engines that score crypto projects (pure computations over stored
evidence), and an automation half that lets an *issue agent* turn an owner-labelled GitHub Issue into a validated
commit and a Draft pull request. The second half is a distributed protocol: short-lived GitHub Actions jobs, a cron,
a Mac runner and the owner, who share nothing but a signed ledger in a git branch and what the GitHub API shows. This
directory models that protocol, the authority history and the knowledge loop it stands on, and the automation scheduler,
checks them with TLC and proves the safety of the ledgers, the lifecycle, the authority history and the scheduler with TLAPS.

Paths below are relative to the repository; `state.py`, `control.py`, `roles.py`, `authorize.py`, `knowledge.py` stand
for `src/hunter/automation/issue_agent_<name>.py`, *lifecycle script* for `scripts/hunter_issue_agent_lifecycle.py`, and
*trigger*, *reconcile*, *candidate-pr* for the workflows `.github/workflows/hunter-issue-agent-<name>.yml`.

## 1. Inventory

### Components that carry protocol state

| Component | State it keeps | Operations | What makes it correct |
|---|---|---|---|
| Issue ledger (`state.py`) | one append-only chain of signed records per Issue, folded into a `LedgerView` (active authorization, used identities, one `AuthorizationView` each) | `apply_record`, `verify_chain` over ten record kinds: seven transitions, three resume records | one live authorization; a terminal one is final; evidence of a success is one lineage; resume attempts stay within `RESUME_STAGES`; branches shared only along remediations |
| Ledger store (`GitLedgerStore` in `state.py`) | head of a git branch per ledger | `read_files`, `append_files` (commit on the expected parent, leased push, read-back) | an acknowledged write is never lost; the branch only grows; concurrent writers settle |
| Decision (`advance` in `state.py`) | none: a function of a view and of observed facts | `advance`, `_resume_or_fail`, `_fallback_decision`, `_fallback_admissible` | at most one step per call; a missing outcome is retried within its cap, then fails; a rollback is frozen |
| Control step (`control.py`, lifecycle script) | none between jobs; inside a job: loaded view, facts, decided record | `step`, `observe`, `Ledger.append`, `bind_resume`, `owner_decision`, `_dispatch_resume` | a record decided from stale facts is harmless; a lost write or dispatch is recovered; the lifecycle comes to rest |
| Workflows (*trigger*, *reconcile*, *candidate-pr*) | job graph of every run, artifacts, concurrency groups | `authorize`, `execute`, `bind`, `validate`, `record-validation`, `publish`, `finalize`, `resume-bind`, `execute-fallback`, `bind-fallback`, `fallback-decision`, the cron, `candidate-gate`, `open-draft-pr`, `record` | a model runs once per admitted attempt; two runs never execute one resume |
| Executor, validator, publisher (`roles.py`, `issue_agent_replacement_executor.py`) | the run's artifacts; the execution branch | `run_executor`, `run_validator`, `run_publisher`, `publish_bound_create_only`, `publish_bound_fast_forward` | only the validated commit reaches the branch; no head is overwritten |
| Authorize (`authorize.py`) | the claim; Source Handling records before it | `prepare`, `commit` | claim and model release are one record; only a completely classified document is claimed |
| Knowledge ledger (`knowledge.py`) | findings, families, proofs and reviews in a ledger branch | `append` of an insert-only batch; fold | nothing recorded twice or contradicted; a stopped batch can be repeated |
| Source Handling ledger (`issue_agent_source_handling_store.py`) | one transaction per commit, each a delta of the handling tables | `materialize`, `capture`, `publish`; `scripts/provision_source_handling_issue_authority.py` | however batches break off, the ledger replays and the next batch can build on it |
| Source Handling authority (`evidence_intelligence/source_handling*.py`) | records of rules, facts, registries and policies, the head of each scope, issued authorizations | `issue_authorization`, `publish`, resolution at a cutoff, Issue Source intake | a chain per scope; nothing under a superseded rule; every record verifies for ever; an intake sees the newest restriction |
| Remediation loop (`issue_agent_remediation.py`, `control.py`, lifecycle script) | none; the two ledgers and the review threads | `cmd_knowledge_ingest`, `cmd_remediate`, `_record_proven_classification`, `cmd_resolve` | requests before dispatches, within both budgets; a thread is resolved only by the proof at its head |
| Automation scheduler (`automation/scheduler.py`, `runner.py`, `locking.py`, `lifecycle.py`, `persistence.py`) | job runs and their state records, an in-process lock table | `run_once`, `run_due`, `start`, `recover`, `cancel` | a one-time job executes once; overlapping execution is blocked; a restart recovers |
| Execution plane, issuer, provisioner, legacy fallback, n8n hand-off | requests, nonces, canaries | request minting and hand-off | a request is used once |
| Review orchestrator, merge readiness, governance scripts (`scripts/hunter_*.py`) | none of their own | decisions over pull-request facts | the decision follows the exact head |

### Components without protocol state

The pipeline and the intelligence, valuation, comparative-valuation, market and scenario engines are numerical and
pure; acquisition and discovery are HTTP collectors; executor isolation (containers, Mac session, sandbox) is operating
system I/O; the rest of evidence intelligence compiles prompts; dashboard and command line present results. None is modelled.

### How they interact

* **Ledger.** Every control job loads the chain, verifies it, decides, loads it *again* inside `Ledger.append`, signs
  one record and pushes it by compare-and-swap. There is no other lock between the label run, resume runs, reconcile,
  candidate workflow and owner decision.
* **Dispatch.** A resume is a record with a fresh nonce followed by a `workflow_dispatch` carrying it. The dispatched
  run claims the nonce with a `resume_bound` record before it works. A dispatch that shows no run within the grace
  period is repeated with the same nonce.
* **API facts.** Jobs learn of each other from job status, artifacts, branch head, pull requests and preflight
  conclusions, read one after the other. The executor's outputs are visible only to the `bind` job of its own run.
* **Knowledge.** Reviewers' threads become findings, findings remediation authorizations that enter the same lifecycle, and a
  published remediation the proof that resolves the thread. Four jobs append to one knowledge ledger.
* **Source Handling.** `prepare` replays the anchored ledger into a private database, provisions there, and `commit` appends the
  captured transactions before it claims: two ledgers, no transaction over both.
* **Branch.** The publisher pushes under a lease; the preflight of the pushed head triggers the candidate workflow.

### What is hard

Decisions on stale facts; two jobs deciding on the same conclusion with different knowledge; a lost write, dispatch or
acknowledgement; a delayed push or run; a job that dies between two steps; several runs with one nonce; a deadline racing
a late publication; a stopped batch, and another built on top of it; a clock that stands still or steps back; configuration
that changes over a restart; and termination in spite of it all. `PROJECT.json` lists each hazard at its line.

## 2. Modules

| Module | Models | Extends / uses |
|---|---|---|
| `IssueStateMachine` | abstract specification: an Issue has at most one live authorization, claimed once, moved along `LEGAL_TRANSITIONS`, final when terminal | - |
| `IssueLedger` | the fold: record kinds and rules of `apply_record`, one `Append` of any record any role could sign | instantiates `IssueStateMachine` |
| `IssueLedgerProofs` | inductive invariant and theorems about `IssueLedger` | `IssueLedger`, TLAPS |
| `IssueAgentDecision` | `advance` and its helpers as operators, and the record each decision signs (`_evidence`) | `IssueLedger` |
| `IssueAgentLifecycle` | one authorization end to end: every job of the three workflows, the control step in its separate stages, faults and time | instantiates `IssueAgentDecision` |
| `LedgerStore` | `GitLedgerStore` under `knowledge.append`: git commands of concurrent writers, lost and late pushes | - |
| `SourceHandlingProvisioning` | the authorize job between the two ledgers: what it provisions for one document, batch by batch, and the claim | - |
| `SourceHandlingAuthority` | the SQLite authority history: publishers, an intake, a resolver and the clock | - |
| `KnowledgeLoop` | review thread, finding, remediation, proof and resolution over one knowledge ledger | - |
| `AutomationScheduler` | passes of the scheduler over durable run records | - |
| `IssueAgentLifecycleProofs` | inductive invariant and theorems about `IssueAgentLifecycle`, on those of the ledger | `IssueAgentLifecycle`, `IssueLedgerProofs`, TLAPS |
| `LedgerStoreProofs`, `SourceHandlingProvisioningProofs`, `SourceHandlingAuthorityProofs`, `KnowledgeLoopProofs`, `AutomationSchedulerProofs` | inductive invariant and theorems about the module each is named after | that module, TLAPS |
| `MCIssueLedger`, `MCLedgerStore`, `MCIssueAgentLifecycle`, `MCSourceHandlingAuthority` | sets, batches, fault lists and symmetry for TLC | the modules above |

Operators named `Bug_X` are plausible mistakes in `X`; no specification uses them. They exist so that each property can be
seen to fail when the code it is about is changed.

### `IssueLedger`: correspondence

`view` is `LedgerView`: `active`, `claimed` (the replay index) and `auths[a]` (`AuthorizationView`). A view of an unclaimed
identity has state `NONE`. A digest, run, nonce or identity is an element of a constant set; signatures, provenance, schemas
and sequence numbers are abstracted (an unsigned or malformed record is never appended). `Accepted` is `apply_record`'s list of
refusals, in conjuncts named for the check; `Fold` is its result. `Append` enumerates **every** record of `Record`,
whether or not some decision would write it: the fold must protect the view from any signing writer.

### `IssueAgentDecision`: correspondence

`Advance(c, f)` takes the view and a record of facts. Facts are definite: an indefinite read raises `FactsUnavailable`
before `advance` is called and the job ends as a no-op. Deadlines and grace are Boolean facts. `RecordOf` is `_evidence`
with the three resume records of `step`, `MayWrite` the writer-role check that leaves a record to another observer.

### `IssueAgentLifecycle`: correspondence

| Variable | In the code |
|---|---|
| `view` | the Issue's ledger |
| `runs[r]` | a workflow run: its current job, whether `validate` succeeded, the executor's outputs, its result artifact |
| `outcomes` | receipts and refusals that `validate` and `publish` uploaded, named by run, stage and attempt |
| `starts` | history: how often each model and each stage job was started |
| `branch`, `pr`, `preflight` | what GitHub shows of the execution branch, its Draft pull request, the exact-head preflight |
| `candidate` | current job of the candidate-PR workflow |
| `overdue`, `graceOver` | the deadline of the current stage, the grace of the pending dispatch |
| `ctl[a]` | where the control step of actor `a` is: `seen` (ledger, branch, clock read), `append`, `reload`, `dispatch` |
| `faults` | faults used so far (bounded by `MaxFaults`) |

A `step` is four actions so that anything may happen between them: `Load` (the ledger, then clock, branch and pull request),
`Decide` (the remaining facts, `advance`, the record), `Append` (`Ledger.append` on a freshly verified chain) and `Dispatch`.
`publish` is two actions, `PublishCheck` and `Push`. `AppendUnknown` is a push whose acknowledgement is lost: the record
is on the chain or not, and the step ends without dispatching. `JobDies` ends any job at any of these points.

Choices worth knowing:

* `Load` reads ledger, branch and pull request in one action. A write between these reads can only make the step see a
  branch its old ledger does not explain, which freezes it: nothing is written and the job fails, as `JobDies` models.
* A `Ledger.append` that loses the compare-and-swap to a writer between its own load and push is `AppendUnknown` without
  the record. It is therefore counted as a fault.
* In a run whose events include dead jobs but not lost dispatches, the job that dies at `dispatch` is the lost dispatch.
* An executor job that dies may or may not have launched its model; `starts` counts both. A refused handoff ends the job
  like a death before the launch. Uploads are the last step of their job, so a death after an upload is left out.
* A `corrupt` result is one whose envelope does not open under its binding: it fails the authorization at `bind`.
* In a remediation the parent's completed chain, branch and pull request exist from the start (`CompletedParent`).
* The Issue-gate refusals of `run_publisher` are the permanent refusal `PublishRefused`.

### `LedgerStore`: correspondence

A commit names its parent, so a commit *is* the sequence of entries from the root. `Begin`/`Fetch` are `read_files`, `Observe`,
`Push`, `ReadBack` the stages of `append_files`, `Finish`/`Succeed` the loop of `knowledge.append`. Where the loop stands is a function
of the chain the writer knows: `IsNext` is the first write of its batch that is not on it. `PushFails` keeps the push in
`late`, from which `Deliver` may apply it whenever its lease still holds. `recorded_at` is one of `Stamp`: two attempts of
one job in the same second sign the same bytes, and a head that is exactly those bytes is success.

### `SourceHandlingProvisioning`: correspondence

`ledger[d]` is what the anchored branch holds of document `d`: six provenance heads (evidence and verifier of each family), the
fact and policy heads, one registry per authorization name, and the publication authorizations issued and consumed. `Prepared` is
`prepare`: `materialize`, `_run` of the provisioning script with its batch of up to twelve transactions, and the positions of both
ledgers. `Publish` appends one transaction, `Claim` is the rest of `commit`, `Interrupted` a death or a failed push whose commit
`Deliver` may still apply. `Blocked` collects the refusals of `_run`.

* An Issue body is one document, so a relabel or a remediation provisions the same one. An edited body would be another document.
* A batch is a set of transactions, committed in the order of `Place`, in which `_run` makes them: six provenance records, then
  authorization and publication of each family.
* `prepare` reads the clock once: its samples of `datetime.now` within one job are not told apart.
* The authorization rule is fixed here; it changes in `SourceHandlingAuthority`. Classification options are those of the workflow,
  constant per document. `source_handling_issue_revision_batches` is not replicated to the ledger, so the batch check of `_run`
  always sees an empty table and is left out.
* `Fairness` on `Label` stands for an owner who labels again as long as no document was claimed and nothing is queued.

### `SourceHandlingAuthority`: correspondence

`history` is `source_handling_authority_records` in commitment order, `heads` the canonical keys; a record is named by its place.
`Begin` stamps a candidate and reads the head it supersedes; `Issue` is the rest of `issue_authorization` up to the registered
authorization; `Publish` is the one write transaction of `_publish`, whose checks are `HeadUnchanged`, `StrictKnownRule`,
`Admissible` and `InWindow`. `StrictKnownHead`, `Verifies`, `CanonicalHead` and `Authority` are the resolver at a cutoff. The
genesis and one provisioning have happened (`Init`). Signatures, digests and provenance records are left out: the histories of
this module are the ones that genuine publishers can write, and `NeverTampered` says that the integrity checks accept them.
`RuleVerifies` follows the walk of `verify_canonical_record` from a rule to the genesis as the set of rules on the way.
The stamping of `Begin` and its read of the head are one instant, because `issue_authorization` compares the head again.

### `KnowledgeLoop`: correspondence

`entries` is the knowledge ledger of one pull request, `job[j]` what `knowledge-ingest`, `remediate`, `record-validation` and
`resolve-finding` are doing: the batch left to append, the ledger as they read it, and the step that follows. `late`
holds what dead jobs pushed and the server may still apply (`Deliver`), while no other push has landed. An
authorization is its claims, as in `remediation_authorization` with the Issue's `updated_at` fixed. `Folds` and `Refused` are
`_fold` and `apply`. GitHub is the head, the green heads and the threads.

* A batch is a set of records, taken in the order of `Before`: one kind per finding, findings in order.
* Findings have distinct fingerprints; recurrences, family candidates, promotions and deterministic *matched* classifications are
  left out, and other pull requests append nothing. The first head is green and published.
* `Claim`, `Validate`, `PublishFix`, `Complete` and `Fail` are the lifecycle as ADR 0039 means a remediation to take it. The run
  `remediation` shows what becomes of one as the code stands: without that assumption the loop stops at `Claim`.

### `AutomationScheduler`: correspondence

`durable` and `session` are the `automation-run` records on disk and in the session of the pass; a record is a run in a state, since
no state replaces another. Only `scheduled` and final states are ever saved. `Start` is `start` with `recover`, `Begin`, `Finish`
and `Cancel` are `run_once` and `cancel_by_id`, `Commit` the one commit of `run_data_ops_now`. Run identities do not repeat.

`locks` is the set of keys of `InProcessAutomationLock`, which has no owners: `release` discards the key whoever acquired it. A job of
`Overlapping` (`prevent_overlapping = False`, `models.py:87`) acquires nothing and is never blocked (`runner.py:62`), and its `finally`
releases the key all the same if it is held. `OtherBegins` and `OtherEnds` are the acquire and the `finally` of a second runner
with the same lock object; its records are left out, its runs are not cancelled, and it dies with the process. A job's policy does not
change with the configuration.

## 3. Runs

All runs finish; deadlock checking is off because an authorization, or a faultless history, really ends.

| Run | Question | Instance |
|---|---|---|
| `ledger` | Can any sequence of signable records make pending resume, attempts and evidence disagree, a second authorization live, a terminal one change, or a branch be shared outside a remediation chain? Does the fold implement `IssueStateMachine`? | 2 authorizations, 1 run, 2 nonces and digests, attempts to 3; at most one of the two authorizations is resumed |
| `store` | With a lost, late or killed push, is every acknowledged write kept, nothing duplicated, every batch settled? | 2 writers, batches of 2 and 3 writes over 3 keys with one contradiction, 1 fault |
| `races` | Whatever interleaves, dispatches that show up late included: published implies validated, completed is real, launches and stage jobs within their caps, no head replaced, only overtaken records refused, and `IssueStateMachine` followed? | 2 runs per nonce, 1 approval, refusals, a foreign push, a control commit off main, 1 lost write, lost dispatch or dead job |
| `recovery` | Does every lifecycle come to rest, fallback included? | 2 dead jobs, refusals, a control commit off main, expiring artifacts, a deadline that may pass |
| `provisioning` | However batches break off or land late: does the ledger replay, is only a complete classification claimed, one claim live at a time, and one made in the end? | 1 document, 2 labels and up to 5 retries, 1 remediation, 2 faults |
| `authority` | Whatever publishers, rule changes and the clock do between reads and writes: does the history stay a chain that verifies for ever, and does the intake see its end? | 2 publishers, 2 registries, 6 records, 2 instants, windows of 2 |
| `knowledge` | Do four jobs on one knowledge ledger keep it insert-only, request before they dispatch, stay within both budgets, and resolve only what was proven? | 2 findings, one ambiguous; 2 heads; budgets of 2 per finding and 2 in all; 1 death, push in flight or lost answer |
| `scheduler` | Over restarts, crashes and changed configurations: does a one-time job have one execution on record, and what can make executions of one job overlap? | 2 jobs, one of them one-time and allowed to overlap; 2 runners; 3 passes, 4 runs, 2 faults |

The violation runs each show one place where the code does something its documentation excludes:

| Run | Property | What happens |
|---|---|---|
| `remediation` | `Settles` | the parent's branch and pull request make `advance` freeze the remediation in its first state, for ever |
| `relaunch` | `ModelRunsOnce` | an abandonment decided on a first copy of the approved run lands on the claim of the second, which has launched Codex; the owner is asked again and approves a second launch |
| `interrupted_batch` | `InterruptedBatchResumes` | a successor batch breaks off; the relabelled Issue is younger than the instant it resumes at, and every later authorization of the document is refused |
| `restart` | `RecoveryCompletes` | `recover` blocks a run a second time with another warning under the same record identity, and the identity conflict ends the start. The run was blocked first as an overlap (`runner.py:63`; TLC's trace, no configuration changes in it) or by a recovery under another configuration |

### Met while modelling, without a run

The lifecycle model also reaches these states, which documents of the repository exclude or do not mention; no property is about
them, and the properties above are stated so that they hold beside them:

* A reconcile that reads the concluded fallback job before `bind-fallback` does, without that job's outputs, fails an authorization
  whose fallback never started (ADR 0041 promises the return to pending).
* A deadline failure decided before a publication resume was claimed lands while the publish job is active; a step that read the
  branch before the push and the job status after it fails an authorization whose commit is published.
* A writer whose push won but behind which another writer pushed before the read-back reports a lost compare-and-swap.
* A lost remediation dispatch has consumed its attempt: the next pass mints another identity, not the same one.
* A review thread is answered for a head that moved after `exact_head_proof` had looked: `resolve_thread` does not look again.
* Overlapping executions that `docs/AUTOMATION_AND_SCHEDULER.md:73` excludes: a run is cancelled and goes on, its key is free, the
  other runner begins the same job; the `finally` of the cancelled run (`runner.py:115-118`) releases the *other's* key, and the next
  pass begins the job a third time. Now two runs execute at once and neither was cancelled. `OverlapNeedsCancel` is what
  remains true.

### Properties, in words

* `PendingMatchesStage`: a pending resume belongs to the current state and to the counted attempt; `ResumeBudget`: resumes
  stay one below the cap (the first attempt is not a resume); `EvidenceLineage`: result, receipt, commit, head and pull
  request of one authorization come from one executor attempt, the fallback's only if it was admitted.
* `IndexAgreesWithChain`, `BranchLineage`, `TerminalIsFinal`: the Issue-wide counterparts.
* `AckedIsDurable`, `InsertOnly`, `ForwardOnly`, `EventuallySettled`: the store.
* `OneLaunchPerApproval`, `PublishedIsValidated`, `CompletedIsReal`, `StageBudget`, `NothingOverwritten`, `Settles`: the lifecycle, each
  relating the ledger to what really happened outside it (`starts`, `branch`, `pr`, `outcomes`). `ModelRunsOnce` is what ADR 0041
  states instead of `OneLaunchPerApproval`; with one approval the two agree, with a second they do not (`relaunch`).
* `FreshIsAccepted`: `advance`, `_evidence` and `apply_record` agree, so that a record the chain refuses was overtaken by another
  writer. `Ledger.append` raises on a refusal, which ends the job, and a reconcile pass with every Issue after it.

* `Replayable`: a transaction that lands obeys the mutation discipline of its table, so that `materialize` never reports a
  tampered ledger; `RecoverableShape`: no sequence of interruptions leaves heads that a later provisioning calls inconsistent;
  `ClaimedIsClassified`, `ClaimsExclude`, `FirstClaim`: the claim beside it.
* `NeverTampered`, `RuleWasHead`, `StaysVerifiable`: what may be in an authority history; `IntakeUnderCurrentAuthority`,
  `SettledCutoffIsStable`: what may be read from it. Only a cutoff at or before the newest admission is stable: one that is
  ahead of every admission may still see a record admitted at that very instant.
* `OneRecordPerKey`, `RequestedFirst`, `BudgetHolds`, `ProofFirst`: the knowledge ledger against GitHub and the authorizations.
* `OnceRunsOnce` is about executions on record: a pass that dies before its commit leaves none, and its jobs run again.
* `OverlapNeedsCancel`: no key is ever released under a running execution, although no release asks for the owner, as long as no run of the
  job was cancelled.

`Settles` needs no deadline before `PUBLISHED`: the fairness below lets only the completion window close.

### Bounds, and why they are enough

* Record fields are compared only for equality, so two digests, nonces and runs show every mismatch; a third value behaves
  like one of the two. `MaxAttempt = 3` lets a record carry attempts up
  to the publication cap and past the validation cap, so that both refusals occur.
* `MaxCopies = 2`: one duplicate wins the claim and the other loses; every further duplicate loses in the same way.
* `MaxFallback`: 1 where everything interleaves; 2 in `relaunch`, because a second approval is the first that could relaunch. The
  fallback stage has no cap in the code. `OneLaunchPerApproval` is proved for every value.
* `MaxFaults`: one fault in the runs that also allow every interleaving, two where termination is asked, so that the recovery
  of a recovery is included. The theorems of section 4 hold for every
  value of the constants, `MaxFaults` and `Events` included.
* Two writers, publishers or findings are enough for every race of a compare-and-swap or a batch: a loser cannot tell who won.
* `OneResumes` in `ledger` leaves out the histories in which *both* authorizations resumed: resume records change nothing but the
  view they belong to, and no rule reads the attempts of another authorization.
* `MaxLabels + MaxRetries` in `provisioning` exceeds two faults and the claims between them, so that `FirstClaim` is never
  satisfied or excused by the bound alone.
* In `authority` a clock that stands still or moves between 4 and 5 meets admissions up to 6, behind it, at it and ahead of it; two
  records beyond the provisioned four let a rule change between a candidate and its publication, and a restriction be released.
* `MaxPerPR = 2 < 2 * MaxPerFinding` lets the budget of the pull request end a batch that the budget of a finding allows.

### Fairness, and why the code justifies it

`WF(Progress)`: GitHub starts queued jobs and runs their steps, the grace period passes, and the 24-hour completion window
closes once `PUBLISHED`. `WF(Control("reconcile"))`: the cron of *reconcile* (`17,47 * * * *`) fires again and again and each
pass runs to its end. Nothing is assumed of the owner, of faults or of the earlier deadlines. `Progress` is one condition
because everything in it happens finitely often. In `recovery` the cron fires only while no run executes (no
`"busy cron"`), which leaves out harmless passes and keeps the state space small. The busy cron runs in `relaunch` and `remediation`, and
the theorems about the lifecycle hold with it.
`SourceHandlingProvisioning` assumes that GitHub starts queued jobs, that a job runs on unless it dies, and that the owner
labels again while nothing came of a label. `LedgerStore` assumes weak fairness of each writer's steps: a started job runs on, and the schedule starts it again.

## 4. Proofs

Seven modules prove theorems, each about the specification of one module, for every value of its constants. What a theorem assumes of
the constants is the `ASSUME` of that module, which TLC evaluates in every run of it. Each proof has the same shape: a
constant-level layer of lemmas about the data (one record, one document, one chain), an inductive invariant `Inv` that ties the
variables together by it, one lemma per action, and theorems that follow by temporal induction (`InvHolds`).

| Module | Theorem | Property |
|---|---|---|
| `IssueLedgerProofs` | `TypeCorrect` | `TypeOK` |
| | `IndexCorrect` | `IndexAgreesWithChain` |
| | `PendingCorrect` | `PendingMatchesStage` |
| | `BudgetCorrect` | `ResumeBudget` |
| | `LineageCorrect` | `EvidenceLineage` |
| | `BranchCorrect` | `BranchLineage` |
| | `FinalCorrect` | `TerminalIsFinal` (action property) |
| | `Refinement` | `ImplementsStateMachine`: every accepted record is a legal claim, a legal move or a stutter of `IssueStateMachine` |
| `IssueAgentLifecycleProofs` | `InvHolds` | the inductive invariant |
| | `PublishedCorrect` | `PublishedIsValidated` |
| | `CompletedCorrect` | `CompletedIsReal` |
| | `LaunchCorrect` | `OneLaunchPerApproval` |
| | `BudgetCorrect` | `StageBudget` |
| | `OverwriteCorrect` | `NothingOverwritten` (action property) |
| | `FreshCorrect` | `FreshIsAccepted` (action property) |
| | `LedgerFollowed` | every step is one of `IssueLedger`, or leaves the chain alone |
| | `StatesMoveLegally` | every step is one of `IssueStateMachine`, or a stutter of it |
| | `RefinementCorrect` | `ImplementsStateMachine`, unless the authorization is a remediation |
| `LedgerStoreProofs` | `ForwardCorrect` | `ForwardOnly` (action property) |
| | `AckedCorrect` | `AckedIsDurable` |
| | `InsertOnlyCorrect` | `InsertOnly` |
| `SourceHandlingProvisioningProofs` | `TypeCorrect` | `TypeOK` |
| | `ReplayCorrect` | `Replayable` |
| | `ClassifiedCorrect` | `ClaimedIsClassified` |
| | `RecoverableCorrect` | `RecoverableShape` |
| | `ExcludeCorrect` | `ClaimsExclude` (action property) |
| `SourceHandlingAuthorityProofs` | `TypeCorrect` | `TypeOK` |
| | `TamperCorrect` | `NeverTampered` |
| | `RuleCorrect` | `RuleWasHead` |
| | `VerifiableCorrect` | `StaysVerifiable` |
| | `IntakeCorrect` | `IntakeUnderCurrentAuthority` |
| | `CutoffCorrect` | `SettledCutoffIsStable` |
| `KnowledgeLoopProofs` | `TypeCorrect` | `TypeOK` |
| | `OneRecordCorrect` | `OneRecordPerKey` |
| | `RequestedCorrect` | `RequestedFirst` |
| | `BudgetCorrect` | `BudgetHolds` |
| | `ProofCorrect` | `ProofFirst` |
| `AutomationSchedulerProofs` | `TypeCorrect` | `TypeOK` |
| | `OnceCorrect` | `OnceRunsOnce` |
| | `OverlapCorrect` | `OverlapNeedsCancel` |

**`IssueLedger`.** Assumed: the null values are outside their sets (`NullsAssumption`), `MaxAttempt` is a natural number.
`Inv == TypeOK /\ IndexAgreesWithChain /\ (every view is Sound) /\ BranchLineage`. `Sound` collects what
holds of one authorization: `PendingMatches`, `WithinBudget`, `OneLineage` and `AdmissionTracked`. The last is the strengthening:
`EvidenceLineage` says a fallback's result was admitted, which is preserved at `RESULT_BOUND` only because the state a view is in
records whether the fallback was admitted. One lemma per record kind (`AuthorizedSound` ... `ResumeBoundSound`) shows that the fold
carries a sound view to a sound view; `UpdatePreserves` and `ClaimPreserves` lift that to the whole ledger.

**`IssueAgentLifecycle`.** Assumed: the bounds are natural numbers, `MaxCopies` positive. The theorems hold for every set of events, so also
with a busy cron, deadlines, expiring artifacts and any number of faults, approvals and runs per nonce, and for remediations.
`Inv == RunsTyped /\ StepsPlaced /\ EvidenceInv /\ LaunchInv`; none of the properties is inductive alone:

* `EvidenceInv` includes the invariant of the ledger (`LP!Inv`), which each landing keeps by a lemma of `IssueLedgerProofs`. A record waits in a
  control step while others write, so what has to be preserved is that it is `Truthful`: whatever it says of a validation, the branch
  or the pull request is so, and *stays* so, since the branch is only ever given the validated result (`WorldAgrees`), uploads are never
  withdrawn and a pull request is opened at the branch. A stale record that the chain still accepts can therefore do no harm.
* `RunsTyped` and `StepsPlaced`: the jobs a run can be in, one resume run at a time, and the control step of a run belongs to its job.
* `LaunchInv` counts. A run that works on a nonce is the only one and nobody can claim that nonce any more (`OneClaim`); the first
  attempt at the stages belongs to the one run whose `bind` recorded the result (`OneBearer`, which rests on the exact meaning of the
  `result_bound` output); and each start of `validate` and `publish` has used up the first attempt or one nonce of its stage for good
  (`ValidationCounted`, `PublicationCounted`), of which there are as many as the cap.

`FreshCorrect` goes through the branches of `advance` beside the rules of `apply_record`, for any facts at all. `RefinementCorrect` is for a
first authorization: a remediation starts with its parent completed, which is no initial state of the abstract machine, so for it
`StatesMoveLegally` states the steps.

**`LedgerStore`.** Assumed: batches are sequences of writes and there is a stamp. `AckedIsDurable` rests on what a push is: an
extension of the chain it leases by one entry (`Extends`), for the push about to be made (`PushIsDue`) and for every late one
(`LateExtends`). A late push that lands finds its own parent at the head, so it extends it; an acknowledged chain was the head at the
read-back. `InsertOnly` needs that every chain a writer holds or a late push leases has distinct keys.

**`SourceHandlingProvisioning`.** Assumed: the bounds are natural numbers and `NoAuth` is no authorization. The constant-level part is
about one prepared job on one document: provenance is recorded in one order, so what a document has of it is a beginning
(`InOrder`); what a batch has left is absent or carries one earlier instant, and whatever it has recorded over that instant is a successor
(`EvidenceOK`); its publications are not yet made, and what is not left heads its family (`PublicationOK`).
`PrepareIsSound` establishes these from the refusals of `Blocked`, `TransactionStep` shows that each transaction replays and leaves them
so, `EvidenceRecoverable` that a document in such a state is recoverable, `DoneIsClassified` that an empty batch is a complete
classification. `Inv` carries them to the branches by `Anchored`: *if* the position of a pending job (running or late) is the head of the
Source Handling ledger, its document is the one the job extends; *if* its version is the head of the Issue ledger, no authorization is
live and its own is not claimed. Any commit or claim of another job makes that premise false for good.

**`SourceHandlingAuthority`.** Assumed: the bounds are natural numbers, there is a registry and no registry is called like another
family. `HistoryOK` says that admissions grow strictly, and that each record names the rule that was the head at the instant it was
stamped; `ChainsOK` that a canonical head is the last of its linear chain. `HeadIsHeadIn` restates the resolver over a history as a
constant, so that its result before and after an append can be compared (`HeadIsStable`): a record admitted after a cutoff is not eligible at it.
`HistoryGrows` shows that an append keeps both, and `RulesVerify` finds the way of every rule back to the genesis in it.

**`KnowledgeLoop`.** Assumed: findings are a finite set of positive numbers, the bounds are natural numbers, there is a head. A job's state is
judged beside the ledger: `JobOK` says that `remediate` holds or has written the request of every finding of its authorization, and
`resolve` the proof of the finding it answers; `LateOK` that a push still under way would be admitted by the ledger it leases;
`Stands` that a proven record keeps saying what is so, since authorizations never lose the head they pushed (`Grows`). The budget of a
finding bounds the *authorizations* because each one delivered owns a request of that finding, with an attempt no other has.

**`AutomationScheduler`.** Assumed: the jobs are a finite set, not empty, and `Once` and `Overlapping` are parts of it. `OnceRunsOnce` counts runs on
record; the invariant says that all outcomes of a one-time job are of one run, and that a one-time job in flight has none in the session of the pass
(`FlightIsFirst`), because `_completed_one_time` looked at that session and nothing else runs meanwhile. `OverlapNeedsCancel` needs `KeyIsKept`: until
a run of the job is cancelled, each of its executions holds the key and there is one, so that a `finally` can only meet the
key of its own run. The cancellation stays on record because a session begins with what is durable (`BetweenPasses`).

**Corrections the proofs brought.** The order of the conditions in `AuthorityAt` was a CASE with overlapping guards, of which TLA+ may pick any;
it is the chain of conditionals of `_run` now. The scheduler needs a job for its idle flight to be typed (`Job # {}`).
The rule walk of `SourceHandlingAuthority` and the batches of the two ledger clients are sets now rather than
recursive functions and sequences, with the same reachable states. The lifecycle took three:
`result_bound` is set by the transition to `RESULT_BOUND` alone (in the model a resume record written in that state set it too);
`NothingOverwritten` has to except the parent's head that a remediation fast-forwards; and the induction for `ModelRunsOnce`
fails at an abandonment that meets a claim, which is the run `relaunch`.

**Only model-checked.** All liveness (`EventuallySettled`, `FirstClaim`, `Settles`, and the violated `RecoveryCompletes`): the prover handles
neither fairness nor `ENABLED`. Every invariant and every action property of the passing runs is stated by a theorem.
`ImplementsStateMachine` of a remediation's ledger from its own start is stated by `StatesMoveLegally` only.

## 5. What is not modelled

Signatures, schemas, provenance and anchor checks (their failure freezes or refuses before any state change); several Issues in one
reconcile pass; promotion of knowledge into the registry, recurrences and family candidates; schedules and pipeline plans of the
scheduler; isolation and result decoding (outcomes of a job here); the components of section 1 without a module.

Most of the repository is outside the models for one of three reasons, and they are why the map covers a small share of it:
numerical engines and prompt compilation are pure functions over floating-point values and text; collectors, containers and
dashboards are I/O; governance and review scripts recompute a verdict from scratch on every event and keep no state between
two of them. What keeps state that several actors change (the three ledgers, the authority history, the lifecycle, the run
records) is modelled. `PROJECT.json` has the reason for each component, and a note on every hazard no property covers.

## 6. Plan

The planned modules are written, and what they are checked for is proved except liveness. Worth adding if the project grows:
the reconcile pass over several Issues, where one Issue's refused record ends the pass (`cmd_step`); the execution plane's issuer; and
a remediation whose start is not frozen, once `advance` tells the parent's branch and pull request from a rollback.
