--------------------------- MODULE KnowledgeLoop ---------------------------
(***************************************************************************)
(* The review -> knowledge -> remediation loop of one Issue and its pull   *)
(* request.  Four jobs append to one knowledge ledger, each record by a    *)
(* compare-and-swap of its own: `ingest` learns the reviewers' threads,    *)
(* `remediate` requests and dispatches a remediation, `record` classifies  *)
(* what a validated remediation proved, and `resolve` proves a finding at  *)
(* the exact head, answers its thread and resolves it.  Any job may die    *)
(* between two of its steps, and its last push may still land later.       *)
(***************************************************************************)
EXTENDS Naturals, Sequences, FiniteSets

CONSTANTS
  Findings,      \* threads reviewers open, numbered in the order of finding ids
  Ambiguous,     \* those whose family tag does not apply to their path
  MaxPerFinding, \* MAX_REMEDIATIONS_PER_FINDING
  MaxPerPR,      \* MAX_REMEDIATIONS_PER_PR
  MaxHead,       \* bound: heads of the pull request
  MaxDeaths      \* bound: jobs that die and dispatches that are lost

ASSUME KnowledgeAssumption ==
  /\ Findings \subseteq Nat \ {0} /\ IsFiniteSet(Findings)
  /\ Ambiguous \subseteq Findings
  /\ {MaxPerFinding, MaxPerPR, MaxDeaths} \subseteq Nat /\ MaxHead \in Nat \ {0}

VARIABLES
  entries,    \* the records on the knowledge ledger
  head,       \* head of the pull request
  completed,  \* the head the Issue's last completed authorization published
  green,      \* heads at which the hosted Pre-PR Preflight succeeded
  thread,     \* thread[f]: the reviewer's thread on GitHub
  auths,      \* auths[a]: what became of each remediation authorization delivered
  job,        \* job[j]: what each job is doing
  late,       \* records dead jobs pushed, that the server may still apply
  deaths      \* deaths so far

vars ==
  <<entries, head, completed, green, thread, auths, job, late, deaths>>

github == <<head, green, thread>>

Job == {"ingest", "remediate", "record", "resolve"}

Kind == {"ingested", "ambiguous", "requested", "classified", "proven", "resolved"}

(* An authorization is its claims: the same claims have the same identity. *)
Auth == [attempt : 0 .. MaxPerFinding, head : 0 .. MaxHead, findings : SUBSET Findings]

NoAuth == [attempt |-> 0, head |-> 0, findings |-> {}]

(* A record: its kind, and 0 or NoAuth for what that kind does not carry.  *)
Entry ==
  [kind : Kind, finding : Findings, attempt : Nat, auth : Auth, head : 0 .. MaxHead]

Key(w) == <<w.kind, w.finding, w.attempt>>

Rec(kind, f, attempt, auth, h) ==
  [kind |-> kind, finding |-> f, attempt |-> attempt, auth |-> auth, head |-> h]

(* What a job is doing: opening the ledger or appending `writes` to the one *)
(* it read as `view`, `then` going on to another step; for which            *)
(* authorization and finding; and the pairs of them `resolve` has left.     *)
Off ==
  [step |-> "idle", writes |-> {}, view |-> {}, then |-> "idle",
   auth |-> NoAuth, finding |-> 0, todo |-> {}]

Init ==
  /\ entries = {}
  /\ head = 1 /\ completed = 1 /\ green = {1}
  /\ thread = [f \in Findings |-> "none"]
  /\ auths = <<>>
  /\ job = [j \in Job |-> Off]
  /\ late = {}
  /\ deaths = 0

----------------------------------------------------------------------------
(* A verified view: the records of the ledger as it was read.              *)

Of(view, kind, f) == {e \in view : e.kind = kind /\ e.finding = f}

Has(view, kind, f) == Of(view, kind, f) # {}

Attempts(view, f) == Cardinality(Of(view, "requested", f))

Spent(view) == Cardinality({e \in view : e.kind = "requested"})

(* What _fold requires of a record beyond its being new. *)
Bug_Folds(view, w) ==
  /\ w.kind # "ingested" => Has(view, "ingested", w.finding)
  /\ w.kind = "requested" =>
       /\ ~Has(view, "resolved", w.finding) /\ ~Has(view, "proven", w.finding)
       /\ w.attempt = Attempts(view, w.finding) + 1
       /\ w.attempt <= MaxPerFinding
  /\ w.kind = "proven" => \E e \in Of(view, "classified", w.finding) : e.auth = w.auth
  /\ w.kind = "resolved" => \E e \in Of(view, "proven", w.finding) : e.head = w.head

Folds(view, w) ==
  /\ w.kind # "ingested" => Has(view, "ingested", w.finding)
  /\ w.kind = "requested" =>
       /\ ~Has(view, "resolved", w.finding) /\ ~Has(view, "proven", w.finding)
       /\ w.attempt = Attempts(view, w.finding) + 1
       /\ w.attempt <= MaxPerFinding
       /\ Spent(view) < MaxPerPR
  /\ w.kind = "proven" => \E e \in Of(view, "classified", w.finding) : e.auth = w.auth
  /\ w.kind = "resolved" => \E e \in Of(view, "proven", w.finding) : e.head = w.head

(* A write whose key is taken is skipped when it is the same record and    *)
(* refused when it is not.                                                 *)
Bug_Refused(view, w) == ~Folds(view, w)

Refused(view, w) == (\E e \in view : Key(e) = Key(w)) \/ ~Folds(view, w)

----------------------------------------------------------------------------
(* knowledge.append, one step of any job: it reads the ledger once, then   *)
(* writes record after record on the head it knows.                        *)

Set(j, state) == job' = [job EXCEPT ![j] = state]

Batch(writes, then, auth, finding, todo) ==
  [Off EXCEPT !.step = IF writes = {} THEN then ELSE "open", !.writes = writes,
              !.then = then, !.auth = auth, !.finding = finding, !.todo = todo]

Scanning(todo) ==
  IF todo = {} THEN Off ELSE [Off EXCEPT !.step = "scan", !.todo = todo]

(* Batches go by finding; a finding is learnt before it is classified. *)
Before(v, w) ==
  \/ v.finding < w.finding
  \/ v.finding = w.finding /\ v.kind = "ingested"

Current(j, w) ==
  /\ job[j].step = "append"
  /\ w \in job[j].writes
  /\ \A other \in job[j].writes \ {w} : Before(w, other)

Open(j) ==
  /\ job[j].step = "open"
  /\ Set(j, [job[j] EXCEPT !.step = "append", !.view = entries])
  /\ UNCHANGED <<entries, completed, github, auths, late, deaths>>

(* The record w is in the view: on to the next, or beyond. *)
Rest(j, w, view) ==
  LET left == job[j].writes \ {w}
  IN  CASE left # {} -> [job[j] EXCEPT !.writes = left, !.view = view]
        [] left = {} /\ job[j].then = "idle" -> Off
        [] OTHER -> [job[j] EXCEPT !.writes = {}, !.view = {}, !.step = job[j].then]

Skip(j, w) ==
  /\ Current(j, w)
  /\ w \in job[j].view
  /\ Set(j, Rest(j, w, job[j].view))
  /\ UNCHANGED <<entries, completed, github, auths, late, deaths>>

(* The job is at a record that its view does not hold and admits. *)
Writing(j, w) ==
  /\ Current(j, w)
  /\ w \notin job[j].view
  /\ ~Refused(job[j].view, w)

Bug_Write(j, w) ==
  /\ Writing(j, w)
  /\ entries' = job[j].view \cup {w}
  /\ Set(j, Rest(j, w, entries'))
  /\ late' = {}
  /\ UNCHANGED <<completed, github, auths, deaths>>

(* The ledger grows: every push still under way has lost its lease. *)
Write(j, w) ==
  /\ Writing(j, w)
  /\ job[j].view = entries
  /\ entries' = entries \cup {w}
  /\ Set(j, Rest(j, w, entries'))
  /\ late' = {}
  /\ UNCHANGED <<completed, github, auths, deaths>>

Bug_Conflict(j, w) ==
  /\ Writing(j, w)
  /\ job[j].view # entries
  /\ Set(j, Rest(j, w, job[j].view))
  /\ UNCHANGED <<entries, completed, github, auths, late, deaths>>

(* LedgerConflictError ends what the job does with this Issue or finding.  *)
Conflict(j, w) ==
  /\ Writing(j, w)
  /\ job[j].view # entries
  /\ Set(j, IF j = "resolve" THEN Scanning(job[j].todo) ELSE Off)
  /\ UNCHANGED <<entries, completed, github, auths, late, deaths>>

(* KnowledgeLedgerError is caught by none of them, and ends the job. *)
Raise(j, w) ==
  /\ Current(j, w)
  /\ w \notin job[j].view
  /\ Refused(job[j].view, w)
  /\ Set(j, Off)
  /\ UNCHANGED <<entries, completed, github, auths, late, deaths>>

----------------------------------------------------------------------------
(* The reviewers, the owner and whoever else pushes.                       *)

Review(f) ==
  /\ thread[f] = "none"
  /\ thread' = [thread EXCEPT ![f] = "current"]
  /\ UNCHANGED <<entries, head, completed, green, auths, job, late, deaths>>

ResolveByHand(f) ==
  /\ thread[f] \in {"current", "outdated"}
  /\ thread' = [thread EXCEPT ![f] = "resolved"]
  /\ UNCHANGED <<entries, head, completed, green, auths, job, late, deaths>>

Preflight ==
  /\ head \notin green
  /\ green' = green \cup {head}
  /\ UNCHANGED <<entries, head, completed, thread, auths, job, late, deaths>>

(* A push outdates the threads whose lines it touches. *)
Moves(touched) ==
  /\ head < MaxHead
  /\ head' = head + 1
  /\ thread' = [f \in Findings |->
       IF f \in touched /\ thread[f] = "current" THEN "outdated" ELSE thread[f]]
  /\ UNCHANGED green

ForeignPush(touched) ==
  /\ Moves(touched)
  /\ UNCHANGED <<entries, completed, auths, job, late, deaths>>

----------------------------------------------------------------------------
(* A remediation authorization on the Issue ledger, as the lifecycle means *)
(* to take it; validation may prove one of its findings, which the job     *)
(* that records VALIDATED writes down as a classification.                 *)

Active(a) == auths[a].state \in {"active", "validated", "published"}

Become(a, state) == auths' = [auths EXCEPT ![a].state = state]

Claim(a) ==
  /\ auths[a].state = "dispatched"
  /\ \A b \in DOMAIN auths : ~Active(b)
  /\ a.head = completed
  /\ Become(a, "active")
  /\ UNCHANGED <<entries, completed, github, job, late, deaths>>

Validate(a, proven) ==
  /\ auths[a].state = "active"
  /\ job["record"] = Off
  /\ Become(a, "validated")
  /\ IF proven = {} THEN UNCHANGED job
     ELSE \E f \in proven :
            Set("record", Batch({Rec("classified", f, 0, a, 0)}, "idle", NoAuth, 0, {}))
  /\ UNCHANGED <<entries, completed, github, late, deaths>>

PublishFix(a, touched) ==
  /\ auths[a].state = "validated" /\ a.head = head
  /\ Moves(touched)
  /\ auths' = [auths EXCEPT ![a].state = "published", ![a].to = head + 1]
  /\ UNCHANGED <<entries, completed, job, late, deaths>>

Complete(a) ==
  /\ auths[a].state = "published" /\ auths[a].to \in green
  /\ Become(a, "completed")
  /\ completed' = auths[a].to
  /\ UNCHANGED <<entries, github, job, late, deaths>>

Fail(a) ==
  /\ auths[a].state \in {"active", "validated"}
  /\ Become(a, "failed")
  /\ UNCHANGED <<entries, completed, github, job, late, deaths>>

----------------------------------------------------------------------------
(* ingest: cmd_knowledge_ingest. A finding already known is skipped.       *)

Ingest ==
  LET new == {f \in Findings : thread[f] # "none" /\ ~Has(entries, "ingested", f)}
      writes == {Rec("ingested", f, 0, NoAuth, head) : f \in new}
                  \cup {Rec("ambiguous", f, 0, NoAuth, 0) : f \in new \cap Ambiguous}
  IN /\ job["ingest"] = Off
     /\ new # {}
     /\ Set("ingest", Batch(writes, "idle", NoAuth, 0, {}))
     /\ UNCHANGED <<entries, completed, github, auths, late, deaths>>

----------------------------------------------------------------------------
(* remediate: cmd_remediate.  The same claims make the same authorization. *)

Eligible ==
  {f \in Findings :
     /\ \E e \in Of(entries, "ingested", f) : e.head = head
     /\ ~Has(entries, "resolved", f) /\ ~Has(entries, "proven", f)
     /\ Has(entries, "ambiguous", f) => Has(entries, "classified", f)
     /\ Attempts(entries, f) < MaxPerFinding}

(* The attempt of an authorization is the next one of its freshest finding. *)
Claims(f) ==
  [attempt |-> Attempts(entries, f) + 1, head |-> head, findings |-> Eligible]

Remediate(f) ==
  /\ f \in Eligible
  /\ \A g \in Eligible : Attempts(entries, f) <= Attempts(entries, g)
  /\ job["remediate"] = Off
  /\ \A b \in DOMAIN auths : ~Active(b)
  /\ completed = head
  /\ Spent(entries) < MaxPerPR
  /\ Set("remediate",
         Batch({Rec("requested", g, Attempts(entries, g) + 1, Claims(f), 0) : g \in Eligible},
               "dispatch", Claims(f), 0, {}))
  /\ UNCHANGED <<entries, completed, github, auths, late, deaths>>

(* A delivery whose authorization was delivered before loses its claim. *)
Dispatch(accepted) ==
  LET a == job["remediate"].auth
  IN /\ job["remediate"].step = "dispatch"
     /\ IF accepted
          THEN /\ auths' = [b \in DOMAIN auths \cup {a} |->
                             IF b \in DOMAIN auths THEN auths[b]
                             ELSE [state |-> "dispatched", to |-> 0]]
               /\ UNCHANGED deaths
          ELSE /\ deaths < MaxDeaths
               /\ deaths' = deaths + 1
               /\ UNCHANGED auths
     /\ Set("remediate", Off)
     /\ UNCHANGED <<entries, completed, github, late>>

----------------------------------------------------------------------------
(* resolve: cmd_resolve.  Both ledgers are read once, for all findings;    *)
(* GitHub is read for each.                                                *)

Scan ==
  LET todo == {p \in Findings \X DOMAIN auths :
                 /\ Has(entries, "classified", p[1]) /\ ~Has(entries, "resolved", p[1])
                 /\ auths[p[2]].state = "published" /\ p[1] \in p[2].findings}
  IN /\ job["resolve"] = Off
     /\ todo # {}
     /\ Set("resolve", Scanning(todo))
     /\ UNCHANGED <<entries, completed, github, auths, late, deaths>>

(* exact_head_proof, what it reads live. *)
Bug_Proves(f, a) ==
  /\ auths[a].to = head
  /\ thread[f] \notin {"none", "current"}

Proves(f, a) ==
  /\ auths[a].to = head
  /\ thread[f] \notin {"none", "current"}
  /\ head \in green

Prove(f, a) ==
  LET rest == job["resolve"].todo \ {<<f, a>>}
      writes == IF Has(entries, "proven", f) THEN {} ELSE {Rec("proven", f, 0, a, head)}
  IN /\ job["resolve"].step = "scan"
     /\ <<f, a>> \in job["resolve"].todo
     /\ \A other \in rest : f <= other[1]
     /\ Set("resolve", IF Proves(f, a)
                       THEN Batch(writes, "reply", a, f, rest)
                       ELSE Scanning(rest))
     /\ UNCHANGED <<entries, completed, github, auths, late, deaths>>

(* resolve_thread: the reply and the resolution are two writes, and either *)
(* may be refused or land without an answer.                               *)
Answer(landed, known) ==
  LET todo == job["resolve"].todo
      f == job["resolve"].finding
      h == auths[job["resolve"].auth].to
      writes == IF Has(entries, "resolved", f) \/ ~\E e \in Of(entries, "proven", f) : e.head = h
                THEN {} ELSE {Rec("resolved", f, 0, NoAuth, h)}
  IN /\ job["resolve"].step = "reply"
     /\ known => landed
     /\ thread' = IF landed THEN [thread EXCEPT ![f] = "answered"] ELSE thread
     /\ IF known
          THEN /\ Set("resolve", IF writes = {} /\ todo = {} THEN Off
                                 ELSE Batch(writes, IF todo = {} THEN "idle" ELSE "scan",
                                            NoAuth, 0, todo))
               /\ UNCHANGED deaths
          ELSE /\ deaths < MaxDeaths
               /\ deaths' = deaths + 1
               /\ Set("resolve", Scanning(todo))
     /\ UNCHANGED <<entries, head, completed, green, auths, late>>

----------------------------------------------------------------------------
(* A runner dies between two steps of its job, or during a push that the   *)
(* server may apply later, while the ledger is still the one it leases.    *)
Die(j) ==
  /\ job[j] # Off
  /\ deaths < MaxDeaths
  /\ deaths' = deaths + 1
  /\ Set(j, Off)
  /\ \/ UNCHANGED late
     \/ /\ job[j].view = entries
        /\ \E w \in job[j].writes : Writing(j, w) /\ late' = late \cup {w}
  /\ UNCHANGED <<entries, completed, github, auths>>

Deliver(w) ==
  /\ entries' = entries \cup {w}
  /\ late' = {}
  /\ UNCHANGED <<completed, github, auths, job, deaths>>

Next ==
  \/ \E f \in Findings : Review(f) \/ ResolveByHand(f)
  \/ Preflight
  \/ \E touched \in SUBSET Findings : ForeignPush(touched)
  \/ \E a \in DOMAIN auths :
       \/ Claim(a) \/ Complete(a) \/ Fail(a)
       \/ Validate(a, {}) \/ Validate(a, a.findings)
       \/ \E touched \in SUBSET Findings : PublishFix(a, touched)
  \/ Ingest \/ Scan
  \/ \E f \in Findings : Remediate(f)
  \/ \E f \in Findings, a \in DOMAIN auths : Prove(f, a)
  \/ \E accepted \in BOOLEAN : Dispatch(accepted)
  \/ \E landed, known \in BOOLEAN : Answer(landed, known)
  \/ \E j \in Job :
       \/ Open(j) \/ Die(j)
       \/ \E w \in job[j].writes :
            Skip(j, w) \/ Write(j, w) \/ Conflict(j, w) \/ Raise(j, w)
  \/ \E w \in late : Deliver(w)

Spec == Init /\ [][Next]_vars

----------------------------------------------------------------------------
AuthState == {"dispatched", "active", "validated", "published", "completed", "failed"}

(* Shapes and bounds; the attempt of an authorization is within the budget. *)
TypeOK ==
  /\ entries \subseteq Entry /\ late \subseteq Entry \ entries
  /\ head \in 1 .. MaxHead /\ completed \in 1 .. head /\ green \subseteq 1 .. head
  /\ thread \in [Findings -> {"none", "current", "outdated", "resolved", "answered"}]
  /\ deaths \in 0 .. MaxDeaths
  /\ DOMAIN auths \subseteq Auth
  /\ auths \in [DOMAIN auths -> [state : AuthState, to : 0 .. head]]
  /\ job \in [Job -> [step : {"idle", "open", "append", "scan", "reply", "dispatch"},
                      writes : SUBSET Entry, view : SUBSET entries,
                      then : {"idle", "scan", "reply", "dispatch"}, auth : Auth,
                      finding : Findings \cup {0},
                      todo : SUBSET (Findings \X DOMAIN auths)]]

(* A kind is recorded once per key, for ever: issue_agent_knowledge.py:397, *)
(* "{kind} is insert-only and already recorded".  What a second remediation *)
(* of the same finding proves must not displace what the first one did.     *)
OneRecordPerKey == \A d, e \in entries : Key(d) = Key(e) => d = e

(* hunter_issue_agent_lifecycle.py:778: "The request record is written      *)
(* before the dispatch", the one of every finding the authorization names:  *)
(* a batch that broke off half way dispatches nothing.                      *)
RequestedFirst ==
  \A a \in DOMAIN auths : \A f \in a.findings : \E e \in Of(entries, "requested", f) : e.auth = a

(* MAX_REMEDIATIONS_PER_FINDING and _PER_PR bound what is recorded and what *)
(* is delivered, although a pass checks the budget of the pull request once *)
(* and then requests for several findings.                                  *)
BudgetHolds ==
  /\ Spent(entries) <= MaxPerPR
  /\ \A f \in Findings : Cardinality({a \in DOMAIN auths : f \in a.findings}) <= MaxPerFinding

(* resolve answers a thread, and records it resolved, only for a finding    *)
(* whose fix was proven at a head that one authorization naming it pushed,  *)
(* classified it by, and at which the hosted preflight succeeded - also     *)
(* when the scan was stale or the answer to the resolution was lost         *)
(* (exact_head_proof, issue_agent_control.py:1025).                         *)
ProofFirst ==
  \A f \in Findings : thread[f] = "answered" \/ Has(entries, "resolved", f) =>
    \E e \in Of(entries, "proven", f) :
      /\ e.head \in green
      /\ auths[e.auth].to = e.head
      /\ f \in e.auth.findings
      /\ \E c \in Of(entries, "classified", f) : c.auth = e.auth

=============================================================================
