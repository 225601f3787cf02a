--------------------- MODULE SourceHandlingProvisioning ---------------------
(***************************************************************************)
(* The `authorize` job on the anchored Source Handling ledger: `prepare`   *)
(* replays the ledger into a private database and provisions there the     *)
(* document of an Issue, one captured transaction per provenance record    *)
(* and two per authority family; `commit` appends the captured             *)
(* transactions one by one by compare-and-swap and then claims the Issue   *)
(* with AUTHORIZED.  The job may die, and a push may be lost or land late, *)
(* between any two appends.                                                *)
(***************************************************************************)
EXTENDS Naturals, FiniteSets

CONSTANTS
  Doc,            \* documents: an Issue with its normalized body
  NoAuth,         \* no authorization
  MaxLabels,      \* bound: labels of one Issue
  MaxRetries,     \* bound: labels more while nothing has come of them
  MaxRemediation, \* bound: remediations of one Issue
  MaxFaults       \* bound: jobs that die, pushes lost or delayed

ASSUME ProvisioningAssumption ==
  /\ {MaxLabels, MaxRetries, MaxRemediation, MaxFaults} \subseteq Nat
  /\ NoAuth \notin [doc : Doc, issued : Nat, attempt : Nat]

VARIABLES
  now,            \* the wall clock
  updated,        \* updated[d]: the Issue's updated_at, 0 before its first label
  labels,         \* labels[d]: how often the Issue was labelled
  remediations,   \* remediations[d]: how many were dispatched for it
  queue,          \* signed authorizations whose authorize job has not started
  ledger,         \* ledger[d]: what the Source Handling branch holds of d
  length,         \* the head of that branch: its number of commits
  job,            \* the authorize job, serialized by its concurrency group
  active,         \* active[d]: the live authorization on the Issue ledger
  version,        \* version[d]: the head of the Issue ledger
  claims,         \* AUTHORIZED records, with the Source Handling state each binds
  late,           \* pushes the server received and has not applied yet
  faults          \* faults so far

sh == <<ledger, length>>

vars ==
  <<now, updated, labels, remediations, queue, sh, job, active, version, claims, late, faults>>

issueLedger == <<active, version, claims>>

issue == <<updated, labels, remediations>>

(* A signed authorization: a label (attempt 0) or a remediation dispatch,  *)
(* minted from the Issue as it was at `issued`.                            *)
Authorization == [doc : Doc, issued : Nat, attempt : 0 .. MaxRemediation]

----------------------------------------------------------------------------
(* What the ledger holds of one document.  `stamp` is the known_at of a    *)
(* head and `revision` its number of records, 0 when there is none.        *)

Family == {"FACT", "REGISTRY", "POLICY"}

Evidence == {"evidence", "verifier"} \X Family

Absent == [stamp |-> 0, revision |-> 0]

Blank ==
  [evidence   |-> [i \in Evidence |-> Absent],   \* provenance heads
   admitted   |-> 0,                             \* latest provenance admission
   fact       |-> Absent,
   policy     |-> Absent,
   bound      |-> NoAuth,                        \* the registry the policy names
   registries |-> {},                            \* one scope per registry
   issued     |-> {},                            \* publication authorizations
   consumed   |-> {}]

Present(s) == {i \in Evidence : s.evidence[i].revision # 0}

Known(s) == {s.evidence[i].stamp : i \in Present(s)}

(* An interrupted successor batch: the heads carry two instants. *)
Mixed(s) == Cardinality(Known(s)) > 1

Existing(s) ==
  IF Present(s) = {} THEN 0 ELSE CHOOSE t \in Known(s) : \A u \in Known(s) : u <= t

----------------------------------------------------------------------------
(* _run: what authorization a, provisioned at instant t, writes for a      *)
(* document in state s.                                                    *)

NewerRevision(a, s) ==
  Mixed(s) \/ (Present(s) # {} /\ a.issued > Existing(s))

SuccessorAllowed(a, s) == NewerRevision(a, s) \/ s.evidence[<<"evidence", "FACT">>].revision > 1

(* The suffix of the batch's authorization and registry identities. *)
Bug_Name(a, s) == NoAuth

Name(a, s) == IF SuccessorAllowed(a, s) THEN a ELSE NoAuth

Bug_OnOrAfter(a, s, t) ==
  IF Present(s) # {} /\ ~NewerRevision(a, s) THEN Existing(s) ELSE t

OnOrAfter(a, s, t) ==
  IF Mixed(s) \/ (Present(s) # {} /\ ~NewerRevision(a, s)) THEN Existing(s) ELSE t

Stale(a, s, t) ==
  {i \in Evidence : i \notin Present(s) \/ s.evidence[i].stamp # OnOrAfter(a, s, t)}

(* Authority records are known from the last provenance admission on. *)
Bug_AuthorityAt(a, s, t) ==
  IF Stale(a, s, t) # {} THEN t + 1 ELSE OnOrAfter(a, s, t)

AuthorityAt(a, s, t) ==
  IF Stale(a, s, t) # {} THEN t
  ELSE IF s.admitted > OnOrAfter(a, s, t) THEN s.admitted
  ELSE OnOrAfter(a, s, t)

(* The head of the family's scope, which a registry has one of per name. *)
Headed(a, s, f) ==
  CASE f = "FACT"     -> s.fact.revision # 0
    [] f = "REGISTRY" -> \E r \in s.registries : r.name = Name(a, s)
    [] f = "POLICY"   -> s.policy.revision # 0

(* That head already is the record this batch derives. *)
Provisioned(a, s, t, f) ==
  LET at == AuthorityAt(a, s, t)
  IN  CASE f = "FACT"     -> s.fact.revision # 0 /\ s.fact.stamp = at
        [] f = "REGISTRY" -> [name |-> Name(a, s), stamp |-> at] \in s.registries
        [] f = "POLICY"   -> /\ s.policy.revision # 0 /\ s.policy.stamp = at
                             /\ s.bound = Name(a, s)

(* Heads that _existing_provenance_info recovers from: one instant, or one *)
(* interrupted batch of successors on top of another.                      *)
Recoverable(s) ==
  /\ Cardinality(Known(s)) <= 2
  /\ Mixed(s) =>
       \A i \in Present(s) : s.evidence[i].stamp = Existing(s) => s.evidence[i].revision > 1

(* SourceHandlingBlockedError: inconsistent heads; an instant before the   *)
(* Issue revision; a head that may not be superseded; an authorization     *)
(* identity that was already issued.                                       *)
Blocked(a, s, t) ==
  \/ ~Recoverable(s)
  \/ OnOrAfter(a, s, t) < a.issued
  \/ \E f \in Family :
       /\ ~Provisioned(a, s, t, f)
       /\ \/ Headed(a, s, f) /\ ~SuccessorAllowed(a, s)
          \/ [family |-> f, name |-> Name(a, s)] \in s.issued

(* The transactions of a batch: a provenance record, an authorization or   *)
(* its publication.                                                        *)
Transaction == {"evidence", "verifier", "issue", "publish"} \X Family

(* Their order: six provenance records, then two per family. *)
Place(x) ==
  [evidence |-> 0, verifier |-> 1, issue |-> 6, publish |-> 7][x[1]]
    + 2 * [FACT |-> 0, REGISTRY |-> 1, POLICY |-> 2][x[2]]

First(batch) == {x \in batch : \A y \in batch : Place(x) <= Place(y)}

(* Re-recording an existing head commits nothing, so it captures nothing. *)
Batch(a, s, t) ==
  Stale(a, s, t) \cup {x \in Transaction \ Evidence : ~Provisioned(a, s, t, x[2])}

(* What prepare leaves to commit: the transactions, what they bind, and    *)
(* the state they extend.                                                  *)
Prepared(a, s, t) ==
  [phase |-> "commit", auth |-> a, batch |-> Batch(a, s, t), name |-> Name(a, s),
   stamp |-> OnOrAfter(a, s, t), at |-> AuthorityAt(a, s, t), admitted |-> t,
   basis |-> s, position |-> length, version |-> version[a.doc]]

Advance(head, t) == [stamp |-> t, revision |-> head.revision + 1]

(* The document after the transaction x of the prepared job j. *)
Apply(s, x, j) ==
  LET id == [family |-> x[2], name |-> j.name]
  IN  CASE x \in Evidence ->
             [s EXCEPT !.evidence[x] = Advance(@, j.stamp), !.admitted = j.admitted]
        [] x[1] = "issue" -> [s EXCEPT !.issued = @ \cup {id}]
        [] x = <<"publish", "FACT">> ->
             [s EXCEPT !.fact = Advance(@, j.at), !.consumed = @ \cup {id}]
        [] x = <<"publish", "REGISTRY">> ->
             [s EXCEPT !.registries = @ \cup {[name |-> j.name, stamp |-> j.at]},
                       !.consumed = @ \cup {id}]
        [] x = <<"publish", "POLICY">> ->
             [s EXCEPT !.policy = Advance(@, j.at), !.bound = j.name,
                       !.consumed = @ \cup {id}]

----------------------------------------------------------------------------
(* The environment of the job: the owner, the reconcile cron, the Issue's  *)
(* own lifecycle.                                                          *)

Idle == [phase |-> "idle"]

Init ==
  /\ now = 0
  /\ updated = [d \in Doc |-> 0]
  /\ labels = [d \in Doc |-> 0]
  /\ remediations = [d \in Doc |-> 0]
  /\ queue = {}
  /\ ledger = [d \in Doc |-> Blank]
  /\ length = 0
  /\ job = Idle
  /\ active = [d \in Doc |-> NoAuth]
  /\ version = [d \in Doc |-> 0]
  /\ claims = {}
  /\ late = {}
  /\ faults = 0

Fault == faults < MaxFaults /\ faults' = faults + 1

ClaimedIds == {c.auth : c \in claims}

(* No document of this Issue was claimed, and no job will try to. *)
Unclaimed(d) ==
  job = Idle /\ queue = {} /\ ~\E c \in claims : c.auth.doc = d

(* The owner labels the Issue (again), which moves its updated_at. *)
Label(d) ==
  /\ \/ labels[d] < MaxLabels
     \/ Unclaimed(d) /\ labels[d] < MaxLabels + MaxRetries
  /\ labels' = [labels EXCEPT ![d] = @ + 1]
  /\ now' = now + 1
  /\ updated' = [updated EXCEPT ![d] = now + 1]
  /\ queue' = queue \cup {[doc |-> d, issued |-> now + 1, attempt |-> 0]}
  /\ UNCHANGED <<remediations, sh, job, issueLedger, late, faults>>

(* A remediation is minted for a completed parent from the Issue as it is. *)
Remediate(d) ==
  LET n == remediations[d] + 1
  IN  /\ n <= MaxRemediation
      /\ active[d] = NoAuth
      /\ \E c \in claims : c.auth.doc = d
      /\ remediations' = [remediations EXCEPT ![d] = n]
      /\ queue' = queue \cup {[doc |-> d, issued |-> updated[d], attempt |-> n]}
      /\ UNCHANGED <<now, updated, labels, sh, job, issueLedger, late, faults>>

(* The live authorization reaches a terminal state. *)
Terminate(d) ==
  /\ active[d] # NoAuth
  /\ active' = [active EXCEPT ![d] = NoAuth]
  /\ version' = [version EXCEPT ![d] = @ + 1]
  /\ UNCHANGED <<now, issue, queue, sh, job, claims, late, faults>>

----------------------------------------------------------------------------
(* The authorize job.                                                      *)

Admissible(a) == active[a.doc] = NoAuth /\ a \notin ClaimedIds

(* prepare: everything it writes is in the job's private database. *)
Prepare(a) ==
  /\ job = Idle
  /\ a \in queue
  /\ Admissible(a)
  /\ ~Blocked(a, ledger[a.doc], now + 1)
  /\ now' = now + 1
  /\ queue' = queue \ {a}
  /\ job' = Prepared(a, ledger[a.doc], now + 1)
  /\ UNCHANGED <<issue, sh, issueLedger, late, faults>>

(* AuthorizeRefused, before anything durable: the run is never repeated. *)
Refuse(a) ==
  /\ job = Idle
  /\ a \in queue
  /\ ~Admissible(a) \/ Blocked(a, ledger[a.doc], now + 1)
  /\ now' = now + 1
  /\ queue' = queue \ {a}
  /\ UNCHANGED <<issue, sh, job, issueLedger, late, faults>>

(* append_files accepts a transaction on the position it was captured at. *)
Bug_Lands(j) == TRUE

Lands(j) == length = j.position

Land(j, x) ==
  /\ ledger' = [ledger EXCEPT ![j.auth.doc] = Apply(@, x, j)]
  /\ length' = length + 1

(* sh.publish stops at the first lost compare-and-swap. *)
Publish ==
  /\ job.phase = "commit"
  /\ \E x \in First(job.batch) :
       IF Lands(job)
         THEN /\ Land(job, x)
              /\ job' = [job EXCEPT !.batch = @ \ {x}, !.position = @ + 1,
                                    !.basis = Apply(@, x, job)]
         ELSE job' = Idle /\ UNCHANGED sh
  /\ UNCHANGED <<now, issue, queue, issueLedger, late, faults>>

Bug_ClaimFor(j) ==
  /\ active' = [active EXCEPT ![j.auth.doc] = j.auth]
  /\ version' = [version EXCEPT ![j.auth.doc] = @ + 1]
  /\ claims' = claims \cup {[auth |-> j.auth, basis |-> j.basis]}

ClaimFor(j) ==
  IF version[j.auth.doc] = j.version
    THEN /\ active' = [active EXCEPT ![j.auth.doc] = j.auth]
         /\ version' = [version EXCEPT ![j.auth.doc] = @ + 1]
         /\ claims' = claims \cup {[auth |-> j.auth, basis |-> j.basis]}
    ELSE UNCHANGED issueLedger

(* The Issue ledger must still be at the head prepare read. *)
Bug_Claim ==
  /\ job.phase = "commit"
  /\ ClaimFor(job)
  /\ job' = Idle
  /\ UNCHANGED <<now, issue, queue, sh, late, faults>>

Claim ==
  /\ job.phase = "commit"
  /\ job.batch = {}
  /\ ClaimFor(job)
  /\ job' = Idle
  /\ UNCHANGED <<now, issue, queue, sh, late, faults>>

(* The job dies, or git reports its push as failed: the push may have been *)
(* received, and is then applied later or never.                           *)
Interrupted ==
  /\ job.phase = "commit"
  /\ Fault
  /\ job' = Idle
  /\ late' \in {late, late \cup {job}}
  /\ UNCHANGED <<now, issue, queue, sh, issueLedger>>

Deliver(p) ==
  /\ p \in late
  /\ late' = late \ {p}
  /\ \/ p.batch = {} /\ ClaimFor(p) /\ UNCHANGED sh
     \/ /\ \E x \in First(p.batch) : IF Lands(p) THEN Land(p, x) ELSE UNCHANGED sh
        /\ UNCHANGED issueLedger
  /\ UNCHANGED <<now, issue, queue, job, faults>>

Next ==
  \/ \E d \in Doc : Label(d) \/ Remediate(d) \/ Terminate(d)
  \/ \E a \in queue : Prepare(a) \/ Refuse(a)
  \/ Publish \/ Claim \/ Interrupted
  \/ \E p \in late : Deliver(p)

(* GitHub starts a queued job and runs it; the owner labels an Issue whose *)
(* document has not been claimed again as long as nothing comes of it.     *)
Fairness ==
  /\ WF_vars(\E a \in queue : Prepare(a) \/ Refuse(a))
  /\ WF_vars(Publish \/ Claim)
  /\ \A d \in Doc : WF_vars(Unclaimed(d) /\ Label(d))

Spec == Init /\ [][Next]_vars /\ Fairness

----------------------------------------------------------------------------
(* Properties.                                                             *)

Heads == [stamp : 0 .. now, revision : Nat]

AuthOrNone == Authorization \cup {NoAuth}

PublicationIds == [family : Family, name : AuthOrNone]

(* Every document is in a state of the closed table schema, no record is   *)
(* known in the future, and the job commits transactions of one batch.     *)
TypeOK ==
  /\ {now, length} \subseteq Nat
  /\ updated \in [Doc -> 0 .. now]
  /\ labels \in [Doc -> 0 .. MaxLabels + MaxRetries]
  /\ remediations \in [Doc -> 0 .. MaxRemediation]
  /\ queue \subseteq Authorization
  /\ \A d \in Doc :
       /\ ledger[d].evidence \in [Evidence -> Heads]
       /\ {ledger[d].fact, ledger[d].policy} \subseteq Heads
       /\ ledger[d].bound \in AuthOrNone /\ ledger[d].admitted \in 0 .. now
       /\ ledger[d].registries \subseteq [name : AuthOrNone, stamp : 0 .. now]
       /\ ledger[d].issued \cup ledger[d].consumed \subseteq PublicationIds
  /\ job = Idle \/
       /\ job.phase = "commit" /\ job.auth \in Authorization /\ job.name \in AuthOrNone
       /\ job.batch \subseteq Transaction
       /\ {job.stamp, job.at, job.admitted, job.position, job.version} \subseteq Nat
  /\ active \in [Doc -> AuthOrNone] /\ version \in [Doc -> Nat]
  /\ \A c \in claims : c.auth \in Authorization
  /\ faults \in 0 .. MaxFaults

(* The per-table mutation discipline: a provenance head advances to a      *)
(* later instant, an authorization is issued once and consumed once, after *)
(* it was issued, and a registry is published once.                        *)
Replays(s, x, j) ==
  LET id == [family |-> x[2], name |-> j.name]
  IN  CASE x \in Evidence   -> x \in Present(s) => s.evidence[x].stamp < j.stamp
        [] x[1] = "issue"   -> id \notin s.issued
        [] x[1] = "publish" ->
             /\ id \in s.issued \ s.consumed
             /\ x[2] = "REGISTRY" => \A r \in s.registries : r.name # j.name

(* materialize never finds the ledger TAMPER_DETECTED: however jobs die    *)
(* and pushes are lost or late, a transaction that lands replays.          *)
Replayable ==
  \A j \in {job} \cup late :
    j # Idle /\ Lands(j) => \A x \in First(j.batch) : Replays(ledger[j.auth.doc], x, j)

(* One coherent classification of the document, known only after the Issue *)
(* revision it describes and after its provenance was admitted.            *)
Classified(s, a) ==
  /\ Present(s) = Evidence /\ ~Mixed(s) /\ a.issued <= Existing(s)
  /\ s.fact.revision # 0 /\ s.policy.revision # 0
  /\ s.admitted <= s.fact.stamp /\ s.fact.stamp = s.policy.stamp
  /\ [name |-> s.bound, stamp |-> s.policy.stamp] \in s.registries

(* No model is released on a half-published classification: the anchored   *)
(* ledger an AUTHORIZED record was prepared on, with the job's own commits,*)
(* holds one complete batch of its document.                               *)
ClaimedIsClassified == \A c \in claims : Classified(c.basis, c.auth)

(* "exactly two timestamps, and every head at the newer timestamp must     *)
(* itself be a successor": no sequence of interruptions leaves provenance  *)
(* heads in a shape _existing_provenance_info calls inconsistent.          *)
RecoverableShape == \A d \in Doc : Recoverable(ledger[d])

(* A claim never displaces a live authorization and never repeats one,     *)
(* whatever lands late.                                                    *)
ClaimsExclude ==
  [][\A d \in Doc : active'[d] \notin {active[d], NoAuth} =>
       active[d] = NoAuth /\ active'[d] \notin ClaimedIds]_vars

(* A document is classified and claimed in the end, whatever interrupted   *)
(* its first batches, unless one of them left two instants behind.         *)
FirstClaim ==
  \A d \in Doc : <>(Mixed(ledger[d]) \/ \E c \in claims : c.auth.doc = d)

(* "The provisioning is idempotent and resumes interrupted batches": no    *)
(* authorization of the document is refused because of one.                *)
InterruptedBatchResumes ==
  \A a \in queue : Mixed(ledger[a.doc]) => ~Blocked(a, ledger[a.doc], now + 1)
=============================================================================
