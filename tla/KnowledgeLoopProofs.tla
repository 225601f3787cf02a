------------------------- MODULE KnowledgeLoopProofs -------------------------
(***************************************************************************)
(* Proofs about the knowledge loop, for any findings and any bounds.  The  *)
(* facts about a set E of records, about the authorizations A with the     *)
(* green heads G, and about one job's state s are constant level; the      *)
(* invariant relates the variables by them.                                *)
(***************************************************************************)
EXTENDS KnowledgeLoop, FiniteSetTheorems, TLAPS

(* A proven record still says what is so: the authorization that names its *)
(* finding pushed its head, and that head is green.                        *)
Stands(e, A, G) ==
  /\ e.auth \in DOMAIN A /\ e.finding \in e.auth.findings
  /\ e.head \in G /\ A[e.auth].to = e.head

Backed(w, A, G) == w.kind = "proven" => Stands(w, A, G)

(* What is always so of the ledger. *)
LedgerOK(E, A, G) ==
  /\ E \subseteq Entry /\ IsFiniteSet(E)
  /\ \A d, e \in E : Key(d) = Key(e) => d = e
  /\ Spent(E) <= MaxPerPR
  /\ \A e \in E : e.kind = "requested" => e.attempt \in 1 .. MaxPerFinding
  /\ \A e \in E : e.kind = "proven" =>
       /\ Stands(e, A, G)
       /\ \E c \in Of(E, "classified", e.finding) : c.auth = e.auth
  /\ \A e \in E : e.kind = "resolved" => Has(E, "proven", e.finding)

JobState(E, A) ==
  [step : {"idle", "open", "append", "scan", "reply", "dispatch"},
   writes : SUBSET Entry, view : SUBSET E,
   then : {"idle", "scan", "reply", "dispatch"}, auth : Auth,
   finding : Findings \cup {0}, todo : SUBSET (Findings \X DOMAIN A)]

(* What is always so of a job: it has writes only while it appends; the    *)
(* proofs it has yet to write stand; remediate holds, or has written, a    *)
(* request for every finding of its authorization, and resolve the proof   *)
(* of the finding it is answering.                                         *)
JobOK(j, s, E, A, G) ==
  /\ s \in JobState(E, A)
  /\ s.writes # {} => s.step \in {"open", "append"}
  /\ \A w \in s.writes : Backed(w, A, G)
  /\ \A p \in s.todo : p[1] \in p[2].findings
  /\ j = "remediate" =>
       \A f \in s.auth.findings :
         \E e \in E \cup s.writes : e.kind = "requested" /\ e.finding = f /\ e.auth = s.auth
  /\ j = "resolve" /\ s.finding # 0 =>
       \E e \in E \cup s.writes : e.kind = "proven" /\ e.finding = s.finding

(* An authorization that has pushed a head is past the push. *)
AuthsOK(A, h) ==
  /\ DOMAIN A \subseteq Auth
  /\ A \in [DOMAIN A -> [state : AuthState, to : 0 .. h]]
  /\ \A a \in DOMAIN A : A[a].to # 0 => A[a].state \in {"published", "completed"}

(* What GitHub and the lifecycle may do to the authorizations and heads. *)
Grows(A, B, G, H) ==
  /\ G \subseteq H
  /\ DOMAIN A \subseteq DOMAIN B
  /\ \A a \in DOMAIN A : A[a].to # 0 => B[a].to = A[a].to

(* The rest of the type invariant. *)
WorldOK ==
  /\ head \in 1 .. MaxHead /\ completed \in 1 .. head /\ green \subseteq 1 .. head
  /\ thread \in [Findings -> {"none", "current", "outdated", "resolved", "answered"}]
  /\ deaths \in 0 .. MaxDeaths

(* A push that may still land would be admitted. *)
LateOK ==
  \A w \in late : w \in Entry \ entries /\ ~Refused(entries, w) /\ Backed(w, auths, green)

Answered == \A f \in Findings : thread[f] = "answered" => Has(entries, "proven", f)

(* The inductive invariant. *)
Inv ==
  /\ WorldOK
  /\ AuthsOK(auths, head)
  /\ LedgerOK(entries, auths, green)
  /\ LateOK
  /\ job = [j \in Job |-> job[j]]
  /\ \A j \in Job : JobOK(j, job[j], entries, auths, green)
  /\ RequestedFirst
  /\ Answered

----------------------------------------------------------------------------
(* Records and views.                                                      *)

LEMMA SpentStep ==
  ASSUME NEW E, IsFiniteSet(E), NEW w, w \notin E
  PROVE  /\ Spent(E) \in Nat
         /\ Spent(E \cup {w}) = IF w.kind = "requested" THEN Spent(E) + 1 ELSE Spent(E)
<1> DEFINE R(S) == {e \in S : e.kind = "requested"}
<1>1. IsFiniteSet(R(E)) /\ Cardinality(R(E)) \in Nat
  BY FS_Subset, FS_CardinalityType
<1>2. CASE w.kind = "requested"
  <2>1. R(E \cup {w}) = R(E) \cup {w} /\ w \notin R(E)
    BY <1>2
  <2>2. Cardinality(R(E \cup {w})) = Cardinality(R(E)) + 1
    BY <1>1, <2>1, FS_AddElement
  <2>3. QED
    BY <1>1, <1>2, <2>2 DEF Spent
<1>3. CASE w.kind # "requested"
  <2>1. R(E \cup {w}) = R(E)
    BY <1>3
  <2>2. QED
    BY <1>1, <1>3, <2>1 DEF Spent
<1>4. QED
  BY <1>2, <1>3

LEMMA AttemptsType ==
  ASSUME NEW E, IsFiniteSet(E), NEW f
  PROVE  Attempts(E, f) \in Nat
BY FS_Subset, FS_CardinalityType DEF Attempts, Of

LEMMA RecType ==
  ASSUME NEW kind \in Kind, NEW f \in Findings, NEW n \in Nat, NEW a \in Auth,
         NEW h \in 0 .. MaxHead
  PROVE  /\ Rec(kind, f, n, a, h) \in Entry
         /\ Rec(kind, f, n, a, h).kind = kind
         /\ Rec(kind, f, n, a, h).finding = f
         /\ Rec(kind, f, n, a, h).auth = a
         /\ Rec(kind, f, n, a, h).head = h
BY DEF Rec, Entry

LEMMA NoAuthType == NoAuth \in Auth /\ NoAuth.findings = {}
BY KnowledgeAssumption DEF NoAuth, Auth

(* A record that the ledger admits keeps it sound. *)
LEMMA AdmitKeepsLedger ==
  ASSUME NEW E, NEW A, NEW G, LedgerOK(E, A, G),
         NEW w \in Entry, w \notin E, ~Refused(E, w), Backed(w, A, G)
  PROVE  LedgerOK(E \cup {w}, A, G)
<1> DEFINE F == E \cup {w}
<1>1. /\ E \subseteq Entry /\ IsFiniteSet(E)
      /\ \A e \in E : Key(e) # Key(w)
      /\ Folds(E, w)
  BY DEF LedgerOK, Refused
<1>2. F \subseteq Entry /\ IsFiniteSet(F)
  BY <1>1, FS_AddElement
<1>3. \A d, e \in F : Key(d) = Key(e) => d = e
  BY <1>1 DEF LedgerOK
<1>4. Spent(F) <= MaxPerPR
  BY <1>1, SpentStep, KnowledgeAssumption DEF LedgerOK, Folds
<1>5. \A e \in F : e.kind = "requested" => e.attempt \in 1 .. MaxPerFinding
  BY <1>1, AttemptsType, KnowledgeAssumption DEF LedgerOK, Folds
<1>6. \A kind, f : Of(E, kind, f) \subseteq Of(F, kind, f)
  BY DEF Of
<1>7. ASSUME NEW e \in F, e.kind = "proven"
      PROVE  Stands(e, A, G) /\ \E c \in Of(F, "classified", e.finding) : c.auth = e.auth
  BY <1>1, <1>6, <1>7 DEF LedgerOK, Folds, Backed
<1>8. ASSUME NEW e \in F, e.kind = "resolved"
      PROVE  Has(F, "proven", e.finding)
  BY <1>1, <1>6, <1>8 DEF LedgerOK, Folds, Has
<1>9. QED
  BY <1>2, <1>3, <1>4, <1>5, <1>7, <1>8 DEF LedgerOK

LEMMA StandsKept ==
  ASSUME NEW A, NEW B, NEW G, NEW H, Grows(A, B, G, H), G \subseteq Nat \ {0},
         NEW e, Stands(e, A, G)
  PROVE  Stands(e, B, H)
BY DEF Grows, Stands

LEMMA LedgerKept ==
  ASSUME NEW E, NEW A, NEW B, NEW G, NEW H, Grows(A, B, G, H), G \subseteq Nat \ {0},
         LedgerOK(E, A, G)
  PROVE  LedgerOK(E, B, H)
BY StandsKept DEF LedgerOK

(* What a job was allowed to do it may still do when the ledger, the       *)
(* authorizations and the green heads have grown.                          *)
LEMMA JobKept ==
  ASSUME NEW j, NEW s, NEW E, NEW F, E \subseteq F,
         NEW A, NEW B, NEW G, NEW H, Grows(A, B, G, H), G \subseteq Nat \ {0},
         JobOK(j, s, E, A, G)
  PROVE  JobOK(j, s, F, B, H)
<1>1. s \in JobState(F, B)
  BY DEF JobOK, JobState, Grows
<1>2. \A w \in s.writes : Backed(w, B, H)
  BY StandsKept DEF JobOK, Backed
<1>3. QED
  BY <1>1, <1>2 DEF JobOK

LEMMA OffOK ==
  ASSUME NEW j, NEW E, NEW A, NEW G
  PROVE  JobOK(j, Off, E, A, G)
<1>1. Off \in JobState(E, A)
  BY NoAuthType DEF Off, JobState
<1>2. QED
  BY <1>1, NoAuthType DEF JobOK, Off

LEMMA ScanningOK ==
  ASSUME NEW j, NEW E, NEW A, NEW G, NEW todo \in SUBSET (Findings \X DOMAIN A),
         \A p \in todo : p[1] \in p[2].findings
  PROVE  JobOK(j, Scanning(todo), E, A, G)
<1>1. CASE todo = {}
  BY <1>1, OffOK DEF Scanning
<1>2. CASE todo # {}
  <2>1. Scanning(todo) \in JobState(E, A)
    BY <1>2, NoAuthType DEF Scanning, Off, JobState
  <2>2. QED
    BY <1>2, <2>1, NoAuthType DEF JobOK, Scanning, Off
<1>3. QED
  BY <1>1, <1>2

LEMMA BatchOK ==
  ASSUME NEW j, NEW E, NEW A, NEW G,
         NEW writes \in SUBSET Entry, NEW then \in {"idle", "scan", "reply", "dispatch"},
         NEW auth \in Auth, NEW finding \in Findings \cup {0},
         NEW todo \in SUBSET (Findings \X DOMAIN A),
         \A w \in writes : Backed(w, A, G),
         \A p \in todo : p[1] \in p[2].findings,
         j = "remediate" =>
           \A f \in auth.findings :
             \E e \in E \cup writes : e.kind = "requested" /\ e.finding = f /\ e.auth = auth,
         j = "resolve" /\ finding # 0 =>
           \E e \in E \cup writes : e.kind = "proven" /\ e.finding = finding
  PROVE  JobOK(j, Batch(writes, then, auth, finding, todo), E, A, G)
<1> DEFINE s == Batch(writes, then, auth, finding, todo)
<1>1. /\ s.step = IF writes = {} THEN then ELSE "open"
      /\ s.writes = writes /\ s.then = then /\ s.auth = auth
      /\ s.finding = finding /\ s.todo = todo /\ s.view = {}
  BY DEF Batch, Off
<1>2. s \in JobState(E, A)
  BY DEF Batch, Off, JobState
<1> HIDE DEF s
<1>3. s.writes # {} => s.step \in {"open", "append"}
  BY <1>1
<1>4. (\A w \in s.writes : Backed(w, A, G)) /\ (\A p \in s.todo : p[1] \in p[2].findings)
  BY <1>1
<1>5. j = "remediate" =>
        \A f \in s.auth.findings :
          \E e \in E \cup s.writes : e.kind = "requested" /\ e.finding = f /\ e.auth = s.auth
  BY <1>1
<1>6. j = "resolve" /\ s.finding # 0 =>
        \E e \in E \cup s.writes : e.kind = "proven" /\ e.finding = s.finding
  BY <1>1
<1>7. JobOK(j, s, E, A, G)
  BY <1>2, <1>3, <1>4, <1>5, <1>6 DEF JobOK
<1>8. QED
  BY <1>7 DEF s

(* The record w of a batch is on the ledger F: the job may go on. *)
LEMMA RestOK ==
  ASSUME NEW j, JobOK(j, job[j], entries, auths, green), job[j].step = "append",
         NEW w \in job[j].writes, NEW F, entries \subseteq F, w \in F, NEW view \in SUBSET F
  PROVE  JobOK(j, Rest(j, w, view), F, auths, green)
<1> DEFINE left == job[j].writes \ {w}
<1>1. job[j] \in JobState(entries, auths)
  BY DEF JobOK
<1>2. CASE left = {} /\ job[j].then = "idle"
  BY <1>2, OffOK DEF Rest
<1>3. CASE left # {}
  <2> DEFINE s == [job[j] EXCEPT !.writes = left, !.view = view]
  <2>1. Rest(j, w, view) = s
    BY <1>3 DEF Rest
  <2>2. /\ s.step = "append" /\ s.writes = left /\ s.todo = job[j].todo
        /\ s.auth = job[j].auth /\ s.finding = job[j].finding
        /\ s \in JobState(F, auths)
    BY <1>1 DEF JobState
  <2>3. entries \cup job[j].writes \subseteq F \cup left
    OBVIOUS
  <2> HIDE DEF s
  <2>4. QED
    BY <2>1, <2>2, <2>3 DEF JobOK
<1>4. CASE left = {} /\ job[j].then # "idle"
  <2> DEFINE s == [job[j] EXCEPT !.writes = {}, !.view = {}, !.step = job[j].then]
  <2>1. Rest(j, w, view) = s
    BY <1>4 DEF Rest
  <2>2. /\ s.writes = {} /\ s.todo = job[j].todo
        /\ s.auth = job[j].auth /\ s.finding = job[j].finding
        /\ s \in JobState(F, auths)
    BY <1>1 DEF JobState
  <2>3. entries \cup job[j].writes \subseteq F
    BY <1>4
  <2> HIDE DEF s
  <2>4. QED
    BY <2>1, <2>2, <2>3 DEF JobOK
<1>5. QED
  BY <1>2, <1>3, <1>4

----------------------------------------------------------------------------
(* Steps of a job that leave the ledgers and GitHub as they are.           *)

Still == UNCHANGED <<entries, head, completed, green, thread, auths, late>>

LEMMA JobStep ==
  ASSUME Inv, NEW j \in Job, NEW s, JobOK(j, s, entries, auths, green), Set(j, s),
         Still, deaths' \in 0 .. MaxDeaths
  PROVE  Inv'
<1>1. /\ job' = [k \in Job |-> job'[k]]
      /\ \A k \in Job : job'[k] = IF k = j THEN s ELSE job[k]
  BY DEF Inv, Set
<1>2. \A k \in Job : JobOK(k, job'[k], entries, auths, green)
  BY <1>1 DEF Inv
<1>3. \A k \in Job : JobOK(k, job[k], entries, auths, green)'
  BY <1>2 DEF JobOK, JobState, Backed, Stands, Still
<1>4. WorldOK' /\ AuthsOK(auths, head)' /\ LedgerOK(entries, auths, green)'
  BY DEF Inv, WorldOK, AuthsOK, LedgerOK, Spent, Of, Has, Stands, Key, Still
<1>5. LateOK'
  <2>1. /\ late' = late /\ entries' = entries
        /\ \A w \in late : Refused(entries, w)' = Refused(entries, w)
        /\ \A w \in late : Backed(w, auths, green)' = Backed(w, auths, green)
    BY DEF Still, Refused, Folds, Has, Of, Attempts, Spent, Key, Backed, Stands
  <2>2. QED
    BY <2>1 DEF Inv, LateOK
<1>6. RequestedFirst' /\ Answered'
  BY DEF Inv, RequestedFirst, Answered, Has, Of, Still
<1>7. QED
  BY <1>1, <1>3, <1>4, <1>5, <1>6 DEF Inv

LEMMA OpenStep ==
  ASSUME Inv, NEW j \in Job, Open(j)
  PROVE  Inv'
<1> DEFINE s == [job[j] EXCEPT !.step = "append", !.view = entries]
<1>1. JobOK(j, job[j], entries, auths, green) /\ job[j] \in JobState(entries, auths)
  BY DEF Inv, JobOK
<1>2. /\ s.step = "append" /\ s.writes = job[j].writes /\ s.todo = job[j].todo
      /\ s.auth = job[j].auth /\ s.finding = job[j].finding
      /\ s \in JobState(entries, auths)
  BY <1>1 DEF JobState
<1>3. Still /\ Set(j, s) /\ deaths' \in 0 .. MaxDeaths
  BY DEF Open, Still, github, Inv, WorldOK
<1> HIDE DEF s
<1>4. JobOK(j, s, entries, auths, green)
  BY <1>1, <1>2 DEF JobOK
<1>5. QED
  BY <1>3, <1>4, JobStep

LEMMA SkipStep ==
  ASSUME Inv, NEW j \in Job, NEW w \in job[j].writes, Skip(j, w)
  PROVE  Inv'
<1>1. JobOK(j, job[j], entries, auths, green) /\ job[j].view \subseteq entries
  BY DEF Inv, JobOK, JobState
<1>2. JobOK(j, Rest(j, w, job[j].view), entries, auths, green)
  BY <1>1, RestOK DEF Skip, Current
<1>3. QED
  BY <1>2, JobStep DEF Skip, Still, github, Inv, WorldOK

LEMMA ConflictStep ==
  ASSUME Inv, NEW j \in Job, NEW w \in job[j].writes, Conflict(j, w)
  PROVE  Inv'
<1>1. JobOK(j, Scanning(job[j].todo), entries, auths, green)
  <2>1. /\ job[j].todo \in SUBSET (Findings \X DOMAIN auths)
        /\ \A p \in job[j].todo : p[1] \in p[2].findings
    BY DEF Inv, JobOK, JobState
  <2>2. QED
    BY <2>1, ScanningOK
<1>2. JobOK(j, Off, entries, auths, green)
  BY OffOK
<1>3. QED
  BY <1>1, <1>2, JobStep DEF Conflict, Still, github, Inv, WorldOK

LEMMA RaiseStep ==
  ASSUME Inv, NEW j \in Job, NEW w \in job[j].writes, Raise(j, w)
  PROVE  Inv'
BY OffOK, JobStep DEF Raise, Still, github, Inv, WorldOK

LEMMA ScanStep ==
  ASSUME Inv, Scan
  PROVE  Inv'
<1> DEFINE todo == {p \in Findings \X DOMAIN auths :
                      /\ Has(entries, "classified", p[1]) /\ ~Has(entries, "resolved", p[1])
                      /\ auths[p[2]].state = "published" /\ p[1] \in p[2].findings}
<1>1. JobOK("resolve", Scanning(todo), entries, auths, green)
  BY ScanningOK
<1>2. QED
  BY <1>1, JobStep DEF Scan, Job, Still, github, Inv, WorldOK

LEMMA IngestStep ==
  ASSUME Inv, Ingest
  PROVE  Inv'
<1> DEFINE new == {f \in Findings : thread[f] # "none" /\ ~Has(entries, "ingested", f)}
           writes == {Rec("ingested", f, 0, NoAuth, head) : f \in new}
                       \cup {Rec("ambiguous", f, 0, NoAuth, 0) : f \in new \cap Ambiguous}
<1>1. /\ \A f \in new : Rec("ingested", f, 0, NoAuth, head) \in Entry
      /\ \A f \in new \cap Ambiguous : Rec("ambiguous", f, 0, NoAuth, 0) \in Entry
  <2>1. head \in 0 .. MaxHead /\ 0 \in 0 .. MaxHead /\ 0 \in Nat
    BY KnowledgeAssumption DEF Inv, WorldOK
  <2>2. QED
    BY <2>1, RecType, NoAuthType DEF Kind
<1>2. \A w \in writes : w \in Entry /\ w.kind # "proven"
  BY <1>1 DEF Rec
<1>3. JobOK("ingest", Batch(writes, "idle", NoAuth, 0, {}), entries, auths, green)
  BY <1>2, BatchOK, NoAuthType DEF Backed
<1>4. QED
  BY <1>3, JobStep DEF Ingest, Job, Still, github, Inv, WorldOK

LEMMA RemediateStep ==
  ASSUME Inv, NEW f \in Findings, Remediate(f)
  PROVE  Inv'
<1> DEFINE a == Claims(f)
           request(g) == Rec("requested", g, Attempts(entries, g) + 1, a, 0)
           writes == {request(g) : g \in Eligible}
<1>1. IsFiniteSet(entries) /\ head \in 1 .. MaxHead
  BY DEF Inv, LedgerOK, WorldOK
<1>2. a \in Auth /\ a.findings = Eligible
  <2>1. Attempts(entries, f) \in Nat /\ Attempts(entries, f) < MaxPerFinding
    BY <1>1, AttemptsType DEF Remediate, Eligible
  <2>2. Attempts(entries, f) + 1 \in 0 .. MaxPerFinding
    BY <2>1, KnowledgeAssumption
  <2>3. Eligible \in SUBSET Findings /\ head \in 0 .. MaxHead
    BY <1>1, KnowledgeAssumption DEF Eligible
  <2>4. QED
    BY <2>2, <2>3 DEF Claims, Auth
<1> HIDE DEF a
<1>3. ASSUME NEW g \in Eligible
      PROVE  /\ request(g) \in Entry /\ request(g).kind = "requested"
             /\ request(g).finding = g /\ request(g).auth = a
  <2>1. Attempts(entries, g) + 1 \in Nat /\ g \in Findings
    BY <1>1, AttemptsType DEF Eligible
  <2>2. QED
    BY <1>2, <2>1, RecType, KnowledgeAssumption DEF Kind
<1>4. JobOK("remediate", Batch(writes, "dispatch", a, 0, {}), entries, auths, green)
  <2>1. \A w \in writes : w \in Entry /\ Backed(w, auths, green)
    BY <1>3 DEF Backed
  <2>2. \A g \in a.findings : \E e \in entries \cup writes :
          e.kind = "requested" /\ e.finding = g /\ e.auth = a
    BY <1>2, <1>3
  <2>3. QED
    BY <1>2, <2>1, <2>2, BatchOK
<1>5. QED
  BY <1>4, JobStep DEF Remediate, Job, Still, github, Inv, WorldOK, a

(* At the exact head, the proof of a finding is written, or was before. *)
LEMMA ProveStep ==
  ASSUME Inv, NEW f \in Findings, NEW a \in DOMAIN auths, Prove(f, a)
  PROVE  Inv'
<1> DEFINE rest == job["resolve"].todo \ {<<f, a>>}
           w == Rec("proven", f, 0, a, head)
           writes == IF Has(entries, "proven", f) THEN {} ELSE {w}
<1>1. /\ rest \in SUBSET (Findings \X DOMAIN auths)
      /\ \A p \in job["resolve"].todo : p[1] \in p[2].findings
  BY DEF Inv, Job, JobOK, JobState
<1>2. f \in a.findings /\ a \in Auth
  BY <1>1 DEF Prove, Inv, AuthsOK
<1>3. JobOK("resolve", Scanning(rest), entries, auths, green)
  BY <1>1, ScanningOK
<1>4. ASSUME Proves(f, a)
      PROVE  JobOK("resolve", Batch(writes, "reply", a, f, rest), entries, auths, green)
  <2>1. head \in 0 .. MaxHead
    BY KnowledgeAssumption DEF Inv, WorldOK
  <2>2. /\ w \in Entry /\ w.kind = "proven" /\ w.finding = f
        /\ w.auth = a /\ w.head = head
    BY <1>2, <2>1, RecType DEF Kind
  <2>3. Backed(w, auths, green)
    BY <1>2, <1>4, <2>2 DEF Backed, Stands, Proves
  <2>4. \E e \in entries \cup writes : e.kind = "proven" /\ e.finding = f
    BY <2>2 DEF Has, Of
  <2> HIDE DEF w
  <2>5. writes \in SUBSET Entry /\ \A v \in writes : Backed(v, auths, green)
    BY <2>2, <2>3
  <2>6. \A p \in rest : p[1] \in p[2].findings
    BY <1>1
  <2> HIDE DEF writes, rest
  <2>7. QED
    BY <1>1, <1>2, <2>4, <2>5, <2>6, BatchOK
<1>5. QED
  BY <1>3, <1>4, JobStep DEF Prove, Job, Still, github, Inv, WorldOK

----------------------------------------------------------------------------
(* Steps that move a ledger or GitHub.                                     *)

(* A record lands that the ledger admits, and every job is sound with it.  *)
LEMMA LandStep ==
  ASSUME Inv, NEW w \in Entry \ entries, ~Refused(entries, w), Backed(w, auths, green),
         entries' = entries \cup {w}, late' = {},
         UNCHANGED <<head, completed, green, thread, auths, deaths>>,
         job' = [k \in Job |-> job'[k]],
         \A k \in Job : JobOK(k, job'[k], entries', auths, green)
  PROVE  Inv'
<1>1. LedgerOK(entries', auths, green)
  BY AdmitKeepsLedger DEF Inv
<1>2. LedgerOK(entries, auths, green)' /\ WorldOK' /\ AuthsOK(auths, head)'
  BY <1>1 DEF Inv, LedgerOK, WorldOK, AuthsOK, Stands, Of, Has, Spent, Key
<1>3. \A k \in Job : JobOK(k, job[k], entries, auths, green)'
  BY DEF JobOK, JobState, Backed, Stands
<1>4. \A kind, f : Of(entries, kind, f) \subseteq Of(entries', kind, f)
  BY DEF Of
<1>5. RequestedFirst'
  BY <1>4 DEF Inv, RequestedFirst, Of
<1>6. Answered'
  BY <1>4 DEF Inv, Answered, Has, Of
<1>7. LateOK'
  BY DEF LateOK
<1>8. QED
  BY <1>2, <1>3, <1>5, <1>6, <1>7 DEF Inv

LEMMA WriteStep ==
  ASSUME Inv, NEW j \in Job, NEW w \in job[j].writes, Write(j, w)
  PROVE  Inv'
<1>1. /\ ~Refused(entries, w) /\ w \notin entries /\ job[j].step = "append"
      /\ entries' = entries \cup {w} /\ late' = {}
      /\ UNCHANGED <<head, completed, green, thread, auths, deaths>>
  BY DEF Write, Writing, Current, github
<1>2. w \in Entry /\ Backed(w, auths, green)
  BY DEF Inv, JobOK, JobState
<1>3. Grows(auths, auths, green, green) /\ green \subseteq Nat \ {0}
  BY DEF Grows, Inv, WorldOK
<1>4. JobOK(j, Rest(j, w, entries'), entries', auths, green)
  BY <1>1, RestOK DEF Inv
<1>5. \A k \in Job : JobOK(k, job[k], entries', auths, green)
  BY <1>1, <1>3, JobKept DEF Inv
<1>6. /\ job' = [k \in Job |-> job'[k]]
      /\ \A k \in Job : job'[k] = IF k = j THEN Rest(j, w, entries') ELSE job[k]
  BY DEF Write, Set, Inv
<1>7. QED
  BY <1>1, <1>2, <1>4, <1>5, <1>6, LandStep

LEMMA DeliverStep ==
  ASSUME Inv, NEW w \in late, Deliver(w)
  PROVE  Inv'
<1>1. /\ w \in Entry \ entries /\ ~Refused(entries, w) /\ Backed(w, auths, green)
      /\ entries' = entries \cup {w} /\ late' = {}
      /\ UNCHANGED <<head, completed, green, thread, auths, deaths, job>>
  BY DEF Deliver, Inv, LateOK, github
<1>2. Grows(auths, auths, green, green) /\ green \subseteq Nat \ {0}
  BY DEF Grows, Inv, WorldOK
<1>3. \A k \in Job : JobOK(k, job[k], entries', auths, green)
  BY <1>1, <1>2, JobKept DEF Inv
<1>4. QED
  BY <1>1, <1>3, LandStep DEF Inv

(* The ledger stays, the authorizations and the green heads may grow. *)
LEMMA WorldStep ==
  ASSUME Inv, Grows(auths, auths', green, green'), UNCHANGED <<entries, late>>,
         WorldOK', AuthsOK(auths', head'), RequestedFirst', Answered',
         job' = [k \in Job |-> job'[k]],
         \A k \in Job : JobOK(k, job'[k], entries, auths', green')
  PROVE  Inv'
<1>1. green \subseteq Nat \ {0}
  BY DEF Inv, WorldOK
<1>2. LedgerOK(entries, auths', green')
  BY <1>1, LedgerKept DEF Inv
<1>3. LedgerOK(entries, auths, green)' /\ AuthsOK(auths, head)'
  BY <1>2 DEF LedgerOK, AuthsOK, Stands, Of, Has, Spent, Key
<1>4. \A k \in Job : JobOK(k, job[k], entries, auths, green)'
  BY DEF JobOK, JobState, Backed, Stands
<1>5. LateOK'
  <2>1. /\ late' = late /\ entries' = entries
        /\ \A w \in late : Refused(entries, w)' = Refused(entries, w)
    BY DEF Refused, Folds, Has, Of, Attempts, Spent, Key
  <2>2. \A w \in late : Backed(w, auths', green')
    BY <1>1, StandsKept DEF Inv, LateOK, Backed
  <2>3. \A w \in late : Backed(w, auths, green)'
    BY <2>2 DEF Backed, Stands
  <2>4. QED
    BY <2>1, <2>3 DEF Inv, LateOK
<1>6. QED
  BY <1>3, <1>4, <1>5 DEF Inv

(* The jobs do not move while the authorizations and green heads grow. *)
LEMMA JobsWait ==
  ASSUME Inv, Grows(auths, auths', green, green'), UNCHANGED job
  PROVE  /\ job' = [k \in Job |-> job'[k]]
         /\ \A k \in Job : JobOK(k, job'[k], entries, auths', green')
<1>1. green \subseteq Nat \ {0}
  BY DEF Inv, WorldOK
<1>2. \A k \in Job : JobOK(k, job[k], entries, auths', green')
  BY <1>1, JobKept DEF Inv
<1>3. QED
  BY <1>2 DEF Inv

LEMMA SameRequested ==
  ASSUME RequestedFirst, UNCHANGED entries, DOMAIN auths' = DOMAIN auths
  PROVE  RequestedFirst'
BY DEF RequestedFirst, Of

LEMMA SameAnswered ==
  ASSUME Answered, UNCHANGED <<entries, thread>>
  PROVE  Answered'
BY DEF Answered, Has, Of

(* An authorization changes state, one that pushed only to completed. *)
LEMMA BecomeOK ==
  ASSUME Inv, NEW a \in DOMAIN auths, NEW state \in AuthState, Become(a, state),
         auths[a].to # 0 => state \in {"published", "completed"}
  PROVE  /\ AuthsOK(auths', head) /\ DOMAIN auths' = DOMAIN auths
         /\ Grows(auths, auths', green, green)
<1>1. auths \in [DOMAIN auths -> [state : AuthState, to : 0 .. head]]
  BY DEF Inv, AuthsOK
<1>2. /\ auths' \in [DOMAIN auths -> [state : AuthState, to : 0 .. head]]
      /\ \A b \in DOMAIN auths : auths'[b].to = auths[b].to
      /\ \A b \in DOMAIN auths : auths'[b].state = IF b = a THEN state ELSE auths[b].state
  BY <1>1 DEF Become
<1>3. DOMAIN auths' = DOMAIN auths
  BY <1>2
<1>4. AuthsOK(auths', head)
  BY <1>2, <1>3 DEF Inv, AuthsOK
<1>5. Grows(auths, auths', green, green)
  BY <1>2, <1>3 DEF Grows
<1>6. QED
  BY <1>3, <1>4, <1>5

LEMMA AnswerStep ==
  ASSUME Inv, NEW landed \in BOOLEAN, NEW known \in BOOLEAN, Answer(landed, known)
  PROVE  Inv'
<1> DEFINE r == job["resolve"]
           h == auths[r.auth].to
           w == Rec("resolved", r.finding, 0, NoAuth, h)
           writes == IF Has(entries, "resolved", r.finding)
                          \/ ~\E e \in Of(entries, "proven", r.finding) : e.head = h
                       THEN {} ELSE {w}
           next == IF writes = {} /\ r.todo = {} THEN Off
                   ELSE Batch(writes, IF r.todo = {} THEN "idle" ELSE "scan", NoAuth, 0, r.todo)
<1>1. /\ JobOK("resolve", r, entries, auths, green) /\ r \in JobState(entries, auths)
      /\ r.step = "reply" /\ r.writes = {}
  BY DEF Answer, Inv, JobOK, Job
<1>2. /\ r.finding \in Findings \cup {0}
      /\ r.todo \in SUBSET (Findings \X DOMAIN auths)
      /\ \A p \in r.todo : p[1] \in p[2].findings
      /\ r.finding # 0 => Has(entries, "proven", r.finding)
  BY <1>1 DEF JobOK, JobState, Has, Of
<1>3. \A v \in writes : v \in Entry /\ v.kind # "proven"
  <2> SUFFICES ASSUME writes # {}
               PROVE  w \in Entry /\ w.kind # "proven"
    OBVIOUS
  <2>1. PICK e \in entries : e.kind = "proven" /\ e.finding = r.finding /\ e.head = h
    BY DEF Of
  <2>2. r.finding \in Findings /\ h \in 0 .. MaxHead
    BY <2>1 DEF Inv, LedgerOK, Entry
  <2>3. QED
    BY <2>2, RecType, NoAuthType DEF Kind
<1> HIDE DEF w, writes
<1>4. JobOK("resolve", next, entries, auths, green)
  <2>1. \A v \in writes : Backed(v, auths, green)
    BY <1>3 DEF Backed
  <2>2. writes \in SUBSET Entry
    BY <1>3
  <2>3. JobOK("resolve", Batch(writes, "idle", NoAuth, 0, r.todo), entries, auths, green)
    BY <1>2, <2>1, <2>2, BatchOK, NoAuthType
  <2>4. JobOK("resolve", Batch(writes, "scan", NoAuth, 0, r.todo), entries, auths, green)
    BY <1>2, <2>1, <2>2, BatchOK, NoAuthType
  <2>5. QED
    BY <2>3, <2>4, OffOK
<1>5. JobOK("resolve", Scanning(r.todo), entries, auths, green)
  BY <1>2, ScanningOK
<1>6. /\ Set("resolve", next) \/ Set("resolve", Scanning(r.todo))
      /\ thread' \in {thread, [thread EXCEPT ![r.finding] = "answered"]}
      /\ deaths' \in 0 .. MaxDeaths
      /\ UNCHANGED <<entries, head, completed, green, auths, late>>
  <2>1. /\ thread' \in {thread, [thread EXCEPT ![r.finding] = "answered"]}
        /\ UNCHANGED <<entries, head, completed, green, auths, late>>
    BY DEF Answer
  <2>2. CASE known
    <3>1. Set("resolve", next) /\ deaths' = deaths
      BY <2>2 DEF Answer, writes, w
    <3>2. QED
      BY <2>1, <3>1 DEF Inv, WorldOK
  <2>3. CASE ~known
    <3>1. Set("resolve", Scanning(r.todo)) /\ deaths < MaxDeaths /\ deaths' = deaths + 1
      BY <2>3 DEF Answer
    <3>2. deaths' \in 0 .. MaxDeaths
      BY <3>1, KnowledgeAssumption DEF Inv, WorldOK
    <3>3. QED
      BY <2>1, <3>1, <3>2
  <2>4. QED
    BY <2>2, <2>3
<1> HIDE DEF next
<1>7. /\ job' = [k \in Job |-> job'[k]]
      /\ \A k \in Job : JobOK(k, job'[k], entries, auths', green')
  BY <1>4, <1>5, <1>6 DEF Inv, Set, Job
<1>8. WorldOK' /\ AuthsOK(auths', head')
  BY <1>6 DEF Inv, WorldOK
<1>9. Answered'
  <2> SUFFICES ASSUME NEW f \in Findings, thread'[f] = "answered"
               PROVE  Has(entries, "proven", f)
    BY <1>6 DEF Answered, Has, Of
  <2>1. CASE f = r.finding
    BY <1>2, <2>1, KnowledgeAssumption
  <2>2. CASE f # r.finding
    BY <1>6, <2>2 DEF Inv, WorldOK, Answered
  <2>3. QED
    BY <2>1, <2>2
<1>10. Grows(auths, auths', green, green')
  BY <1>6 DEF Grows
<1>11. RequestedFirst'
  BY <1>6, SameRequested DEF Inv
<1>12. QED
  BY <1>6, <1>7, <1>8, <1>9, <1>10, <1>11, WorldStep

(* The dispatch is the step that makes an authorization known: every one   *)
(* of its requests is on the ledger by then.                               *)
LEMMA DispatchStep ==
  ASSUME Inv, NEW accepted \in BOOLEAN, Dispatch(accepted)
  PROVE  Inv'
<1> DEFINE r == job["remediate"]
           a == r.auth
           B == [b \in DOMAIN auths \cup {a} |->
                   IF b \in DOMAIN auths THEN auths[b] ELSE [state |-> "dispatched", to |-> 0]]
<1>1. /\ JobOK("remediate", r, entries, auths, green) /\ r.step = "dispatch"
      /\ r.writes = {} /\ a \in Auth
  BY DEF Dispatch, Inv, JobOK, JobState, Job
<1>2. \A f \in a.findings : \E e \in Of(entries, "requested", f) : e.auth = a
  BY <1>1 DEF JobOK, Of
<1>3. /\ auths' \in {auths, B} /\ deaths' \in 0 .. MaxDeaths
      /\ Set("remediate", Off)
      /\ UNCHANGED <<entries, head, completed, green, thread, late>>
  BY KnowledgeAssumption DEF Dispatch, github, Inv, WorldOK
<1>4. AuthsOK(B, head) /\ Grows(auths, B, green, green) /\ DOMAIN B = DOMAIN auths \cup {a}
  BY <1>1 DEF AuthsOK, Grows, Inv, AuthState, WorldOK
<1>5. Grows(auths, auths, green, green)
  BY DEF Grows
<1>6. AuthsOK(auths', head') /\ Grows(auths, auths', green, green')
  BY <1>3, <1>4, <1>5 DEF Inv
<1>7. DOMAIN auths' \subseteq DOMAIN auths \cup {a}
  BY <1>3, <1>4
<1>8. RequestedFirst'
  BY <1>2, <1>3, <1>7 DEF Inv, RequestedFirst, Of
<1>9. WorldOK' /\ Answered'
  BY <1>3, SameAnswered DEF Inv, WorldOK
<1>10. /\ job' = [k \in Job |-> job'[k]]
       /\ \A k \in Job : JobOK(k, job'[k], entries, auths', green')
  <2>1. green \subseteq Nat \ {0}
    BY DEF Inv, WorldOK
  <2>2. \A k \in Job : JobOK(k, job[k], entries, auths', green')
    BY <1>6, <2>1, JobKept DEF Inv
  <2>3. QED
    BY <1>3, <2>2, OffOK DEF Inv, Set
<1>11. QED
  BY <1>3, <1>6, <1>8, <1>9, <1>10, WorldStep

(* A dead job leaves at most one push under way, one the ledger admits. *)
LEMMA DieStep ==
  ASSUME Inv, NEW j \in Job, Die(j)
  PROVE  Inv'
<1>1. /\ Set(j, Off) /\ deaths' \in 0 .. MaxDeaths
      /\ UNCHANGED <<entries, head, completed, green, thread, auths>>
  BY KnowledgeAssumption DEF Die, github, Inv, WorldOK
<1>2. CASE UNCHANGED late
  BY <1>1, <1>2, OffOK, JobStep DEF Still
<1>3. CASE /\ job[j].view = entries
           /\ \E w \in job[j].writes : Writing(j, w) /\ late' = late \cup {w}
  <2>1. PICK w \in job[j].writes : Writing(j, w) /\ late' = late \cup {w}
    BY <1>3
  <2>2. /\ w \in Entry \ entries /\ ~Refused(entries, w) /\ Backed(w, auths, green)
    BY <1>3, <2>1 DEF Writing, Inv, JobOK, JobState
  <2>3. \A v \in late' : v \in Entry \ entries /\ ~Refused(entries, v) /\ Backed(v, auths, green)
    BY <2>1, <2>2 DEF Inv, LateOK
  <2>4. LateOK'
    BY <1>1, <2>3 DEF LateOK, Refused, Folds, Has, Of, Attempts, Spent, Key, Backed, Stands
  <2>5. /\ job' = [k \in Job |-> job'[k]]
        /\ \A k \in Job : JobOK(k, job'[k], entries, auths, green)
    BY <1>1, OffOK DEF Inv, Set
  <2>6. \A k \in Job : JobOK(k, job[k], entries, auths, green)'
    BY <1>1, <2>5 DEF JobOK, JobState, Backed, Stands
  <2>7. WorldOK' /\ AuthsOK(auths, head)' /\ LedgerOK(entries, auths, green)'
    BY <1>1 DEF Inv, WorldOK, AuthsOK, LedgerOK, Spent, Of, Has, Stands, Key
  <2>8. RequestedFirst' /\ Answered'
    BY <1>1, SameRequested, SameAnswered DEF Inv
  <2>9. QED
    BY <2>4, <2>5, <2>6, <2>7, <2>8 DEF Inv
<1>4. QED
  BY <1>2, <1>3 DEF Die

(* Reviewers and the hosted preflight. *)
LEMMA ReviewersStep ==
  ASSUME Inv, Preflight \/ \E f \in Findings : Review(f) \/ ResolveByHand(f)
  PROVE  Inv'
<1>1. /\ UNCHANGED <<entries, late, head, completed, auths, job, deaths>>
      /\ green \subseteq green' /\ green' \subseteq 1 .. head
      /\ thread' \in [Findings -> {"none", "current", "outdated", "resolved", "answered"}]
      /\ \A f \in Findings : thread'[f] = "answered" => thread[f] = "answered"
  BY DEF Preflight, Review, ResolveByHand, Inv, WorldOK
<1>2. Grows(auths, auths', green, green')
  BY <1>1 DEF Grows
<1>3. WorldOK' /\ AuthsOK(auths', head')
  BY <1>1 DEF Inv, WorldOK
<1>4. RequestedFirst' /\ Answered'
  BY <1>1, SameRequested DEF Inv, Answered, Has, Of
<1>5. QED
  BY <1>1, <1>2, <1>3, <1>4, JobsWait, WorldStep

LEMMA MovesOK ==
  ASSUME Inv, NEW touched \in SUBSET Findings, Moves(touched), UNCHANGED <<completed, deaths>>
  PROVE  /\ WorldOK' /\ head' = head + 1 /\ green' = green
         /\ \A f \in Findings : thread'[f] = "answered" => thread[f] = "answered"
<1>1. /\ head' = head + 1 /\ head' \in 1 .. MaxHead /\ green' = green
      /\ 1 .. head \subseteq 1 .. head'
  BY KnowledgeAssumption DEF Moves, Inv, WorldOK
<1>2. /\ thread' \in [Findings -> {"none", "current", "outdated", "resolved", "answered"}]
      /\ \A f \in Findings : thread'[f] = "answered" => thread[f] = "answered"
  BY DEF Moves, Inv, WorldOK
<1>3. WorldOK'
  BY <1>1, <1>2 DEF Inv, WorldOK
<1>4. QED
  BY <1>1, <1>2, <1>3

LEMMA ForeignPushStep ==
  ASSUME Inv, NEW touched \in SUBSET Findings, ForeignPush(touched)
  PROVE  Inv'
<1>1. /\ WorldOK' /\ head' = head + 1 /\ green' = green
      /\ \A f \in Findings : thread'[f] = "answered" => thread[f] = "answered"
      /\ UNCHANGED <<entries, completed, auths, job, late, deaths>>
  BY MovesOK DEF ForeignPush
<1>2. AuthsOK(auths', head')
  <2>1. 0 .. head \subseteq 0 .. head'
    BY <1>1 DEF Inv, WorldOK
  <2>2. auths \in [DOMAIN auths -> [state : AuthState, to : 0 .. head']]
    BY <2>1 DEF Inv, AuthsOK
  <2>3. QED
    BY <1>1, <2>2 DEF Inv, AuthsOK
<1>3. Grows(auths, auths', green, green')
  BY <1>1 DEF Grows
<1>4. RequestedFirst' /\ Answered'
  BY <1>1, SameRequested DEF Inv, Answered, Has, Of
<1>5. QED
  BY <1>1, <1>2, <1>3, <1>4, JobsWait, WorldStep

LEMMA PublishFixStep ==
  ASSUME Inv, NEW a \in DOMAIN auths, NEW touched \in SUBSET Findings, PublishFix(a, touched)
  PROVE  Inv'
<1>1. /\ WorldOK' /\ head' = head + 1 /\ green' = green
      /\ \A f \in Findings : thread'[f] = "answered" => thread[f] = "answered"
      /\ UNCHANGED <<entries, completed, job, late, deaths>>
  BY MovesOK DEF PublishFix
<1>2. /\ auths \in [DOMAIN auths -> [state : AuthState, to : 0 .. head]]
      /\ auths[a].to = 0
  BY DEF PublishFix, Inv, AuthsOK
<1>3. 0 .. head \subseteq 0 .. head' /\ head + 1 \in 0 .. head'
  BY <1>1 DEF Inv, WorldOK
<1>4. auths \in [DOMAIN auths -> [state : AuthState, to : 0 .. head']]
  BY <1>2, <1>3
<1>5. /\ auths' \in [DOMAIN auths -> [state : AuthState, to : 0 .. head']]
      /\ auths'[a].state = "published"
      /\ \A b \in DOMAIN auths : b # a => auths'[b] = auths[b]
  BY <1>3, <1>4 DEF PublishFix, AuthState
<1>6. DOMAIN auths' = DOMAIN auths
  BY <1>5
<1>7. AuthsOK(auths', head')
  BY <1>5, <1>6 DEF Inv, AuthsOK
<1>8. Grows(auths, auths', green, green')
  BY <1>1, <1>2, <1>5, <1>6 DEF Grows
<1>9. RequestedFirst' /\ Answered'
  BY <1>1, <1>6, SameRequested DEF Inv, Answered, Has, Of
<1>10. QED
  BY <1>1, <1>7, <1>8, <1>9, JobsWait, WorldStep

(* The other steps of a remediation authorization. *)
LEMMA BecomeStep ==
  ASSUME Inv, NEW a \in DOMAIN auths, Claim(a) \/ Complete(a) \/ Fail(a)
  PROVE  Inv'
<1>1. PICK state \in AuthState :
        /\ Become(a, state)
        /\ auths[a].to # 0 => state \in {"published", "completed"}
  BY DEF Claim, Complete, Fail, AuthState, Inv, AuthsOK
<1>2. /\ AuthsOK(auths', head) /\ DOMAIN auths' = DOMAIN auths
      /\ Grows(auths, auths', green, green)
  BY <1>1, BecomeOK
<1>3. /\ UNCHANGED <<entries, late, head, green, thread, job, deaths>>
      /\ completed' \in {completed, auths[a].to}
      /\ completed' # completed => auths[a].to \in green
  BY DEF Claim, Complete, Fail, github
<1>4. WorldOK'
  BY <1>3 DEF Inv, WorldOK
<1>5. RequestedFirst' /\ Answered'
  BY <1>2, <1>3, SameRequested, SameAnswered DEF Inv
<1>6. QED
  BY <1>2, <1>3, <1>4, <1>5, JobsWait, WorldStep

LEMMA ValidateStep ==
  ASSUME Inv, NEW a \in DOMAIN auths, NEW proven \in SUBSET Findings, Validate(a, proven)
  PROVE  Inv'
<1>1. /\ Become(a, "validated") /\ "validated" \in AuthState
      /\ auths[a].to # 0 => FALSE
      /\ UNCHANGED <<entries, late, head, completed, green, thread, deaths>>
  BY DEF Validate, AuthState, Inv, AuthsOK, github
<1>2. /\ AuthsOK(auths', head) /\ DOMAIN auths' = DOMAIN auths
      /\ Grows(auths, auths', green, green)
  BY <1>1, BecomeOK
<1>3. /\ job' = [k \in Job |-> job'[k]]
      /\ \A k \in Job : JobOK(k, job'[k], entries, auths', green')
  <2>1. CASE UNCHANGED job
    BY <1>1, <1>2, <2>1, JobsWait
  <2>2. CASE \E f \in proven :
               Set("record", Batch({Rec("classified", f, 0, a, 0)}, "idle", NoAuth, 0, {}))
    <3>1. PICK f \in proven :
            Set("record", Batch({Rec("classified", f, 0, a, 0)}, "idle", NoAuth, 0, {}))
      BY <2>2
    <3>2. a \in Auth /\ 0 \in 0 .. MaxHead /\ 0 \in Nat
      BY KnowledgeAssumption DEF Inv, AuthsOK
    <3>3. /\ Rec("classified", f, 0, a, 0) \in Entry
          /\ Rec("classified", f, 0, a, 0).kind # "proven"
      BY <3>2, RecType DEF Kind
    <3>4. JobOK("record", Batch({Rec("classified", f, 0, a, 0)}, "idle", NoAuth, 0, {}),
                entries, auths', green')
      BY <3>3, BatchOK, NoAuthType DEF Backed
    <3>5. green \subseteq Nat \ {0}
      BY DEF Inv, WorldOK
    <3>6. \A k \in Job : JobOK(k, job[k], entries, auths', green')
      BY <1>1, <1>2, <3>5, JobKept DEF Inv
    <3>7. QED
      BY <3>1, <3>4, <3>6 DEF Inv, Set
  <2>3. QED
    BY <2>1, <2>2 DEF Validate
<1>4. WorldOK' /\ RequestedFirst' /\ Answered'
  BY <1>1, <1>2, SameRequested, SameAnswered DEF Inv, WorldOK
<1>5. QED
  BY <1>1, <1>2, <1>3, <1>4, WorldStep

LEMMA NextPreserves ==
  ASSUME Inv, [Next]_vars
  PROVE  Inv'
<1>1. ASSUME NEW a \in DOMAIN auths, Validate(a, {}) \/ Validate(a, a.findings)
      PROVE  Inv'
  <2>1. a.findings \in SUBSET Findings /\ {} \in SUBSET Findings
    BY DEF Inv, AuthsOK, Auth
  <2>2. QED
    BY <1>1, <2>1, ValidateStep
<1>2. ASSUME NEW a \in DOMAIN auths, NEW touched \in SUBSET Findings, PublishFix(a, touched)
      PROVE  Inv'
  BY <1>2, PublishFixStep
<1>3. ASSUME NEW j \in Job, Open(j) \/ Die(j)
      PROVE  Inv'
  BY <1>3, OpenStep, DieStep
<1>4. ASSUME NEW j \in Job, NEW w \in job[j].writes,
             Skip(j, w) \/ Write(j, w) \/ Conflict(j, w) \/ Raise(j, w)
      PROVE  Inv'
  BY <1>4, SkipStep, WriteStep, ConflictStep, RaiseStep
<1>5. CASE UNCHANGED vars
  <2>1. UNCHANGED <<entries, head, completed, green, thread, auths, job, late, deaths>>
    BY <1>5 DEF vars
  <2>2. Grows(auths, auths', green, green') /\ WorldOK' /\ AuthsOK(auths', head')
    BY <2>1 DEF Grows, Inv, WorldOK
  <2>3. RequestedFirst' /\ Answered'
    BY <2>1, SameRequested, SameAnswered DEF Inv
  <2>4. QED
    BY <2>1, <2>2, <2>3, JobsWait, WorldStep
<1>6. QED
  BY <1>1, <1>2, <1>3, <1>4, <1>5, ReviewersStep, ForeignPushStep, BecomeStep, IngestStep,
     RemediateStep, ScanStep, ProveStep, DispatchStep, AnswerStep, DeliverStep
  DEF Next

LEMMA InitHolds == Init => Inv
<1> SUFFICES ASSUME Init PROVE Inv
  OBVIOUS
<1>1. entries = {} /\ auths = <<>> /\ DOMAIN auths = {}
  BY DEF Init
<1>2. WorldOK
  BY KnowledgeAssumption DEF Init, WorldOK
<1>3. AuthsOK(auths, head)
  BY <1>1 DEF AuthsOK
<1>4. LedgerOK(entries, auths, green)
  <2>1. {e \in entries : e.kind = "requested"} = {}
    BY <1>1
  <2>2. Spent(entries) = 0
    BY <2>1, FS_EmptySet DEF Spent
  <2>3. QED
    BY <1>1, <2>2, FS_EmptySet, KnowledgeAssumption DEF LedgerOK
<1>5. LateOK /\ RequestedFirst /\ Answered
  BY <1>1 DEF Init, LateOK, RequestedFirst, Answered
<1>6. /\ job = [j \in Job |-> job[j]]
      /\ \A j \in Job : JobOK(j, job[j], entries, auths, green)
  BY OffOK DEF Init
<1>7. QED
  BY <1>2, <1>3, <1>4, <1>5, <1>6 DEF Inv

(* Two authorizations that name a finding have requests of it with         *)
(* different attempts, so at most MaxPerFinding of them exist.             *)
LEMMA AuthorizationsOfFinding ==
  ASSUME Inv, NEW f \in Findings
  PROVE  Cardinality({a \in DOMAIN auths : f \in a.findings}) <= MaxPerFinding
<1> DEFINE S == {a \in DOMAIN auths : f \in a.findings}
           For(a, n) == \E e \in Of(entries, "requested", f) : e.auth = a /\ e.attempt = n
           g == [a \in S |-> CHOOSE n \in 1 .. MaxPerFinding : For(a, n)]
<1>1. ASSUME NEW a \in S
      PROVE  \E n \in 1 .. MaxPerFinding : For(a, n)
  <2>1. PICK e \in Of(entries, "requested", f) : e.auth = a
    BY DEF Inv, RequestedFirst
  <2>2. e.attempt \in 1 .. MaxPerFinding
    BY <2>1 DEF Inv, LedgerOK, Of
  <2>3. QED
    BY <2>1, <2>2
<1>2. \A a \in S : g[a] \in 1 .. MaxPerFinding /\ For(a, g[a])
  BY <1>1
<1>3. ASSUME NEW a \in S, NEW b \in S, g[a] = g[b]
      PROVE  a = b
  <2>1. PICK d \in Of(entries, "requested", f) : d.auth = a /\ d.attempt = g[a]
    BY <1>2
  <2>2. PICK e \in Of(entries, "requested", f) : e.auth = b /\ e.attempt = g[b]
    BY <1>2
  <2>3. Key(d) = Key(e)
    BY <1>3, <2>1, <2>2 DEF Key, Of
  <2>4. d = e
    BY <2>3 DEF Inv, LedgerOK, Of
  <2>5. QED
    BY <2>1, <2>2, <2>4
<1>4. g \in Injection(S, 1 .. MaxPerFinding)
  <2>1. g \in [S -> 1 .. MaxPerFinding]
    BY <1>2
  <2>2. QED
    BY <1>3, <2>1 DEF Injection, IsInjective
<1>5. IsFiniteSet(1 .. MaxPerFinding) /\ Cardinality(1 .. MaxPerFinding) = MaxPerFinding
  BY FS_Interval, KnowledgeAssumption
<1>6. QED
  BY <1>4, <1>5, FS_Injection

----------------------------------------------------------------------------
(* Theorems.                                                               *)

(* Every reachable state is one of the inductive invariant. *)
THEOREM InvHolds == Spec => []Inv
<1>1. Inv /\ [Next]_vars => Inv'
  BY NextPreserves
<1>2. QED
  BY <1>1, InitHolds, PTL DEF Spec

(* Records, authorizations and jobs have their shapes; the attempt of an   *)
(* authorization (issue_agent_remediation.py, remediation_authorization)   *)
(* is within the budget of a finding.                                      *)
THEOREM TypeCorrect == Spec => []TypeOK
<1>1. Inv => TypeOK
  <2> SUFFICES ASSUME Inv PROVE TypeOK
    OBVIOUS
  <2>1. \A j \in Job : job[j] \in JobState(entries, auths)
    BY DEF Inv, JobOK
  <2>2. job \in [Job -> JobState(entries, auths)]
    BY <2>1 DEF Inv
  <2>3. late \subseteq Entry \ entries
    BY DEF Inv, LateOK
  <2>4. QED
    BY <2>2, <2>3 DEF Inv, WorldOK, AuthsOK, LedgerOK, TypeOK, JobState
<1>2. QED
  BY <1>1, InvHolds, PTL

(* Records are insert-only: apply refuses a key that is taken, and a push  *)
(* lands only on the ledger the record was checked against.                *)
THEOREM OneRecordCorrect == Spec => []OneRecordPerKey
<1>1. Inv => OneRecordPerKey
  BY DEF Inv, LedgerOK, OneRecordPerKey
<1>2. QED
  BY <1>1, InvHolds, PTL

(* cmd_remediate dispatches an authorization only when the requests of all *)
(* its findings are on the ledger.                                         *)
THEOREM RequestedCorrect == Spec => []RequestedFirst
<1>1. Inv => RequestedFirst
  BY DEF Inv
<1>2. QED
  BY <1>1, InvHolds, PTL

(* Both remediation budgets hold, of the pull request on the ledger and of *)
(* a finding among the authorizations delivered.                           *)
THEOREM BudgetCorrect == Spec => []BudgetHolds
<1>1. Inv => BudgetHolds
  <2> SUFFICES ASSUME Inv PROVE BudgetHolds
    OBVIOUS
  <2>1. Spent(entries) <= MaxPerPR
    BY DEF Inv, LedgerOK
  <2>2. QED
    BY <2>1, AuthorizationsOfFinding DEF BudgetHolds
<1>2. QED
  BY <1>1, InvHolds, PTL

(* A thread is answered, or recorded resolved, only after exact_head_proof *)
(* held of its finding, whatever died, raced or got lost in between.       *)
THEOREM ProofCorrect == Spec => []ProofFirst
<1>1. Inv => ProofFirst
  <2> SUFFICES ASSUME Inv, NEW f \in Findings,
                      thread[f] = "answered" \/ Has(entries, "resolved", f)
               PROVE  \E e \in Of(entries, "proven", f) :
                        /\ e.head \in green
                        /\ auths[e.auth].to = e.head
                        /\ f \in e.auth.findings
                        /\ \E c \in Of(entries, "classified", f) : c.auth = e.auth
    BY DEF ProofFirst
  <2>1. Has(entries, "proven", f)
    BY DEF Inv, Answered, LedgerOK, Has, Of
  <2>2. PICK e \in Of(entries, "proven", f) : TRUE
    BY <2>1 DEF Has
  <2>3. e \in entries /\ e.kind = "proven" /\ e.finding = f
    BY DEF Of
  <2>4. Stands(e, auths, green) /\ \E c \in Of(entries, "classified", f) : c.auth = e.auth
    BY <2>3 DEF Inv, LedgerOK
  <2>5. QED
    BY <2>3, <2>4 DEF Stands
<1>2. QED
  BY <1>1, InvHolds, PTL

=============================================================================
