------------------------- MODULE IssueLedgerProofs -------------------------
(***************************************************************************)
(* Proofs about the ledger fold, for every set of authorizations, runs,    *)
(* nonces and digests.  The facts about one authorization are proved for   *)
(* one AuthorizationView c and one record r (constant level); the facts    *)
(* about the Issue's index relate all of them.                             *)
(***************************************************************************)
EXTENDS IssueLedger, TLAPS

(* A fallback is admitted exactly on the way through FALLBACK_AUTHORIZED:  *)
(* the strengthening EvidenceLineage needs at RESULT_BOUND.                *)
AdmissionTracked(c) ==
  /\ c.state \in {"NONE", "AUTHORIZED"} => ~c.admitted
  /\ c.state = "FALLBACK_AUTHORIZED" => c.admitted

(* What holds of one authorization on its own. *)
Sound(c) == PendingMatches(c) /\ WithinBudget(c) /\ OneLineage(c) /\ AdmissionTracked(c)

(* The inductive invariant. *)
Inv ==
  /\ TypeOK
  /\ IndexAgreesWithChain
  /\ \A a \in Auth : Sound(view.auths[a])
  /\ BranchLineage

(* What folding one record makes of the authorization c it names: a sound  *)
(* view d in state s, on the branch and with the parent c already had.     *)
Carries(c, d, s) ==
  /\ d \in AuthView /\ Sound(d)
  /\ d.state = s /\ d.parent = c.parent /\ d.branch = c.branch

----------------------------------------------------------------------------
(* One authorization.                                                      *)

LEMMA NoPendingType == NoPending \in Pending
  BY NullsAssumption DEF NoPending, Pending

LEMMA StateNames ==
  /\ "NONE" \in AnyState
  /\ "AUTHORIZED" \in AnyState /\ "FALLBACK_AUTHORIZED" \in AnyState
  /\ "RESULT_BOUND" \in AnyState /\ "VALIDATED" \in AnyState
  /\ "PUBLISHED" \in AnyState /\ "COMPLETED" \in AnyState /\ "FAILED" \in AnyState
  BY DEF AnyState, States, LiveStates, TerminalStates

(* A value of each record field is a value of the view's field. *)
LEMMA OptionalTypes ==
  /\ Run \subseteq OptRun /\ NoRun \in OptRun
  /\ Auth \subseteq OptAuth /\ NoAuth \in OptAuth
  /\ Digest \subseteq OptDigest /\ NoDigest \in OptDigest
  /\ Identity \subseteq OptIdentity /\ NoIdentity \in OptIdentity
  BY DEF OptRun, OptAuth, OptDigest, OptIdentity

LEMMA UnclaimedSound == Unclaimed \in AuthView /\ Sound(Unclaimed)
<1>1. Unclaimed \in AuthView
  <2>1. [stage \in Stages |-> 0] \in Attempts
    BY DEF Attempts
  <2>2. QED
    BY <2>1, NoPendingType, StateNames, OptionalTypes DEF Unclaimed, AuthView
<1>2. Sound(Unclaimed)
  BY DEF Unclaimed, Sound, PendingMatches, WithinBudget, OneLineage, AdmissionTracked,
         ResultStates, NoPending, Stages
<1>3. QED
  BY <1>1, <1>2

LEMMA AuthorizedSound ==
  ASSUME NEW c \in AuthView, Sound(c), NEW r \in AuthorizedRecord,
         r.state \in LegalTransitions(c.state)
  PROVE  /\ c.state = "NONE"
         /\ FoldTransition(c, r) \in AuthView /\ Sound(FoldTransition(c, r))
         /\ FoldTransition(c, r).state = "AUTHORIZED"
         /\ FoldTransition(c, r).parent = r.parent
         /\ FoldTransition(c, r).branch = r.branch
<1> DEFINE d == [c EXCEPT !.owner = r.run, !.offer = r.offer, !.parent = r.parent,
                          !.branch = r.branch, !.state = "AUTHORIZED",
                          !.pending = NoPending]
<1>1. r.state = "AUTHORIZED" /\ r.run \in Run /\ r.offer \in BOOLEAN
      /\ r.parent \in OptAuth /\ r.branch \in OptAuth
  BY DEF AuthorizedRecord, OptAuth
<1>2. FoldTransition(c, r) = d
  BY <1>1 DEF FoldTransition, FoldEvidence
<1>3. d \in AuthView
  BY <1>1, NoPendingType, StateNames, OptionalTypes DEF AuthView
<1>4. c.state = "NONE"
  BY <1>1 DEF LegalTransitions, AuthView, AnyState, States, LiveStates, TerminalStates
<1>5. /\ d.state = "AUTHORIZED" /\ d.pending = NoPending
      /\ d.attempts = c.attempts /\ d.admitted = c.admitted
      /\ d.parent = r.parent /\ d.branch = r.branch
  BY DEF AuthView
<1>6. Sound(d)
  BY <1>4, <1>5 DEF Sound, PendingMatches, WithinBudget, OneLineage, AdmissionTracked,
                    ResultStates, NoPending
<1>7. QED
  BY <1>2, <1>3, <1>4, <1>5, <1>6

LEMMA FallbackSound ==
  ASSUME NEW c \in AuthView, Sound(c), NEW r \in FallbackRecord,
         r.state \in LegalTransitions(c.state)
  PROVE  Carries(c, FoldTransition(c, r), r.state)
<1> DEFINE d == [c EXCEPT !.admitted = TRUE, !.state = "FALLBACK_AUTHORIZED",
                          !.pending = NoPending]
<1>1. r.state = "FALLBACK_AUTHORIZED"
  BY DEF FallbackRecord
<1>2. FoldTransition(c, r) = d
  BY <1>1 DEF FoldTransition, FoldEvidence
<1>3. d \in AuthView
  BY <1>1, NoPendingType, StateNames, OptionalTypes DEF AuthView
<1>4. /\ d.state = "FALLBACK_AUTHORIZED" /\ d.pending = NoPending
      /\ d.attempts = c.attempts /\ d.admitted = TRUE
      /\ d.parent = c.parent /\ d.branch = c.branch
  BY DEF AuthView
<1>5. Sound(d)
  BY <1>4 DEF Sound, PendingMatches, WithinBudget, OneLineage, AdmissionTracked,
              ResultStates, NoPending
<1>6. QED
  BY <1>1, <1>2, <1>3, <1>4, <1>5 DEF Carries

LEMMA BoundSound ==
  ASSUME NEW c \in AuthView, Sound(c), NEW r \in BoundRecord,
         r.state \in LegalTransitions(c.state), CrossBindings(c, r)
  PROVE  Carries(c, FoldTransition(c, r), r.state)
<1> DEFINE d == [c EXCEPT !.fromFallback = r.fallback, !.result = r.result,
                          !.state = "RESULT_BOUND", !.pending = NoPending]
<1>1. r.state = "RESULT_BOUND" /\ r.fallback \in BOOLEAN /\ r.result \in Digest
  BY DEF BoundRecord
<1>2. FoldTransition(c, r) = d
  BY <1>1 DEF FoldTransition, FoldEvidence
<1>3. d \in AuthView
  BY <1>1, NoPendingType, StateNames, OptionalTypes DEF AuthView
<1>4. c.state \in {"AUTHORIZED", "FALLBACK_AUTHORIZED"}
  BY <1>1 DEF LegalTransitions, AuthView, AnyState, States, LiveStates, TerminalStates
<1>5. r.fallback = (c.state = "FALLBACK_AUTHORIZED")
  BY <1>1 DEF CrossBindings
<1>6. c.admitted \in BOOLEAN /\ r.fallback = c.admitted
  BY <1>1, <1>4, <1>5 DEF Sound, AdmissionTracked, AuthView
<1>7. /\ d.state = "RESULT_BOUND" /\ d.pending = NoPending
      /\ d.attempts = c.attempts /\ d.admitted = c.admitted
      /\ d.fromFallback = r.fallback
      /\ d.parent = c.parent /\ d.branch = c.branch
  BY DEF AuthView
<1>8. Sound(d)
  BY <1>6, <1>7 DEF Sound, PendingMatches, WithinBudget, OneLineage, AdmissionTracked,
                    ResultStates, NoPending
<1>9. QED
  BY <1>1, <1>2, <1>3, <1>7, <1>8 DEF Carries

LEMMA ValidatedSound ==
  ASSUME NEW c \in AuthView, Sound(c), NEW r \in ValidatedRecord,
         r.state \in LegalTransitions(c.state), CrossBindings(c, r)
  PROVE  Carries(c, FoldTransition(c, r), r.state)
<1> DEFINE d == [c EXCEPT !.validated = r.result, !.commit = r.commit,
                          !.state = "VALIDATED", !.pending = NoPending]
<1>1. r.state = "VALIDATED" /\ r.result \in Digest /\ r.commit \in Digest
  BY DEF ValidatedRecord
<1>2. FoldTransition(c, r) = d
  BY <1>1 DEF FoldTransition, FoldEvidence
<1>3. d \in AuthView
  BY <1>1, NoPendingType, StateNames, OptionalTypes DEF AuthView
<1>4. c.state = "RESULT_BOUND"
  BY <1>1 DEF LegalTransitions, AuthView, AnyState, States, LiveStates, TerminalStates
<1>5. r.result = c.result
  BY <1>1 DEF CrossBindings
<1>6. /\ d.state = "VALIDATED" /\ d.pending = NoPending
      /\ d.attempts = c.attempts /\ d.admitted = c.admitted
      /\ d.fromFallback = c.fromFallback /\ d.result = c.result
      /\ d.validated = r.result
      /\ d.parent = c.parent /\ d.branch = c.branch
  BY DEF AuthView
<1>7. Sound(d)
  BY <1>4, <1>5, <1>6 DEF Sound, PendingMatches, WithinBudget, OneLineage,
                          AdmissionTracked, ResultStates, NoPending
<1>8. QED
  BY <1>1, <1>2, <1>3, <1>6, <1>7 DEF Carries

LEMMA PublishedSound ==
  ASSUME NEW c \in AuthView, Sound(c), NEW r \in PublishedRecord,
         r.state \in LegalTransitions(c.state), CrossBindings(c, r)
  PROVE  Carries(c, FoldTransition(c, r), r.state)
<1> DEFINE d == [c EXCEPT !.identity = r.identity, !.head = r.head,
                          !.state = "PUBLISHED", !.pending = NoPending]
<1>1. r.state = "PUBLISHED" /\ r.identity \in Identity /\ r.head \in Digest
  BY DEF PublishedRecord
<1>2. FoldTransition(c, r) = d
  BY <1>1 DEF FoldTransition, FoldEvidence
<1>3. d \in AuthView
  BY <1>1, NoPendingType, StateNames, OptionalTypes DEF AuthView
<1>4. c.state = "VALIDATED"
  BY <1>1 DEF LegalTransitions, AuthView, AnyState, States, LiveStates, TerminalStates
<1>5. r.identity = [execution |-> ExecutionId(c), result |-> c.validated,
                    commit |-> c.commit]
  BY <1>1 DEF CrossBindings
<1>6. c.validated = c.result /\ c.fromFallback = c.admitted
  BY <1>4 DEF Sound, OneLineage, ResultStates
<1>7. /\ d.state = "PUBLISHED" /\ d.pending = NoPending
      /\ d.attempts = c.attempts /\ d.admitted = c.admitted
      /\ d.fromFallback = c.fromFallback /\ d.result = c.result
      /\ d.validated = c.validated /\ d.commit = c.commit
      /\ d.identity = r.identity
      /\ d.parent = c.parent /\ d.branch = c.branch
  BY DEF AuthView
<1>8. d.identity = [execution |-> IF d.fromFallback THEN 2 ELSE 1,
                    result |-> d.result, commit |-> d.commit]
  BY <1>5, <1>6, <1>7 DEF ExecutionId
<1>9. Sound(d)
  BY <1>6, <1>7, <1>8 DEF Sound, PendingMatches, WithinBudget, OneLineage,
                          AdmissionTracked, ResultStates, NoPending
<1>10. QED
  BY <1>1, <1>2, <1>3, <1>7, <1>9 DEF Carries

LEMMA CompletedSound ==
  ASSUME NEW c \in AuthView, Sound(c), NEW r \in CompletedRecord,
         r.state \in LegalTransitions(c.state), CrossBindings(c, r)
  PROVE  Carries(c, FoldTransition(c, r), r.state)
<1> DEFINE d == [c EXCEPT !.prHead = r.head, !.state = "COMPLETED",
                          !.pending = NoPending]
<1>1. r.state = "COMPLETED" /\ r.head \in Digest
  BY DEF CompletedRecord
<1>2. FoldTransition(c, r) = d
  BY <1>1 DEF FoldTransition, FoldEvidence
<1>3. d \in AuthView
  BY <1>1, NoPendingType, StateNames, OptionalTypes DEF AuthView
<1>4. c.state = "PUBLISHED"
  BY <1>1 DEF LegalTransitions, AuthView, AnyState, States, LiveStates, TerminalStates
<1>5. r.head = c.head
  BY <1>1 DEF CrossBindings
<1>6. /\ d.state = "COMPLETED" /\ d.pending = NoPending
      /\ d.attempts = c.attempts /\ d.admitted = c.admitted
      /\ d.fromFallback = c.fromFallback /\ d.result = c.result
      /\ d.validated = c.validated /\ d.commit = c.commit
      /\ d.identity = c.identity /\ d.head = c.head /\ d.prHead = r.head
      /\ d.parent = c.parent /\ d.branch = c.branch
  BY DEF AuthView
<1>7. Sound(d)
  BY <1>4, <1>5, <1>6 DEF Sound, PendingMatches, WithinBudget, OneLineage,
                          AdmissionTracked, ResultStates, NoPending
<1>8. QED
  BY <1>1, <1>2, <1>3, <1>6, <1>7 DEF Carries

LEMMA FailedSound ==
  ASSUME NEW c \in AuthView, Sound(c), NEW r \in FailedRecord
  PROVE  Carries(c, FoldTransition(c, r), r.state)
<1> DEFINE d == [c EXCEPT !.state = "FAILED", !.pending = NoPending]
<1>1. r.state = "FAILED"
  BY DEF FailedRecord
<1>2. FoldTransition(c, r) = d
  BY <1>1 DEF FoldTransition, FoldEvidence
<1>3. d \in AuthView
  BY <1>1, NoPendingType, StateNames, OptionalTypes DEF AuthView
<1>4. /\ d.state = "FAILED" /\ d.pending = NoPending /\ d.attempts = c.attempts
      /\ d.parent = c.parent /\ d.branch = c.branch
  BY DEF AuthView
<1>5. Sound(d)
  BY <1>4 DEF Sound, PendingMatches, WithinBudget, OneLineage, AdmissionTracked,
              ResultStates, NoPending
<1>6. QED
  BY <1>1, <1>2, <1>3, <1>4, <1>5 DEF Carries

LEMMA RequestedSound ==
  ASSUME NEW c \in AuthView, Sound(c), NEW r \in RequestedRecord, RequestAccepted(c, r)
  PROVE  Carries(c, FoldResume(c, r), c.state)
<1> DEFINE p == [stage |-> r.stage, nonce |-> r.nonce, attempt |-> r.attempt, run |-> NoRun]
           d == [c EXCEPT !.attempts[r.stage] = r.attempt, !.pending = p]
<1>1. /\ r.kind = "resume_requested" /\ r.stage \in Stages /\ r.nonce \in Nonce
      /\ r.attempt \in Nat
  BY BoundAssumption DEF RequestedRecord
<1>2. FoldResume(c, r) = d
  BY <1>1 DEF FoldResume
<1>3. /\ c.attempts \in [Stages -> Nat]
      /\ [c.attempts EXCEPT ![r.stage] = r.attempt] \in Attempts
  BY <1>1 DEF AuthView, Attempts
<1>4. p \in Pending
  BY <1>1 DEF Pending
<1>5. d \in AuthView
  BY <1>1, <1>3, <1>4 DEF AuthView
<1>6. /\ d.state = c.state /\ d.pending = p
      /\ d.attempts = [c.attempts EXCEPT ![r.stage] = r.attempt]
      /\ d.admitted = c.admitted
      /\ d.fromFallback = c.fromFallback /\ d.result = c.result
      /\ d.validated = c.validated /\ d.commit = c.commit
      /\ d.identity = c.identity /\ d.head = c.head /\ d.prHead = c.prHead
      /\ d.parent = c.parent /\ d.branch = c.branch
  BY DEF AuthView
<1>7. PendingMatches(d)
  BY <1>1, <1>3, <1>6 DEF PendingMatches, RequestAccepted
<1>8. WithinBudget(d)
  BY <1>1, <1>3, <1>6 DEF WithinBudget, RequestAccepted, WithinCap, StageCap, Sound, Stages
<1>9. OneLineage(d) /\ AdmissionTracked(d)
  BY <1>6 DEF Sound, OneLineage, AdmissionTracked
<1>10. QED
  BY <1>1, <1>2, <1>5, <1>6, <1>7, <1>8, <1>9 DEF Carries, Sound

LEMMA AbandonedSound ==
  ASSUME NEW c \in AuthView, Sound(c), NEW r \in AbandonedRecord
  PROVE  Carries(c, FoldResume(c, r), c.state)
<1> DEFINE d == [c EXCEPT !.pending = NoPending]
<1>1. r.kind = "resume_abandoned"
  BY DEF AbandonedRecord
<1>2. FoldResume(c, r) = d
  BY <1>1 DEF FoldResume
<1>3. d \in AuthView
  BY NoPendingType DEF AuthView
<1>4. /\ d.state = c.state /\ d.pending = NoPending
      /\ d.attempts = c.attempts /\ d.admitted = c.admitted
      /\ d.fromFallback = c.fromFallback /\ d.result = c.result
      /\ d.validated = c.validated /\ d.commit = c.commit
      /\ d.identity = c.identity /\ d.head = c.head /\ d.prHead = c.prHead
      /\ d.parent = c.parent /\ d.branch = c.branch
  BY DEF AuthView
<1>5. PendingMatches(d)
  BY <1>4 DEF PendingMatches, NoPending
<1>6. WithinBudget(d) /\ OneLineage(d) /\ AdmissionTracked(d)
  BY <1>4 DEF Sound, WithinBudget, OneLineage, AdmissionTracked
<1>7. QED
  BY <1>1, <1>2, <1>3, <1>4, <1>5, <1>6 DEF Carries, Sound

LEMMA ResumeBoundSound ==
  ASSUME NEW c \in AuthView, Sound(c), NEW r \in ResumeBoundRecord
  PROVE  Carries(c, FoldResume(c, r), c.state)
<1> DEFINE d == [c EXCEPT !.pending.run = r.run, !.owner = r.run]
           p == [c.pending EXCEPT !.run = r.run]
<1>1. r.kind = "resume_bound" /\ r.run \in Run
  BY DEF ResumeBoundRecord
<1>2. FoldResume(c, r) = d
  BY <1>1 DEF FoldResume
<1>3. c.pending \in Pending
  BY DEF AuthView
<1>4. p \in Pending /\ p.stage = c.pending.stage /\ p.attempt = c.pending.attempt
  BY <1>1, <1>3 DEF Pending
<1>5. d \in AuthView
  BY <1>1, <1>4, OptionalTypes DEF AuthView
<1>6. /\ d.state = c.state /\ d.pending = p
      /\ d.attempts = c.attempts /\ d.admitted = c.admitted
      /\ d.fromFallback = c.fromFallback /\ d.result = c.result
      /\ d.validated = c.validated /\ d.commit = c.commit
      /\ d.identity = c.identity /\ d.head = c.head /\ d.prHead = c.prHead
      /\ d.parent = c.parent /\ d.branch = c.branch
  BY DEF AuthView
<1>7. PendingMatches(d)
  BY <1>4, <1>6 DEF Sound, PendingMatches
<1>8. WithinBudget(d) /\ OneLineage(d) /\ AdmissionTracked(d)
  BY <1>6 DEF Sound, WithinBudget, OneLineage, AdmissionTracked
<1>9. QED
  BY <1>1, <1>2, <1>5, <1>6, <1>7, <1>8 DEF Carries, Sound

----------------------------------------------------------------------------
(* The Issue: what an accepted record does to the whole view.              *)

(* Appending moves a live authorization (or records a resume of it): its   *)
(* view becomes d, in state s, and a terminal s releases the active slot.  *)
Update(a, d, s) ==
  view' = [claimed |-> view.claimed,
           active  |-> IF s \in TerminalStates THEN NoAuth ELSE view.active,
           auths   |-> [view.auths EXCEPT ![a] = d]]

(* What holds of one authorization holds of all after an update. *)
LEMMA UpdatePreserves ==
  ASSUME Inv, NEW a \in Auth, NEW d, NEW s \in States,
         view.auths[a].state \in LiveStates,
         Carries(view.auths[a], d, s), Update(a, d, s)
  PROVE  Inv'
<1>1. /\ view.auths \in [Auth -> AuthView] /\ view.claimed \subseteq Auth
      /\ view.active \in OptAuth
  BY DEF Inv, TypeOK
<1>2. /\ view'.claimed = view.claimed
      /\ view'.active = IF s \in TerminalStates THEN NoAuth ELSE view.active
      /\ view'.auths = [view.auths EXCEPT ![a] = d]
  BY DEF Update
<1>3. d \in AuthView /\ d.state = s
  BY DEF Carries
<1>4. TypeOK'
  BY <1>1, <1>3, OptionalTypes DEF TypeOK, Update
<1>5. /\ view'.auths[a] = d
      /\ \A b \in Auth : b # a => view'.auths[b] = view.auths[b]
  BY <1>1, <1>2
<1>6. view.active = a /\ a \in view.claimed
  BY DEF Inv, IndexAgreesWithChain, LiveStates
<1>7. IndexAgreesWithChain'
  <2> SUFFICES ASSUME NEW b \in Auth
               PROVE  /\ view'.active = b <=> view'.auths[b].state \in LiveStates
                      /\ b \in view'.claimed <=> view'.auths[b].state # "NONE"
    BY DEF IndexAgreesWithChain
  <2>1. /\ view.active = b <=> view.auths[b].state \in LiveStates
        /\ b \in view.claimed <=> view.auths[b].state # "NONE"
    BY DEF Inv, IndexAgreesWithChain
  <2>2. CASE b = a
    BY <1>2, <1>3, <1>5, <1>6, <2>1, <2>2, NullsAssumption
       DEF States, LiveStates, TerminalStates
  <2>3. CASE b # a
    BY <1>2, <1>5, <1>6, <2>1, <2>3, NullsAssumption
  <2>4. QED
    BY <2>2, <2>3
<1>8. (\A b \in Auth : Sound(view.auths[b]))'
  BY <1>5 DEF Inv, Carries
<1>9. BranchLineage'
  <2> SUFFICES ASSUME NEW b \in view.claimed
               PROVE  LET e == view'.auths[b]
                      IN  IF e.parent = NoAuth
                            THEN e.branch = b
                            ELSE /\ view'.auths[e.parent].state = "COMPLETED"
                                 /\ e.branch = view'.auths[e.parent].branch
    BY <1>2 DEF BranchLineage
  <2> DEFINE c == view.auths[b]
  <2>1. IF c.parent = NoAuth
          THEN c.branch = b
          ELSE /\ view.auths[c.parent].state = "COMPLETED"
               /\ c.branch = view.auths[c.parent].branch
    BY DEF Inv, BranchLineage
  <2>2. view'.auths[b].parent = c.parent /\ view'.auths[b].branch = c.branch
    BY <1>1, <1>5 DEF Carries
  <2>3. c.parent \in Auth \cup {NoAuth}
    BY <1>1 DEF AuthView, OptAuth
  <2>4. c.parent # NoAuth => view'.auths[c.parent] = view.auths[c.parent]
    BY <1>5, <2>1, <2>3 DEF LiveStates
  <2>5. QED
    BY <2>1, <2>2, <2>4
<1>10. QED
  BY <1>4, <1>7, <1>8, <1>9 DEF Inv

(* A claim opens one fresh authorization and takes the active slot. *)
LEMMA ClaimPreserves ==
  ASSUME Inv, NEW r \in AuthorizedRecord, Accepted(view, r), view' = Fold(view, r)
  PROVE  Inv'
<1> DEFINE a == r.auth
           d == FoldTransition(view.auths[a], r)
<1>1. /\ view.auths \in [Auth -> AuthView] /\ view.claimed \subseteq Auth
      /\ view.active \in OptAuth
  BY DEF Inv, TypeOK
<1>2. /\ r.kind = "transition" /\ r.state = "AUTHORIZED" /\ r.auth \in Auth
      /\ r.parent \in Auth \cup {NoAuth}
  BY DEF AuthorizedRecord
<1>3. /\ r.state \in LegalTransitions(view.auths[a].state)
      /\ a \notin view.claimed /\ view.active = NoAuth
      /\ AuthorizedBindings(view, r)
  BY <1>2 DEF Accepted, TransitionAccepted, ClaimIsFresh
<1>4. /\ view.auths[a].state = "NONE" /\ d \in AuthView /\ Sound(d)
      /\ d.state = "AUTHORIZED" /\ d.parent = r.parent /\ d.branch = r.branch
  <2>1. view.auths[a] \in AuthView /\ Sound(view.auths[a])
    BY <1>1, <1>2 DEF Inv
  <2>2. QED
    BY <1>3, <2>1, AuthorizedSound
<1>5. view' = [claimed |-> view.claimed \cup {a}, active |-> a,
               auths |-> [view.auths EXCEPT ![a] = d]]
  BY <1>2 DEF Fold, ClaimedAfter, ActiveAfter, TerminalStates
<1>6. /\ view'.claimed = view.claimed \cup {a} /\ view'.active = a
      /\ view'.auths = [view.auths EXCEPT ![a] = d]
  BY <1>5
<1>7. TypeOK'
  BY <1>1, <1>2, <1>4, <1>5, OptionalTypes DEF TypeOK
<1>8. /\ view'.auths[a] = d
      /\ \A b \in Auth : b # a => view'.auths[b] = view.auths[b]
  BY <1>1, <1>2, <1>6
<1>9. IndexAgreesWithChain'
  <2> SUFFICES ASSUME NEW b \in Auth
               PROVE  /\ view'.active = b <=> view'.auths[b].state \in LiveStates
                      /\ b \in view'.claimed <=> view'.auths[b].state # "NONE"
    BY DEF IndexAgreesWithChain
  <2>1. /\ view.active = b <=> view.auths[b].state \in LiveStates
        /\ b \in view.claimed <=> view.auths[b].state # "NONE"
    BY DEF Inv, IndexAgreesWithChain
  <2>2. CASE b = a
    BY <1>4, <1>6, <1>8, <2>2 DEF LiveStates
  <2>3. CASE b # a
    BY <1>3, <1>6, <1>8, <2>1, <2>3, NullsAssumption
  <2>4. QED
    BY <2>2, <2>3
<1>10. (\A b \in Auth : Sound(view.auths[b]))'
  BY <1>4, <1>8 DEF Inv
<1>11. BranchLineage'
  <2> SUFFICES ASSUME NEW b \in view'.claimed
               PROVE  LET e == view'.auths[b]
                      IN  IF e.parent = NoAuth
                            THEN e.branch = b
                            ELSE /\ view'.auths[e.parent].state = "COMPLETED"
                                 /\ e.branch = view'.auths[e.parent].branch
    BY DEF BranchLineage
  <2>1. CASE b = a
    <3>1. r.parent # NoAuth => view'.auths[r.parent] = view.auths[r.parent]
      BY <1>2, <1>3, <1>4, <1>8 DEF AuthorizedBindings
    <3>2. QED
      BY <1>3, <1>4, <1>8, <2>1, <3>1 DEF AuthorizedBindings
  <2>2. CASE b # a
    <3> DEFINE c == view.auths[b]
    <3>1. b \in view.claimed /\ b \in Auth
      BY <1>1, <1>6, <2>2
    <3>2. IF c.parent = NoAuth
            THEN c.branch = b
            ELSE /\ view.auths[c.parent].state = "COMPLETED"
                 /\ c.branch = view.auths[c.parent].branch
      BY <3>1 DEF Inv, BranchLineage
    <3>3. view'.auths[b] = c /\ c.parent \in Auth \cup {NoAuth}
      BY <1>1, <1>8, <2>2, <3>1 DEF AuthView, OptAuth
    <3>4. c.parent # NoAuth => view'.auths[c.parent] = view.auths[c.parent]
      BY <1>4, <1>8, <3>2, <3>3
    <3>5. QED
      BY <3>2, <3>3, <3>4
  <2>3. QED
    BY <2>1, <2>2
<1>12. QED
  BY <1>7, <1>9, <1>10, <1>11 DEF Inv

(* A legal successor exists only of a live state, or of no state at all. *)
LEMMA SuccessorOfLive ==
  ASSUME NEW c \in AuthView, NEW s, s \in LegalTransitions(c.state), s # "AUTHORIZED"
  PROVE  c.state \in LiveStates
BY DEF LegalTransitions, AuthView, AnyState, States, LiveStates, TerminalStates

(* Every record that is not a claim updates one live authorization, along  *)
(* a legal transition or leaving its state alone.                          *)
Moves(a, d, s) ==
  /\ view.auths[a].state \in LiveStates
  /\ s \in LegalTransitions(view.auths[a].state) \cup {view.auths[a].state}
  /\ Carries(view.auths[a], d, s)
  /\ Update(a, d, s)

(* An accepted transition other than a claim, whose fold is sound, moves.  *)
LEMMA TransitionMoves ==
  ASSUME Inv, NEW r, r.kind = "transition", r.auth \in Auth,
         r.state \in States \ {"AUTHORIZED"},
         Accepted(view, r), view' = Fold(view, r),
         Carries(view.auths[r.auth], FoldTransition(view.auths[r.auth], r), r.state)
  PROVE  \E a \in Auth, s \in States, d \in AuthView : Moves(a, d, s)
<1> DEFINE c == view.auths[r.auth]
           d == FoldTransition(c, r)
<1>1. c \in AuthView /\ r.state \in LegalTransitions(c.state)
  BY DEF Inv, TypeOK, Accepted, TransitionAccepted
<1>2. c.state \in LiveStates
  BY <1>1, SuccessorOfLive
<1>3. Update(r.auth, d, r.state)
  BY DEF Fold, ClaimedAfter, ActiveAfter, Update
<1>4. d \in AuthView
  BY DEF Carries
<1>5. Moves(r.auth, d, r.state)
  BY <1>1, <1>2, <1>3 DEF Moves
<1>6. QED
  BY <1>4, <1>5

(* An accepted resume record, whose fold is sound, moves (in place). *)
LEMMA ResumeMoves ==
  ASSUME Inv, NEW r, r.kind \in {"resume_requested", "resume_abandoned", "resume_bound"},
         r.auth \in Auth, Accepted(view, r), view' = Fold(view, r),
         Carries(view.auths[r.auth], FoldResume(view.auths[r.auth], r),
                 view.auths[r.auth].state)
  PROVE  \E a \in Auth, s \in States, d \in AuthView : Moves(a, d, s)
<1> DEFINE c == view.auths[r.auth]
           d == FoldResume(c, r)
<1>1. view.active = r.auth /\ r.state = c.state
  BY DEF Accepted, ResumeAccepted
<1>2. c.state \in LiveStates /\ r.auth \in view.claimed
  BY <1>1 DEF Inv, IndexAgreesWithChain, LiveStates
<1>3. /\ ClaimedAfter(view, r) = view.claimed
      /\ ActiveAfter(view, r) = view.active
      /\ c.state \notin TerminalStates /\ c.state \in States
  BY <1>1, <1>2 DEF ClaimedAfter, ActiveAfter, LiveStates, TerminalStates, States
<1>4. Update(r.auth, d, c.state)
  BY <1>1, <1>3 DEF Fold, Update
<1>5. d \in AuthView
  BY DEF Carries
<1>6. Moves(r.auth, d, c.state)
  BY <1>2, <1>4 DEF Moves
<1>7. QED
  BY <1>3, <1>5, <1>6

(* Every step of the ledger is a claim or a move. *)
LEMMA NextClaimsOrMoves ==
  ASSUME Inv, Next
  PROVE  \/ \E r \in AuthorizedRecord : Accepted(view, r) /\ view' = Fold(view, r)
         \/ \E a \in Auth, s \in States, d \in AuthView : Moves(a, d, s)
<1>1. \A a \in Auth : view.auths[a] \in AuthView /\ Sound(view.auths[a])
  BY DEF Inv, TypeOK
<1>2. CASE Append(AuthorizedRecord)
  BY <1>2 DEF Append
<1>3. CASE Append(FallbackRecord)
  <2>1. PICK r \in FallbackRecord : Accepted(view, r) /\ view' = Fold(view, r)
    BY <1>3 DEF Append
  <2>2. /\ r.kind = "transition" /\ r.auth \in Auth /\ r.state = "FALLBACK_AUTHORIZED"
        /\ r.state \in States \ {"AUTHORIZED"}
    BY DEF FallbackRecord, States, LiveStates, TerminalStates
  <2>3. r.state \in LegalTransitions(view.auths[r.auth].state)
    BY <2>1, <2>2 DEF Accepted, TransitionAccepted
  <2>4. Carries(view.auths[r.auth], FoldTransition(view.auths[r.auth], r), r.state)
    BY <1>1, <2>2, <2>3, FallbackSound
  <2>5. QED
    BY <2>1, <2>2, <2>4, TransitionMoves
<1>4. CASE Append(BoundRecord)
  <2>1. PICK r \in BoundRecord : Accepted(view, r) /\ view' = Fold(view, r)
    BY <1>4 DEF Append
  <2>2. /\ r.kind = "transition" /\ r.auth \in Auth /\ r.state = "RESULT_BOUND"
        /\ r.state \in States \ {"AUTHORIZED"}
    BY DEF BoundRecord, States, LiveStates, TerminalStates
  <2>3. r.state \in LegalTransitions(view.auths[r.auth].state) /\ CrossBindings(view.auths[r.auth], r)
    BY <2>1, <2>2 DEF Accepted, TransitionAccepted
  <2>4. Carries(view.auths[r.auth], FoldTransition(view.auths[r.auth], r), r.state)
    BY <1>1, <2>2, <2>3, BoundSound
  <2>5. QED
    BY <2>1, <2>2, <2>4, TransitionMoves
<1>5. CASE Append(ValidatedRecord)
  <2>1. PICK r \in ValidatedRecord : Accepted(view, r) /\ view' = Fold(view, r)
    BY <1>5 DEF Append
  <2>2. /\ r.kind = "transition" /\ r.auth \in Auth /\ r.state = "VALIDATED"
        /\ r.state \in States \ {"AUTHORIZED"}
    BY DEF ValidatedRecord, States, LiveStates, TerminalStates
  <2>3. r.state \in LegalTransitions(view.auths[r.auth].state) /\ CrossBindings(view.auths[r.auth], r)
    BY <2>1, <2>2 DEF Accepted, TransitionAccepted
  <2>4. Carries(view.auths[r.auth], FoldTransition(view.auths[r.auth], r), r.state)
    BY <1>1, <2>2, <2>3, ValidatedSound
  <2>5. QED
    BY <2>1, <2>2, <2>4, TransitionMoves
<1>6. CASE Append(PublishedRecord)
  <2>1. PICK r \in PublishedRecord : Accepted(view, r) /\ view' = Fold(view, r)
    BY <1>6 DEF Append
  <2>2. /\ r.kind = "transition" /\ r.auth \in Auth /\ r.state = "PUBLISHED"
        /\ r.state \in States \ {"AUTHORIZED"}
    BY DEF PublishedRecord, States, LiveStates, TerminalStates
  <2>3. r.state \in LegalTransitions(view.auths[r.auth].state) /\ CrossBindings(view.auths[r.auth], r)
    BY <2>1, <2>2 DEF Accepted, TransitionAccepted
  <2>4. Carries(view.auths[r.auth], FoldTransition(view.auths[r.auth], r), r.state)
    BY <1>1, <2>2, <2>3, PublishedSound
  <2>5. QED
    BY <2>1, <2>2, <2>4, TransitionMoves
<1>7. CASE Append(CompletedRecord)
  <2>1. PICK r \in CompletedRecord : Accepted(view, r) /\ view' = Fold(view, r)
    BY <1>7 DEF Append
  <2>2. /\ r.kind = "transition" /\ r.auth \in Auth /\ r.state = "COMPLETED"
        /\ r.state \in States \ {"AUTHORIZED"}
    BY DEF CompletedRecord, States, LiveStates, TerminalStates
  <2>3. r.state \in LegalTransitions(view.auths[r.auth].state) /\ CrossBindings(view.auths[r.auth], r)
    BY <2>1, <2>2 DEF Accepted, TransitionAccepted
  <2>4. Carries(view.auths[r.auth], FoldTransition(view.auths[r.auth], r), r.state)
    BY <1>1, <2>2, <2>3, CompletedSound
  <2>5. QED
    BY <2>1, <2>2, <2>4, TransitionMoves
<1>8. CASE Append(FailedRecord)
  <2>1. PICK r \in FailedRecord : Accepted(view, r) /\ view' = Fold(view, r)
    BY <1>8 DEF Append
  <2>2. /\ r.kind = "transition" /\ r.auth \in Auth
        /\ r.state \in States \ {"AUTHORIZED"}
    BY DEF FailedRecord, States, LiveStates, TerminalStates
  <2>3. Carries(view.auths[r.auth], FoldTransition(view.auths[r.auth], r), r.state)
    BY <1>1, <2>2, FailedSound
  <2>4. QED
    BY <2>1, <2>2, <2>3, TransitionMoves
<1>9. CASE Append(RequestedRecord)
  <2>1. PICK r \in RequestedRecord : Accepted(view, r) /\ view' = Fold(view, r)
    BY <1>9 DEF Append
  <2>2. r.kind = "resume_requested" /\ r.auth \in Auth
    BY DEF RequestedRecord
  <2>3. RequestAccepted(view.auths[r.auth], r)
    BY <2>1, <2>2 DEF Accepted, ResumeAccepted
  <2>4. Carries(view.auths[r.auth], FoldResume(view.auths[r.auth], r),
                view.auths[r.auth].state)
    BY <1>1, <2>2, <2>3, RequestedSound
  <2>5. QED
    BY <2>1, <2>2, <2>4, ResumeMoves
<1>10. CASE Append(AbandonedRecord)
  <2>1. PICK r \in AbandonedRecord : Accepted(view, r) /\ view' = Fold(view, r)
    BY <1>10 DEF Append
  <2>2. r.kind = "resume_abandoned" /\ r.auth \in Auth
    BY DEF AbandonedRecord
  <2>3. Carries(view.auths[r.auth], FoldResume(view.auths[r.auth], r),
                view.auths[r.auth].state)
    BY <1>1, <2>2, AbandonedSound
  <2>4. QED
    BY <2>1, <2>2, <2>3, ResumeMoves
<1>11. CASE Append(ResumeBoundRecord)
  <2>1. PICK r \in ResumeBoundRecord : Accepted(view, r) /\ view' = Fold(view, r)
    BY <1>11 DEF Append
  <2>2. r.kind = "resume_bound" /\ r.auth \in Auth
    BY DEF ResumeBoundRecord
  <2>3. Carries(view.auths[r.auth], FoldResume(view.auths[r.auth], r),
                view.auths[r.auth].state)
    BY <1>1, <2>2, ResumeBoundSound
  <2>4. QED
    BY <2>1, <2>2, <2>3, ResumeMoves
<1>12. QED
  BY <1>2, <1>3, <1>4, <1>5, <1>6, <1>7, <1>8, <1>9, <1>10, <1>11 DEF Next

(* Every accepted record preserves Inv: the step of the induction, which   *)
(* the lifecycle takes too whenever a record lands.                        *)
LEMMA StepKeepsInv == Inv /\ [Next]_view => Inv'
<1> SUFFICES ASSUME Inv, [Next]_view PROVE Inv'
  OBVIOUS
<1>1. CASE Next
  <2>1. CASE \E r \in AuthorizedRecord : Accepted(view, r) /\ view' = Fold(view, r)
    BY <2>1, ClaimPreserves
  <2>2. CASE \E a \in Auth, s \in States, d \in AuthView : Moves(a, d, s)
    BY <2>2, UpdatePreserves DEF Moves
  <2>3. QED
    BY <1>1, <2>1, <2>2, NextClaimsOrMoves
<1>2. CASE UNCHANGED view
  BY <1>2 DEF Inv, TypeOK, IndexAgreesWithChain, BranchLineage
<1>3. QED
  BY <1>1, <1>2

----------------------------------------------------------------------------
(* The theorems.                                                           *)

(* Inv holds initially and every accepted record preserves it: the         *)
(* induction all the safety theorems below rest on.                        *)
THEOREM InvHolds == Spec => []Inv
<1>1. Init => Inv
  <2> SUFFICES ASSUME Init PROVE Inv
    OBVIOUS
  <2>1. /\ view.claimed = {} /\ view.active = NoAuth
        /\ view.auths = [a \in Auth |-> Unclaimed]
        /\ view = [claimed |-> view.claimed, active |-> view.active, auths |-> view.auths]
    BY DEF Init, EmptyView
  <2>2. TypeOK
    BY <2>1, UnclaimedSound, OptionalTypes DEF TypeOK
  <2>3. Unclaimed.state = "NONE"
    BY DEF Unclaimed
  <2>4. \A a \in Auth : view.auths[a].state = "NONE" /\ view.active # a
    BY <2>1, <2>3, NullsAssumption
  <2>5. IndexAgreesWithChain
    BY <2>1, <2>4 DEF IndexAgreesWithChain, LiveStates
  <2>6. QED
    BY <2>1, <2>2, <2>5, UnclaimedSound DEF Inv, BranchLineage
<1>2. QED
  BY <1>1, StepKeepsInv, PTL DEF Spec

(* The fold only ever yields well-formed views (apply_record's replace     *)
(* keeps every field of LedgerView and AuthorizationView in its type).     *)
THEOREM TypeCorrect == Spec => []TypeOK
<1>1. Inv => TypeOK
  BY DEF Inv
<1>2. QED
  BY <1>1, InvHolds, PTL

(* LedgerView.active and the replay set always agree with the folded       *)
(* chain: one live authorization per Issue, no identity claimed twice.     *)
THEOREM IndexCorrect == Spec => []IndexAgreesWithChain
<1>1. Inv => IndexAgreesWithChain
  BY DEF Inv
<1>2. QED
  BY <1>1, InvHolds, PTL

(* A pending resume always belongs to the current stage and attempt, so    *)
(* bind_resume can never claim a nonce of a stage that is over.            *)
THEOREM PendingCorrect == Spec => []PendingMatchesStage
<1>1. Inv => PendingMatchesStage
  BY DEF Inv, Sound, PendingMatchesStage
<1>2. QED
  BY <1>1, InvHolds, PTL

(* No sequence of accepted records spends more than the resume caps of     *)
(* RESUME_STAGES, abandoned attempts included.                             *)
THEOREM BudgetCorrect == Spec => []ResumeBudget
<1>1. Inv => ResumeBudget
  BY DEF Inv, Sound, ResumeBudget
<1>2. QED
  BY <1>1, InvHolds, PTL

(* A completed authorization carries one lineage of evidence, from the     *)
(* admitted attempt to the pull request's head.                            *)
THEOREM LineageCorrect == Spec => []EvidenceLineage
<1>1. Inv => EvidenceLineage
  BY DEF Inv, Sound, EvidenceLineage
<1>2. QED
  BY <1>1, InvHolds, PTL

(* Branches are shared along remediation chains of completed               *)
(* authorizations only (_check_authorized_bindings).                       *)
THEOREM BranchCorrect == Spec => []BranchLineage
<1>1. Inv => BranchLineage
  BY DEF Inv
<1>2. QED
  BY <1>1, InvHolds, PTL

(* A terminal authorization is never touched again and no claimed identity *)
(* is ever released: the step each accepted record takes.                  *)
THEOREM FinalCorrect == Spec => TerminalIsFinal
<1> DEFINE Keeps == /\ view.claimed \subseteq view'.claimed
                    /\ \A a \in Auth : view.auths[a].state \in TerminalStates =>
                                         view'.auths[a] = view.auths[a]
<1>1. Inv /\ [Next]_view => [Keeps]_view
  <2> SUFFICES ASSUME Inv, Next PROVE Keeps
    OBVIOUS
  <2>1. view.auths \in [Auth -> AuthView]
    BY DEF Inv, TypeOK
  <2>2. CASE \E r \in AuthorizedRecord : Accepted(view, r) /\ view' = Fold(view, r)
    <3>1. PICK r \in AuthorizedRecord : Accepted(view, r) /\ view' = Fold(view, r)
      BY <2>2
    <3>2. r.kind = "transition" /\ r.state = "AUTHORIZED" /\ r.auth \in Auth
      BY DEF AuthorizedRecord
    <3>3. r.state \in LegalTransitions(view.auths[r.auth].state)
      BY <3>1, <3>2 DEF Accepted, TransitionAccepted
    <3>4. view.auths[r.auth].state = "NONE"
      BY <2>1, <3>2, <3>3, AuthorizedSound DEF Inv
    <3>5. /\ view'.claimed = view.claimed \cup {r.auth}
          /\ \A a \in Auth : a # r.auth => view'.auths[a] = view.auths[a]
      BY <2>1, <3>1, <3>2 DEF Fold, ClaimedAfter
    <3>6. QED
      BY <3>4, <3>5 DEF TerminalStates
  <2>3. CASE \E a \in Auth, s \in States, d \in AuthView : Moves(a, d, s)
    <3>1. PICK b \in Auth, s \in States, d \in AuthView : Moves(b, d, s)
      BY <2>3
    <3>2. /\ view'.claimed = view.claimed
          /\ \A a \in Auth : a # b => view'.auths[a] = view.auths[a]
      BY <2>1, <3>1 DEF Moves, Update
    <3>3. QED
      BY <3>1, <3>2 DEF Moves, LiveStates, TerminalStates
  <2>4. QED
    BY <2>2, <2>3, NextClaimsOrMoves
<1>2. QED
  BY <1>1, InvHolds, PTL DEF Spec, TerminalIsFinal

(* An accepted claim is a Claim of the abstract state machine, any other   *)
(* accepted transition a Move, and a resume record a stuttering step.      *)
LEMMA StepRefines ==
  Inv /\ [Next]_view => [Machine!Next]_([a \in Auth |-> view.auths[a].state])
<1> DEFINE bar == [a \in Auth |-> view.auths[a].state]
<1> SUFFICES ASSUME Inv, Next PROVE Machine!Next \/ bar' = bar
  BY DEF Inv
<1>1. view.auths \in [Auth -> AuthView]
  BY DEF Inv, TypeOK
<1>2. CASE \E r \in AuthorizedRecord : Accepted(view, r) /\ view' = Fold(view, r)
  <2>1. PICK r \in AuthorizedRecord : Accepted(view, r) /\ view' = Fold(view, r)
    BY <1>2
  <2> DEFINE b == r.auth
             d == FoldTransition(view.auths[b], r)
  <2>2. r.kind = "transition" /\ r.state = "AUTHORIZED" /\ b \in Auth
    BY DEF AuthorizedRecord
  <2>3. r.state \in LegalTransitions(view.auths[b].state) /\ view.active = NoAuth
    BY <2>1, <2>2 DEF Accepted, TransitionAccepted, ClaimIsFresh
  <2>4. view.auths[b].state = "NONE" /\ d.state = "AUTHORIZED"
    BY <1>1, <2>2, <2>3, AuthorizedSound DEF Inv
  <2>5. view'.auths = [view.auths EXCEPT ![b] = d]
    BY <2>1, <2>2 DEF Fold
  <2>6. bar' = [bar EXCEPT ![b] = "AUTHORIZED"]
    BY <1>1, <2>4, <2>5
  <2>7. \A a \in Auth : bar[a] \notin LiveStates
    BY <2>3, NullsAssumption DEF Inv, IndexAgreesWithChain
  <2>8. Machine!Claim(b)
    BY <2>2, <2>4, <2>6, <2>7 DEF Machine!Claim, Machine!LiveStates, LiveStates
  <2>9. QED
    BY <2>2, <2>8 DEF Machine!Next
<1>3. CASE \E a \in Auth, s \in States, d \in AuthView : Moves(a, d, s)
  <2>1. PICK b \in Auth, s \in States, d \in AuthView : Moves(b, d, s)
    BY <1>3
  <2>2. view'.auths = [view.auths EXCEPT ![b] = d] /\ d.state = s
    BY <2>1 DEF Moves, Update, Carries
  <2>3. bar' = [bar EXCEPT ![b] = s]
    BY <1>1, <2>2
  <2>4. CASE s = view.auths[b].state
    BY <2>3, <2>4
  <2>5. CASE s \in LegalTransitions(view.auths[b].state)
    <3>1. bar[b] \in LiveStates /\ s \in LegalTransitions(bar[b])
      BY <2>1, <2>5 DEF Moves
    <3>2. Machine!Move(b)
      BY <2>3, <3>1 DEF Machine!Move, Machine!LiveStates, LiveStates,
                        Machine!LegalTransitions, LegalTransitions
    <3>3. QED
      BY <3>2 DEF Machine!Next
  <2>6. QED
    BY <2>1, <2>4, <2>5 DEF Moves
<1>4. QED
  BY <1>2, <1>3, NextClaimsOrMoves

(* The fold implements the abstract state machine: the states of the       *)
(* authorizations start and move as it says.                               *)
THEOREM Refinement == Spec => ImplementsStateMachine
<1>1. Init => Machine!Init
  BY DEF Init, EmptyView, Unclaimed, Machine!Init
<1>2. QED
  BY <1>1, StepRefines, InvHolds, PTL DEF Spec, ImplementsStateMachine, Machine!Spec

=============================================================================
