----------------------- MODULE SourceHandlingAuthority -----------------------
(***************************************************************************)
(* The SQLite authority history of Source Handling, for one governed       *)
(* document: publishers issue an authorization in several read             *)
(* transactions and one write transaction, and spend it in another; the    *)
(* Issue Source intake resolves the authority and persists in one write    *)
(* transaction; a resolver reads at a cutoff.  The clock may stand still   *)
(* or step back between any two of these.                                  *)
(***************************************************************************)
EXTENDS Naturals, Sequences, FiniteSets

CONSTANTS
  Publisher,   \* threads and processes that issue and publish
  Registry,    \* scopes of field-category registries
  Ttl,         \* how long an authorization is valid after its known_at
  MinTime,     \* bound: how far the clock steps back
  MaxTime,     \* bound: how far it runs
  MaxRecords   \* bound: records of the history

ASSUME AuthorityAssumption ==
  /\ {Ttl, MinTime, MaxTime, MaxRecords} \subseteq Nat
  /\ Registry # {}
  /\ Registry \cap {"RULE", "FACT", "POLICY"} = {}

VARIABLES
  clock,       \* what datetime.now returns
  history,     \* authority records in commitment order
  heads,       \* heads[k]: the canonical key of k, 0 when it has none
  job,         \* job[p]: what publisher p is doing
  intake       \* the authority an intake was resolved and persisted under

vars == <<clock, history, heads, job, intake>>

Key == {"RULE", "FACT", "POLICY"} \cup Registry

(* Records are named by their place in the history and 0 names none.  The  *)
(* digest that names a record in the code covers the record it supersedes, *)
(* so that two records of a history never share one.                       *)
Claims ==
  [key : Key, prior : Nat, rule : Nat, known : Nat, registry : Nat,
   restrict : BOOLEAN, verified : BOOLEAN]

Record ==
  [key : Key, prior : Nat, rule : Nat, known : Nat, registry : Nat,
   restrict : BOOLEAN, verified : BOOLEAN, admission : Nat]

(* What the operator's bootstrap and one provisioning publish first. *)
Provisioned(i, key, registry, restrict) ==
  [key |-> key, prior |-> 0, rule |-> IF key = "RULE" THEN 0 ELSE 1, known |-> i - 1,
   registry |-> registry, restrict |-> restrict, verified |-> ~restrict, admission |-> i - 1]

Idle == [step |-> "idle"]

Job ==
  {Idle} \cup [step : {"candidate", "issued"}, claims : Claims]

None == [fact |-> 0, policy |-> 0, registry |-> 0, rule |-> 0]

Init ==
  /\ clock = 4
  /\ \E registry \in Registry, restrict \in BOOLEAN :
       /\ history = <<Provisioned(1, "RULE", 0, FALSE), Provisioned(2, "FACT", 0, restrict),
                      Provisioned(3, registry, 0, FALSE), Provisioned(4, "POLICY", 3, FALSE)>>
       /\ heads = [k \in Key |-> CASE k = "RULE" -> 1 [] k = "FACT" -> 2 [] k = "POLICY" -> 4
                                   [] k = registry -> 3 [] OTHER -> 0]
  /\ job = [p \in Publisher |-> Idle]
  /\ intake = [authority |-> None, at |-> 0, cutoff |-> 0, last |-> 0]

----------------------------------------------------------------------------
(* What a cutoff makes of the history.                                     *)

StrictKnown(i, cutoff) == history[i].known <= cutoff /\ history[i].admission <= cutoff

(* The one record of k known at the cutoff that none known then supersedes;*)
(* 0 when there is none, or more than one, or a predecessor is not known.  *)
StrictKnownHead(k, cutoff) ==
  LET eligible == {i \in DOMAIN history : history[i].key = k /\ StrictKnown(i, cutoff)}
      top == {i \in eligible : \A j \in eligible : history[j].prior # i}
  IN  IF Cardinality(top) = 1 /\ \A i \in eligible : history[i].prior \in eligible \cup {0}
      THEN CHOOSE i \in top : TRUE
      ELSE 0

(* A rule verifies back to the genesis rule: on the way, the exact         *)
(* predecessor of each rule authorized it and was strict-known when it was *)
(* authorized.                                                             *)
RuleVerifies(r) ==
  \E way \in SUBSET DOMAIN history :
    /\ r \in way
    /\ \A i \in way \ {1} :
         /\ history[i].prior \in way /\ history[i].prior < i
         /\ history[i].rule = history[i].prior
         /\ StrictKnown(history[i].prior, history[i].known)

(* verify_canonical_record: any other record names the rule that was the   *)
(* strict-known head at its known_at, and that rule verifies.              *)
Verifies(i, cutoff) ==
  /\ StrictKnown(i, cutoff)
  /\ IF history[i].key = "RULE"
     THEN RuleVerifies(i)
     ELSE /\ StrictKnownHead("RULE", history[i].known) = history[i].rule
          /\ RuleVerifies(history[i].rule)

CanonicalHead(k, cutoff) ==
  LET head == StrictKnownHead(k, cutoff)
  IN  IF head # 0 /\ Verifies(head, cutoff) THEN head ELSE 0

(* resolve_pre_model_source_handling: the three families, the registry     *)
(* being the one the policy is bound to, all published under one rule that *)
(* is still the strict-known one.                                          *)
Authority(cutoff) ==
  LET fact     == CanonicalHead("FACT", cutoff)
      policy   == CanonicalHead("POLICY", cutoff)
      registry == IF policy = 0 THEN 0
                  ELSE CanonicalHead(history[history[policy].registry].key, cutoff)
      rule     == CanonicalHead("RULE", cutoff)
  IN  IF /\ 0 \notin {fact, policy, registry, rule}
         /\ history[policy].registry = registry
         /\ \A i \in {fact, policy, registry} : history[i].rule = rule
      THEN [fact |-> fact, policy |-> policy, registry |-> registry, rule |-> rule]
      ELSE None

LastAdmission ==
  CHOOSE t \in {history[i].admission : i \in DOMAIN history} :
    \A i \in DOMAIN history : history[i].admission <= t

(* The repository advances past its newest instant: two appends never      *)
(* share one, and a clock that steps back does not wedge it.               *)
Bug_NextAdmission == IF clock < LastAdmission THEN LastAdmission ELSE clock

NextAdmission == IF clock > LastAdmission THEN clock ELSE LastAdmission + 1

(* A lagging clock never resolves a durable record away. *)
Bug_IntakeCutoff == clock

IntakeCutoff == IF clock > LastAdmission THEN clock ELSE LastAdmission

(* A detector may only restrict: whatever permits or releases needs        *)
(* verified evidence, and so does every family but the fact.               *)
Releases(c) == c.prior # 0 /\ history[c.prior].restrict /\ ~c.restrict

Admissible(c) ==
  c.verified \/ (c.key = "FACT" /\ ~Releases(c) /\ (c.prior = 0 => c.restrict))

----------------------------------------------------------------------------
(* Publishers.                                                             *)

(* The caller stamps a candidate, on the canonical head that               *)
(* issue_authorization finds too.  The rule is filled in where that is     *)
(* checked.                                                                *)
Begin(p) ==
  /\ job[p] = Idle
  /\ Len(history) < MaxRecords
  /\ \E k \in Key, registry \in 0 .. Len(history), restrict \in BOOLEAN, verified \in BOOLEAN :
       /\ k # "FACT" => ~restrict
       /\ verified \/ k = "FACT"
       /\ restrict => ~verified
       /\ IF k = "POLICY" THEN registry # 0 /\ history[registry].key \in Registry ELSE registry = 0
       /\ job' = [job EXCEPT ![p] =
            [step |-> "candidate",
             claims |-> [key |-> k, prior |-> heads[k], rule |-> 0, known |-> clock,
                         registry |-> registry, restrict |-> restrict, verified |-> verified]]]
  /\ UNCHANGED <<clock, history, heads, intake>>

(* The rest of it: the rule as it was at known_at and as it is now, the    *)
(* evidence, and the signed authorization registered, with no second look  *)
(* at the head of the family.                                              *)
Issue(p) ==
  /\ job[p].step = "candidate"
  /\ LET c == [job[p].claims EXCEPT !.rule = heads["RULE"]] IN
       /\ CanonicalHead("RULE", c.known) = c.rule
       /\ Admissible(c)
       /\ job' = [job EXCEPT ![p] = [step |-> "issued", claims |-> c]]
  /\ UNCHANGED <<clock, history, heads, intake>>

(* Whatever it expected to supersede is still the canonical head. *)
Bug_HeadUnchanged(c) == c.prior = 0 => heads[c.key] = 0

HeadUnchanged(c) == heads[c.key] = c.prior

(* The rule is the canonical head now, and was strict-known at known_at. *)
Bug_StrictKnownRule(c) == StrictKnownHead("RULE", c.known) = c.rule

StrictKnownRule(c) == heads["RULE"] = c.rule /\ StrictKnownHead("RULE", c.known) = c.rule

(* Strict-known at its admission, and not expired by then. *)
Bug_InWindow(c) == NextAdmission <= c.known + Ttl

InWindow(c) == c.known <= NextAdmission /\ NextAdmission <= c.known + Ttl

(* One write transaction.  It consumes the authorization, so that nothing  *)
(* can be published with it again.                                         *)
Publish(p) ==
  /\ job[p].step = "issued"
  /\ Len(history) < MaxRecords
  /\ LET c == job[p].claims
         new == Len(history) + 1
     IN  /\ HeadUnchanged(c)
         /\ StrictKnownRule(c)
         /\ Admissible(c)
         /\ InWindow(c)
         /\ history' = Append(history,
              [key |-> c.key, prior |-> c.prior, rule |-> c.rule, known |-> c.known,
               registry |-> c.registry, restrict |-> c.restrict, verified |-> c.verified,
               admission |-> NextAdmission])
         /\ heads' = [heads EXCEPT ![c.key] = new]
         /\ job' = [job EXCEPT ![p] = Idle]
  /\ UNCHANGED <<clock, intake>>

(* A check raised, or the process ended.  An authorization it registered   *)
(* stays in its table, and nobody else holds it.                           *)
Abandon(p) ==
  /\ job[p] # Idle
  /\ job' = [job EXCEPT ![p] = Idle]
  /\ UNCHANGED <<clock, history, heads, intake>>

----------------------------------------------------------------------------
(* Readers and the clock.                                                  *)

(* Intake resolves and persists under one write lock; a fact that denies   *)
(* retention, or no authority, persists nothing.  One intake is followed.  *)
Ingest ==
  LET authority == Authority(IntakeCutoff) IN
  /\ intake.authority = None
  /\ authority # None
  /\ ~history[authority.fact].restrict
  /\ intake' = [authority |-> authority, at |-> Len(history),
                cutoff |-> IntakeCutoff, last |-> LastAdmission]
  /\ UNCHANGED <<clock, history, heads, job>>

Tick ==
  /\ clock < MaxTime
  /\ clock' = clock + 1
  /\ UNCHANGED <<history, heads, job, intake>>

StepBack ==
  /\ clock > MinTime
  /\ clock' = clock - 1
  /\ UNCHANGED <<history, heads, job, intake>>

Next ==
  \/ \E p \in Publisher :
       Begin(p) \/ Issue(p) \/ Publish(p) \/ Abandon(p)
  \/ Ingest
  \/ Tick
  \/ StepBack

Spec == Init /\ [][Next]_vars

----------------------------------------------------------------------------
(* Properties.                                                             *)

(* The values the tables and the callers' locals hold: the repository      *)
(* never lets an append go back in time, whatever the clock does.          *)
TypeOK ==
  /\ clock \in Nat
  /\ history \in Seq(Record)
  /\ heads \in [Key -> 0 .. Len(history)]
  /\ job \in [Publisher -> Job]
  /\ \A i \in DOMAIN history : history[i].known <= history[i].admission

(* _verify_authenticated_history raises TAMPER_DETECTED for ever when a    *)
(* committed chain is not linear or a head is not its last record: no      *)
(* interleaving of publishers writes such a history.                       *)
NeverTampered ==
  \A k \in Key :
    LET chain == {i \in DOMAIN history : history[i].key = k} IN
    /\ heads[k] \in chain \/ (heads[k] = 0 /\ chain = {})
    /\ \A i \in chain :
         /\ i <= heads[k]
         /\ history[i].prior \in chain \cup {0}
         /\ history[i].prior < i
         /\ \A j \in chain : j < i => j <= history[i].prior

(* _strict_known_rule, "authorization names a stale authorization rule":   *)
(* whatever was decided before the rule changed is not published after it. *)
RuleWasHead ==
  \A i \in DOMAIN history : \A j \in 1 .. i - 1 :
    history[j].key = "RULE" => j <= history[i].rule

(* The history is append-only, so a record that once stopped verifying     *)
(* would break every replay: whatever is published, and whatever the clock *)
(* did, each record verifies at every instant from its admission on.       *)
StaysVerifiable ==
  \A i \in DOMAIN history : Verifies(i, history[i].admission)

(* "an intake write transaction also locks the authority history, so a     *)
(* restrictive successor cannot commit between the authority decision and  *)
(* the write it authorizes": each intake was persisted under the newest    *)
(* record of every family, whatever the clock said.                        *)
IntakeUnderCurrentAuthority ==
  \A i \in 1 .. intake.at, part \in DOMAIN None :
    intake.at # 0 /\ history[i].key = history[intake.authority[part]].key =>
      i <= intake.authority[part]

(* What was resolved at a cutoff no later than the newest admission then,  *)
(* is what that cutoff resolves to for ever.                               *)
SettledCutoffIsStable ==
  intake.at # 0 /\ intake.cutoff = intake.last =>
    CanonicalHead("FACT", intake.cutoff) = intake.authority.fact

=============================================================================
