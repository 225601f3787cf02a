-------------------- MODULE SourceHandlingAuthorityProofs --------------------
(***************************************************************************)
(* Proofs about the authority history, for any publishers, registries and  *)
(* bounds.  What a cutoff makes of a history h is restated at the constant *)
(* level, so that what it makes of the history before and after an append  *)
(* can be compared.                                                        *)
(***************************************************************************)
EXTENDS SourceHandlingAuthority, FiniteSetTheorems, SequenceTheorems, TLAPS

Chain(h, k) == {i \in DOMAIN h : h[i].key = k}

Eligible(h, k, cutoff) ==
  {i \in DOMAIN h : h[i].key = k /\ h[i].known <= cutoff /\ h[i].admission <= cutoff}

HeadOf(E, prior) ==
  LET top == {i \in E : \A j \in E : prior[j] # i}
  IN  IF Cardinality(top) = 1 /\ \A i \in E : prior[i] \in E \cup {0}
      THEN CHOOSE i \in top : TRUE
      ELSE 0

HeadIn(h, k, cutoff) ==
  HeadOf(Eligible(h, k, cutoff), [i \in Eligible(h, k, cutoff) |-> h[i].prior])

(* Admissions only ever advance, and each record was decided under the rule*)
(* that was the head when it was committed: a rule supersedes the one that *)
(* authorized it, any other record names the one known when it was stamped.*)
HistoryOK(h) ==
  /\ h \in Seq(Record) /\ 1 \in DOMAIN h /\ h[1].key = "RULE"
  /\ \A i \in DOMAIN h : h[i].known <= h[i].admission
  /\ \A i, j \in DOMAIN h : i < j => h[i].admission < h[j].admission
  /\ \A i, j \in DOMAIN h : h[j].key = "RULE" /\ j < i => j <= h[i].rule
  /\ \A i \in DOMAIN h : h[i].key = "RULE" /\ i # 1 =>
       h[i].rule = h[i].prior /\ h[i].prior \in Eligible(h, "RULE", h[i].known)
  /\ \A i \in DOMAIN h : h[i].key # "RULE" =>
       h[i].rule \in Chain(h, "RULE") /\ HeadIn(h, "RULE", h[i].known) = h[i].rule

(* A canonical head is the last of its chain, and the chain is linear. *)
ChainsOK(h, hd) ==
  /\ hd \in [Key -> 0 .. Len(h)]
  /\ \A k \in Key : hd[k] \in Chain(h, k) \/ (hd[k] = 0 /\ Chain(h, k) = {})
  /\ \A i \in DOMAIN h :
       /\ i <= hd[h[i].key]
       /\ h[i].prior \in Chain(h, h[i].key) \cup {0}
       /\ h[i].prior < i
       /\ \A j \in Chain(h, h[i].key) : j < i => j <= h[i].prior

(* What an intake was persisted under was current, and its cutoff, when it *)
(* was settled, lies before anything committed since.                      *)
IntakeOK(h, n) ==
  n.at # 0 =>
    /\ n.at \in DOMAIN h
    /\ \A part \in DOMAIN None :
         /\ n.authority[part] \in 1 .. n.at
         /\ \A i \in 1 .. n.at : h[i].key = h[n.authority[part]].key => i <= n.authority[part]
    /\ n.last \in Nat /\ n.last <= h[Len(h)].admission
    /\ n.cutoff = n.last => HeadIn(h, "FACT", n.cutoff) = n.authority.fact

(* The inductive invariant. *)
Inv ==
  /\ clock \in Nat
  /\ job \in [Publisher -> Job]
  /\ HistoryOK(history)
  /\ ChainsOK(history, heads)
  /\ IntakeOK(history, intake)

----------------------------------------------------------------------------
(* Heads at a cutoff.                                                      *)

LEMMA HeadIsHeadIn ==
  ASSUME NEW k, NEW cutoff
  PROVE  StrictKnownHead(k, cutoff) = HeadIn(history, k, cutoff)
<1> DEFINE E == {i \in DOMAIN history : history[i].key = k /\ StrictKnown(i, cutoff)}
           prior == [i \in E |-> history[i].prior]
           top == {i \in E : \A j \in E : history[j].prior # i}
           above == {i \in E : \A j \in E : prior[j] # i}
<1>1. E = Eligible(history, k, cutoff)
  BY DEF Eligible, StrictKnown
<1>2. StrictKnownHead(k, cutoff) =
        IF Cardinality(top) = 1 /\ \A i \in E : history[i].prior \in E \cup {0}
        THEN CHOOSE i \in top : TRUE ELSE 0
  BY DEF StrictKnownHead
<1>3. HeadOf(E, prior) =
        IF Cardinality(above) = 1 /\ \A i \in E : prior[i] \in E \cup {0}
        THEN CHOOSE i \in above : TRUE ELSE 0
  BY DEF HeadOf
<1>4. above = top
  OBVIOUS
<1>5. (\A i \in E : history[i].prior \in E \cup {0}) <=> (\A i \in E : prior[i] \in E \cup {0})
  OBVIOUS
<1>6. HeadIn(history, k, cutoff) = HeadOf(E, prior)
  BY <1>1 DEF HeadIn
<1> HIDE DEF E, top, prior, above
<1>7. QED
  BY <1>2, <1>3, <1>4, <1>5, <1>6

LEMMA HeadOfProperties ==
  ASSUME NEW E, IsFiniteSet(E), NEW prior, HeadOf(E, prior) # 0
  PROVE  /\ HeadOf(E, prior) \in E
         /\ \A i \in E : (\A j \in E : prior[j] # i) => i = HeadOf(E, prior)
<1> DEFINE top == {i \in E : \A j \in E : prior[j] # i}
<1>1. IsFiniteSet(top)
  BY FS_Subset
<1>2. Cardinality(top) = 1 /\ HeadOf(E, prior) = CHOOSE i \in top : TRUE
  BY Zenon DEF HeadOf
<1> HIDE DEF top
<1>3. PICK x : top = {x}
  BY <1>1, <1>2, FS_Singleton
<1>4. HeadOf(E, prior) = x
  BY <1>2, <1>3
<1>5. QED
  BY <1>3, <1>4 DEF top

LEMMA HeadOfSingleton ==
  ASSUME NEW x, NEW prior, prior[x] = 0, x # 0
  PROVE  HeadOf({x}, prior) = x
<1> DEFINE top == {i \in {x} : \A j \in {x} : prior[j] # i}
<1>1. top = {x}
  OBVIOUS
<1>2. Cardinality(top) = 1
  BY <1>1, FS_Singleton
<1>3. (CHOOSE i \in top : TRUE) = x
  BY <1>1
<1> HIDE DEF top
<1>4. HeadOf({x}, prior) = IF Cardinality(top) = 1 /\ \A i \in {x} : prior[i] \in {x} \cup {0}
                           THEN CHOOSE i \in top : TRUE ELSE 0
  BY Zenon DEF HeadOf, top
<1>5. QED
  BY <1>2, <1>3, <1>4

LEMMA EligibleFinite ==
  ASSUME NEW h \in Seq(Record), NEW k, NEW cutoff
  PROVE  IsFiniteSet(Eligible(h, k, cutoff))
<1>1. DOMAIN h = 1 .. Len(h) /\ Len(h) \in Nat
  OBVIOUS
<1>2. IsFiniteSet(DOMAIN h)
  BY <1>1, FS_Interval
<1>3. QED
  BY <1>2, FS_Subset DEF Eligible

LEMMA HeadInProperties ==
  ASSUME NEW h \in Seq(Record), NEW k, NEW cutoff, HeadIn(h, k, cutoff) # 0
  PROVE  /\ HeadIn(h, k, cutoff) \in Eligible(h, k, cutoff)
         /\ \A i \in Eligible(h, k, cutoff) :
              (\A j \in Eligible(h, k, cutoff) : h[j].prior # i) => i = HeadIn(h, k, cutoff)
<1> DEFINE E == Eligible(h, k, cutoff)
           prior == [i \in E |-> h[i].prior]
<1>1. IsFiniteSet(E)
  BY EligibleFinite
<1>2. HeadIn(h, k, cutoff) = HeadOf(E, prior)
  BY DEF HeadIn
<1>3. \A j \in E : prior[j] = h[j].prior
  OBVIOUS
<1> HIDE DEF E, prior
<1>4. /\ HeadOf(E, prior) \in E
      /\ \A i \in E : (\A j \in E : prior[j] # i) => i = HeadOf(E, prior)
  BY <1>1, <1>2, HeadOfProperties
<1>5. QED
  BY <1>2, <1>3, <1>4 DEF E

----------------------------------------------------------------------------
(* An append.                                                              *)

LEMMA RecordType ==
  ASSUME NEW r \in Record
  PROVE  /\ r.key \in Key /\ r.prior \in Nat /\ r.rule \in Nat /\ r.known \in Nat
         /\ r.registry \in Nat /\ r.restrict \in BOOLEAN /\ r.verified \in BOOLEAN
         /\ r.admission \in Nat
BY DEF Record

LEMMA Longer ==
  ASSUME NEW h \in Seq(Record), NEW r \in Record
  PROVE  /\ Append(h, r) \in Seq(Record) /\ Len(h) \in Nat
         /\ Len(Append(h, r)) = Len(h) + 1
         /\ DOMAIN h = 1 .. Len(h) /\ DOMAIN Append(h, r) = DOMAIN h \cup {Len(h) + 1}
         /\ \A i \in DOMAIN h : Append(h, r)[i] = h[i]
         /\ Append(h, r)[Len(h) + 1] = r
         /\ \A i \in DOMAIN h : h[i] \in Record
BY AppendProperties

(* What a cutoff makes of a family does not change by a record of another  *)
(* family, or by one that is admitted later.                               *)
LEMMA HeadIsStable ==
  ASSUME NEW h \in Seq(Record), NEW r \in Record, NEW k, NEW cutoff \in Nat,
         r.key # k \/ cutoff < r.admission
  PROVE  /\ Eligible(Append(h, r), k, cutoff) = Eligible(h, k, cutoff)
         /\ HeadIn(Append(h, r), k, cutoff) = HeadIn(h, k, cutoff)
<1> DEFINE g == Append(h, r)
           E == Eligible(h, k, cutoff)
<1>1. ~(r.key = k /\ r.known <= cutoff /\ r.admission <= cutoff)
  BY RecordType
<1>2. Eligible(g, k, cutoff) = E
  BY <1>1, Longer DEF Eligible
<1>3. \A i \in E : g[i].prior = h[i].prior
  BY Longer DEF Eligible
<1> HIDE DEF g, E
<1>4. [i \in E |-> g[i].prior] = [i \in E |-> h[i].prior]
  BY <1>3
<1>5. QED
  BY <1>2, <1>4, Zenon DEF HeadIn, g, E

(* HeadUnchanged keeps every chain linear. *)
LEMMA ChainsGrow ==
  ASSUME NEW h \in Seq(Record), NEW hd, ChainsOK(h, hd),
         NEW r \in Record, r.prior = hd[r.key]
  PROVE  ChainsOK(Append(h, r), [hd EXCEPT ![r.key] = Len(h) + 1])
<1> DEFINE g == Append(h, r)
           new == Len(h) + 1
           gd == [hd EXCEPT ![r.key] = new]
<1>1. /\ r.key \in Key /\ hd \in [Key -> 0 .. Len(h)] /\ Len(h) \in Nat
      /\ Len(g) = new /\ DOMAIN h = 1 .. Len(h) /\ DOMAIN g = DOMAIN h \cup {new}
      /\ \A i \in DOMAIN h : g[i] = h[i] /\ h[i].key \in Key
      /\ g[new] = r
  BY Longer, RecordType DEF ChainsOK
<1> HIDE DEF g
<1>2. gd \in [Key -> 0 .. new]
  BY <1>1
<1>3. \A k \in Key : Chain(g, k) = Chain(h, k) \cup (IF k = r.key THEN {new} ELSE {})
  BY <1>1 DEF Chain
<1>4. \A k \in Key : gd[k] \in Chain(g, k) \/ (gd[k] = 0 /\ Chain(g, k) = {})
  BY <1>1, <1>3 DEF ChainsOK
<1>5. ASSUME NEW i \in DOMAIN g
      PROVE  /\ i <= gd[g[i].key]
             /\ g[i].prior \in Chain(g, g[i].key) \cup {0}
             /\ g[i].prior < i
             /\ \A j \in Chain(g, g[i].key) : j < i => j <= g[i].prior
  <2>1. CASE i \in DOMAIN h
    <3>1. /\ i <= hd[h[i].key] /\ h[i].prior < i
          /\ h[i].prior \in Chain(h, h[i].key) \cup {0}
          /\ \A j \in Chain(h, h[i].key) : j < i => j <= h[i].prior
      BY <2>1 DEF ChainsOK
    <3>2. g[i] = h[i] /\ h[i].key \in Key /\ i < new /\ ~(new < i)
      BY <1>1, <2>1
    <3>3. i <= gd[g[i].key]
      BY <1>1, <3>1, <3>2
    <3>4. QED
      BY <1>3, <3>1, <3>2, <3>3
  <2>2. CASE i = new
    <3>1. \A j \in Chain(h, r.key) : j <= hd[r.key]
      BY DEF ChainsOK, Chain
    <3>2. hd[r.key] \in Chain(h, r.key) \cup {0} /\ hd[r.key] < new
      BY <1>1 DEF ChainsOK
    <3>3. \A j \in Chain(g, r.key) : j < new => j \in Chain(h, r.key)
      BY <1>1, <1>3
    <3>4. QED
      BY <1>1, <1>3, <2>2, <3>1, <3>2, <3>3
  <2>3. QED
    BY <1>1, <2>1, <2>2
<1>6. QED
  BY <1>1, <1>2, <1>4, <1>5 DEF ChainsOK, g

(* StrictKnownRule and InWindow keep the history well-authorized. *)
LEMMA HistoryGrows ==
  ASSUME NEW h, HistoryOK(h), NEW hd, ChainsOK(h, hd),
         NEW r \in Record, r.prior = hd[r.key], r.rule = hd["RULE"],
         HeadIn(h, "RULE", r.known) = r.rule,
         r.known <= r.admission, \A i \in DOMAIN h : h[i].admission < r.admission
  PROVE  HistoryOK(Append(h, r))
<1> DEFINE g == Append(h, r)
           new == Len(h) + 1
<1>1. /\ h \in Seq(Record) /\ 1 \in DOMAIN h
      /\ g \in Seq(Record) /\ Len(h) \in Nat
      /\ DOMAIN h = 1 .. Len(h) /\ DOMAIN g = DOMAIN h \cup {new}
      /\ \A i \in DOMAIN h : g[i] = h[i] /\ h[i] \in Record
      /\ g[new] = r
  BY Longer DEF HistoryOK
<1>2. r.rule \in Chain(h, "RULE") /\ \A j \in Chain(h, "RULE") : j <= r.rule
  <2>1. "RULE" \in Key
    BY DEF Key
  <2>2. Chain(h, "RULE") # {}
    BY DEF HistoryOK, Chain
  <2>3. QED
    BY <2>1, <2>2 DEF ChainsOK, Chain
<1>3. r.rule # 0
  BY <1>1, <1>2 DEF Chain
<1>4. r.rule \in Eligible(h, "RULE", r.known)
  BY <1>1, <1>3, HeadInProperties
<1> HIDE DEF g
<1>5. ASSUME NEW i \in DOMAIN h, NEW k
      PROVE  Eligible(h, k, h[i].known) \subseteq Eligible(g, k, h[i].known)
  BY <1>1 DEF Eligible
<1>6. \A i \in DOMAIN g : g[i].known <= g[i].admission
  BY <1>1 DEF HistoryOK
<1>7. \A i, j \in DOMAIN g : i < j => g[i].admission < g[j].admission
  BY <1>1 DEF HistoryOK
<1>8. \A i, j \in DOMAIN g : g[j].key = "RULE" /\ j < i => j <= g[i].rule
  <2> SUFFICES ASSUME NEW i \in DOMAIN g, NEW j \in DOMAIN g, g[j].key = "RULE", j < i
               PROVE  j <= g[i].rule
    OBVIOUS
  <2>1. j \in DOMAIN h /\ j \in Chain(h, "RULE")
    BY <1>1 DEF Chain
  <2>2. CASE i \in DOMAIN h
    BY <1>1, <2>1, <2>2 DEF HistoryOK
  <2>3. CASE i = new
    BY <1>1, <1>2, <2>1, <2>3
  <2>4. QED
    BY <1>1, <2>2, <2>3
<1>9. ASSUME NEW i \in DOMAIN g, g[i].key = "RULE", i # 1
      PROVE  g[i].rule = g[i].prior /\ g[i].prior \in Eligible(g, "RULE", g[i].known)
  <2>1. CASE i \in DOMAIN h
    BY <1>1, <1>5, <1>9, <2>1 DEF HistoryOK
  <2>2. CASE i = new
    BY <1>1, <1>4, <1>9, <2>2 DEF Eligible
  <2>3. QED
    BY <1>1, <2>1, <2>2
<1>10. ASSUME NEW i \in DOMAIN g, g[i].key # "RULE"
       PROVE  g[i].rule \in Chain(g, "RULE") /\ HeadIn(g, "RULE", g[i].known) = g[i].rule
  <2>1. Chain(h, "RULE") \subseteq Chain(g, "RULE")
    BY <1>1 DEF Chain
  <2>2. CASE i \in DOMAIN h
    <3>1. h[i].known \in Nat /\ h[i].known < r.admission
      BY <1>1, <2>2, RecordType DEF HistoryOK
    <3>2. HeadIn(g, "RULE", h[i].known) = HeadIn(h, "RULE", h[i].known)
      BY <1>1, <3>1, HeadIsStable DEF g
    <3>3. QED
      BY <1>1, <1>10, <2>1, <2>2, <3>2 DEF HistoryOK
  <2>3. CASE i = new
    <3>1. r.key # "RULE" /\ r.known \in Nat
      BY <1>1, <1>10, <2>3, RecordType
    <3>2. HeadIn(g, "RULE", r.known) = HeadIn(h, "RULE", r.known)
      BY <1>1, <3>1, HeadIsStable DEF g
    <3>3. QED
      BY <1>1, <1>2, <2>1, <2>3, <3>2
  <2>4. QED
    BY <1>1, <2>2, <2>3
<1>11. 1 \in DOMAIN g /\ g[1].key = "RULE"
  BY <1>1 DEF HistoryOK
<1>12. QED
  BY <1>1, <1>6, <1>7, <1>8, <1>9, <1>10, <1>11 DEF HistoryOK, g

(* What is committed later is admitted later than the intake saw. *)
LEMMA IntakeStands ==
  ASSUME NEW h, HistoryOK(h), NEW n, IntakeOK(h, n),
         NEW r \in Record, \A i \in DOMAIN h : h[i].admission < r.admission
  PROVE  IntakeOK(Append(h, r), n)
<1> DEFINE g == Append(h, r)
           new == Len(h) + 1
<1> SUFFICES ASSUME n.at # 0
             PROVE  /\ n.at \in DOMAIN g
                    /\ \A part \in DOMAIN None :
                         /\ n.authority[part] \in 1 .. n.at
                         /\ \A i \in 1 .. n.at :
                              g[i].key = g[n.authority[part]].key => i <= n.authority[part]
                    /\ n.last \in Nat /\ n.last <= g[Len(g)].admission
                    /\ n.cutoff = n.last => HeadIn(g, "FACT", n.cutoff) = n.authority.fact
  BY DEF IntakeOK
<1>1. /\ h \in Seq(Record) /\ Len(h) \in Nat /\ Len(g) = new
      /\ DOMAIN h = 1 .. Len(h) /\ DOMAIN g = DOMAIN h \cup {new}
      /\ \A i \in DOMAIN h : g[i] = h[i] /\ h[i].admission \in Nat
      /\ g[new] = r /\ r.admission \in Nat
  BY Longer, RecordType DEF HistoryOK
<1> HIDE DEF g
<1>2. n.at \in DOMAIN h /\ 1 .. n.at \subseteq DOMAIN h
  BY <1>1 DEF IntakeOK
<1>3. \A part \in DOMAIN None :
        /\ n.authority[part] \in 1 .. n.at
        /\ \A i \in 1 .. n.at : g[i].key = g[n.authority[part]].key => i <= n.authority[part]
  BY <1>1, <1>2 DEF IntakeOK
<1>4. n.last \in Nat /\ n.last < r.admission
  BY <1>1, <1>2 DEF IntakeOK
<1>5. ASSUME n.cutoff = n.last
      PROVE  HeadIn(g, "FACT", n.cutoff) = n.authority.fact
  <2>1. HeadIn(g, "FACT", n.last) = HeadIn(h, "FACT", n.last)
    BY <1>1, <1>4, HeadIsStable DEF g
  <2>2. QED
    BY <1>5, <2>1 DEF IntakeOK
<1>6. QED
  BY <1>1, <1>2, <1>3, <1>4, <1>5

----------------------------------------------------------------------------
(* What the invariant gives a reader.                                      *)

LEMMA Latest ==
  ASSUME Inv
  PROVE  /\ LastAdmission \in Nat /\ LastAdmission = history[Len(history)].admission
         /\ \A i \in DOMAIN history : history[i].admission <= LastAdmission
<1> DEFINE T == {history[i].admission : i \in DOMAIN history}
           last == history[Len(history)].admission
<1>1. /\ history \in Seq(Record) /\ Len(history) \in Nat
      /\ DOMAIN history = 1 .. Len(history) /\ Len(history) \in DOMAIN history
  BY DEF Inv, HistoryOK
<1>2. \A i \in DOMAIN history : history[i].admission \in Nat
  BY <1>1, RecordType
<1>3. \A i \in DOMAIN history : history[i].admission <= last
  BY <1>1, <1>2 DEF Inv, HistoryOK
<1>4. last \in T /\ \A t \in T : (\A i \in DOMAIN history : history[i].admission <= t) => t = last
  BY <1>1, <1>2, <1>3
<1>5. LastAdmission = last
  <2> HIDE DEF last
  <2>1. LastAdmission \in T /\ \A i \in DOMAIN history : history[i].admission <= LastAdmission
    BY <1>3, <1>4 DEF LastAdmission
  <2>2. QED
    BY <1>4, <2>1
<1>6. QED
  BY <1>1, <1>2, <1>3, <1>5

LEMMA RulesVerify ==
  ASSUME Inv, NEW r \in Chain(history, "RULE")
  PROVE  RuleVerifies(r)
<1> DEFINE way == Chain(history, "RULE")
<1>1. way \in SUBSET DOMAIN history /\ r \in way
  BY DEF Chain
<1>2. ASSUME NEW i \in way \ {1}
      PROVE  /\ history[i].prior \in way /\ history[i].prior < i
             /\ history[i].rule = history[i].prior
             /\ StrictKnown(history[i].prior, history[i].known)
  <2>1. i \in DOMAIN history /\ history[i].key = "RULE" /\ i # 1
    BY DEF Chain
  <2>2. /\ history[i].rule = history[i].prior
        /\ history[i].prior \in Eligible(history, "RULE", history[i].known)
    BY <2>1 DEF Inv, HistoryOK
  <2>3. history[i].prior < i
    BY <2>1 DEF Inv, ChainsOK
  <2>4. QED
    BY <2>2, <2>3 DEF Eligible, Chain, StrictKnown
<1>3. QED
  BY <1>1, <1>2, Zenon DEF RuleVerifies

(* Every record verifies, at any cutoff at which it is known. *)
LEMMA RecordsVerify ==
  ASSUME Inv, NEW i \in DOMAIN history, NEW cutoff, StrictKnown(i, cutoff)
  PROVE  Verifies(i, cutoff)
<1>1. CASE history[i].key = "RULE"
  <2>1. i \in Chain(history, "RULE")
    BY <1>1 DEF Chain
  <2>2. QED
    BY <1>1, <2>1, RulesVerify DEF Verifies
<1>2. CASE history[i].key # "RULE"
  <2>1. /\ history[i].rule \in Chain(history, "RULE")
        /\ HeadIn(history, "RULE", history[i].known) = history[i].rule
    BY <1>2 DEF Inv, HistoryOK
  <2>2. StrictKnownHead("RULE", history[i].known) = history[i].rule
    BY <2>1, HeadIsHeadIn
  <2>3. QED
    BY <1>2, <2>1, <2>2, RulesVerify DEF Verifies
<1>3. QED
  BY <1>1, <1>2

(* A canonical head is a strict-known one: verification never removes it. *)
LEMMA CanonicalIsKnown ==
  ASSUME Inv, NEW k, NEW cutoff
  PROVE  /\ CanonicalHead(k, cutoff) = HeadIn(history, k, cutoff)
         /\ CanonicalHead(k, cutoff) # 0 =>
              CanonicalHead(k, cutoff) \in Eligible(history, k, cutoff)
<1> DEFINE head == StrictKnownHead(k, cutoff)
<1>1. head = HeadIn(history, k, cutoff) /\ history \in Seq(Record)
  BY HeadIsHeadIn DEF Inv, HistoryOK
<1>2. head # 0 => head \in Eligible(history, k, cutoff)
  BY <1>1, HeadInProperties
<1> HIDE DEF head
<1>3. head # 0 => Verifies(head, cutoff)
  <2>1. head # 0 => head \in DOMAIN history /\ StrictKnown(head, cutoff)
    BY <1>2 DEF Eligible, StrictKnown
  <2>2. QED
    BY <2>1, RecordsVerify
<1>4. CanonicalHead(k, cutoff) = IF head # 0 /\ Verifies(head, cutoff) THEN head ELSE 0
  BY DEF CanonicalHead, head
<1>5. QED
  BY <1>1, <1>2, <1>3, <1>4

(* A cutoff that no admission is later than resolves to the newest record. *)
LEMMA NewestIsResolved ==
  ASSUME Inv, NEW k, NEW cutoff \in Nat, LastAdmission <= cutoff, CanonicalHead(k, cutoff) # 0
  PROVE  LET head == CanonicalHead(k, cutoff)
         IN  head \in Chain(history, k) /\ \A i \in Chain(history, k) : i <= head
<1> DEFINE head == CanonicalHead(k, cutoff)
<1>1. head = HeadIn(history, k, cutoff) /\ head \in Eligible(history, k, cutoff)
  BY CanonicalIsKnown
<1>2. /\ history \in Seq(Record)
      /\ \A i \in DOMAIN history : history[i].known <= cutoff /\ history[i].admission <= cutoff
  <2>1. \A i \in DOMAIN history :
          /\ history[i].known \in Nat /\ history[i].admission \in Nat
          /\ history[i].known <= history[i].admission
    BY RecordType DEF Inv, HistoryOK
  <2>2. QED
    BY <2>1, Latest DEF Inv, HistoryOK
<1>3. Eligible(history, k, cutoff) = Chain(history, k)
  BY <1>2 DEF Eligible, Chain
<1>4. k \in Key
  BY <1>1, <1>2, RecordType DEF Eligible
<1>5. heads[k] \in Chain(history, k)
  BY <1>1, <1>3, <1>4 DEF Inv, ChainsOK
<1>6. \A j \in Chain(history, k) : j <= heads[k] /\ history[j].prior < j
  BY DEF Inv, ChainsOK, Chain
<1>7. \A j \in Chain(history, k) : history[j].prior # heads[k]
  BY <1>2, <1>5, <1>6, RecordType DEF Chain
<1>8. HeadIn(history, k, cutoff) = heads[k]
  BY <1>1, <1>2, <1>3, <1>5, <1>7, HeadInProperties
<1>9. QED
  BY <1>1, <1>3, <1>6, <1>8

----------------------------------------------------------------------------
(* Steps.                                                                  *)

LEMMA FourRecords ==
  ASSUME NEW a \in Record, NEW b \in Record, NEW c \in Record, NEW d \in Record
  PROVE  <<a, b, c, d>> \in Seq(Record)
OBVIOUS

LEMMA InitHolds == Init => Inv
<1> SUFFICES ASSUME Init PROVE Inv
  OBVIOUS
<1> DEFINE h == history
<1>1. PICK registry \in Registry, restrict \in BOOLEAN :
        /\ h = <<Provisioned(1, "RULE", 0, FALSE), Provisioned(2, "FACT", 0, restrict),
                 Provisioned(3, registry, 0, FALSE), Provisioned(4, "POLICY", 3, FALSE)>>
        /\ heads = [k \in Key |-> CASE k = "RULE" -> 1 [] k = "FACT" -> 2 [] k = "POLICY" -> 4
                                     [] k = registry -> 3 [] OTHER -> 0]
  BY Zenon DEF Init
<1>2. registry \in Key /\ registry \notin {"RULE", "FACT", "POLICY"}
      /\ {"RULE", "FACT", "POLICY"} \subseteq Key
  BY AuthorityAssumption DEF Key
<1>3. /\ DOMAIN h = {1, 2, 3, 4} /\ Len(h) = 4
      /\ h[1].key = "RULE" /\ h[2].key = "FACT" /\ h[3].key = registry /\ h[4].key = "POLICY"
      /\ \A i \in {1, 2, 3, 4} :
           h[i].prior = 0 /\ h[i].known = i - 1 /\ h[i].admission = i - 1
      /\ \A i \in {2, 3, 4} : h[i].rule = 1
      /\ h[1].rule = 0
  BY <1>1, <1>2 DEF Provisioned
<1>4. h \in Seq(Record)
  <2>1. h[1] \in Record /\ h[2] \in Record /\ h[3] \in Record /\ h[4] \in Record
    BY <1>1, <1>2 DEF Provisioned, Record
  <2>2. h = <<h[1], h[2], h[3], h[4]>>
    BY <1>1
  <2> HIDE DEF h
  <2>3. <<h[1], h[2], h[3], h[4]>> \in Seq(Record)
    BY <2>1, FourRecords
  <2>4. QED
    BY <2>2, <2>3, Zenon
<1> HIDE DEF h
<1>5. Chain(h, "RULE") = {1}
  BY <1>2, <1>3 DEF Chain
<1>6. ASSUME NEW i \in {2, 3, 4}
      PROVE  HeadIn(h, "RULE", h[i].known) = 1
  <2>1. Eligible(h, "RULE", h[i].known) = {1}
    BY <1>2, <1>3 DEF Eligible
  <2>2. HeadIn(h, "RULE", h[i].known) = HeadOf({1}, [x \in {1} |-> h[x].prior])
    BY <2>1 DEF HeadIn
  <2>3. [x \in {1} |-> h[x].prior][1] = 0
    BY <1>3
  <2>4. QED
    BY <2>2, <2>3, HeadOfSingleton
<1>7. HistoryOK(h)
  <2>1. h \in Seq(Record) /\ 1 \in DOMAIN h /\ h[1].key = "RULE"
    BY <1>3, <1>4
  <2>2. /\ \A i \in DOMAIN h : h[i].known <= h[i].admission
        /\ \A i, j \in DOMAIN h : i < j => h[i].admission < h[j].admission
    BY <1>3
  <2>3. \A i \in DOMAIN h : h[i].key = "RULE" => i = 1
    BY <1>2, <1>3
  <2>4. \A i, j \in DOMAIN h : h[j].key = "RULE" /\ j < i => j <= h[i].rule
    BY <1>3, <2>3
  <2>5. \A i \in DOMAIN h : h[i].key # "RULE" =>
          h[i].rule \in Chain(h, "RULE") /\ HeadIn(h, "RULE", h[i].known) = h[i].rule
    BY <1>3, <1>5, <1>6
  <2>6. QED
    BY <2>1, <2>2, <2>3, <2>4, <2>5 DEF HistoryOK
<1>8. ChainsOK(h, heads)
  <2>1. /\ heads["RULE"] = 1 /\ heads["FACT"] = 2 /\ heads[registry] = 3 /\ heads["POLICY"] = 4
        /\ \A k \in Key \ {"RULE", "FACT", registry, "POLICY"} : heads[k] = 0
    BY <1>1, <1>2
  <2>2. heads \in [Key -> 0 .. 4]
    BY <1>1
  <2>3. /\ Chain(h, "FACT") = {2} /\ Chain(h, registry) = {3} /\ Chain(h, "POLICY") = {4}
        /\ \A k \in Key \ {"RULE", "FACT", registry, "POLICY"} : Chain(h, k) = {}
    BY <1>2, <1>3 DEF Chain
  <2>4. \A k \in Key : heads[k] \in Chain(h, k) \/ (heads[k] = 0 /\ Chain(h, k) = {})
    BY <1>5, <2>1, <2>3
  <2>5. \A i \in DOMAIN h : heads[h[i].key] = i /\ Chain(h, h[i].key) = {i} /\ h[i].prior = 0 /\ 0 < i
    BY <1>3, <1>5, <2>1, <2>3
  <2>6. \A i \in DOMAIN h :
          /\ i <= heads[h[i].key]
          /\ h[i].prior \in Chain(h, h[i].key) \cup {0}
          /\ h[i].prior < i
          /\ \A j \in Chain(h, h[i].key) : j < i => j <= h[i].prior
    BY <1>3, <2>5
  <2>7. QED
    BY <1>3, <2>2, <2>4, <2>6 DEF ChainsOK
<1>9. clock \in Nat /\ job \in [Publisher -> Job] /\ intake.at = 0
  BY DEF Init, Job
<1>10. QED
  BY <1>7, <1>8, <1>9 DEF Inv, IntakeOK, h

(* A record of the history is never later than the next one to be admitted.*)
LEMMA NextIsLater ==
  ASSUME Inv
  PROVE  /\ NextAdmission \in Nat /\ IntakeCutoff \in Nat /\ LastAdmission <= IntakeCutoff
         /\ \A i \in DOMAIN history : history[i].admission < NextAdmission
<1>1. clock \in Nat /\ LastAdmission \in Nat
  BY Latest DEF Inv
<1>2. /\ NextAdmission \in Nat /\ LastAdmission < NextAdmission
      /\ IntakeCutoff \in Nat /\ LastAdmission <= IntakeCutoff
  BY <1>1 DEF NextAdmission, IntakeCutoff
<1>3. \A i \in DOMAIN history : history[i].admission \in Nat /\ history[i].admission <= LastAdmission
  BY Latest, RecordType DEF Inv, HistoryOK
<1>4. QED
  BY <1>1, <1>2, <1>3

LEMMA ClaimsType ==
  ASSUME Inv, NEW p \in Publisher, job[p].step \in {"candidate", "issued"}
  PROVE  job[p].claims \in Claims
BY DEF Inv, Job, Idle

LEMMA PublishStep ==
  ASSUME Inv, NEW p \in Publisher, Publish(p)
  PROVE  Inv'
<1> DEFINE c == job[p].claims
           r == [key |-> c.key, prior |-> c.prior, rule |-> c.rule, known |-> c.known,
                 registry |-> c.registry, restrict |-> c.restrict, verified |-> c.verified,
                 admission |-> NextAdmission]
<1>1. /\ HeadUnchanged(c) /\ StrictKnownRule(c) /\ InWindow(c)
      /\ history' = Append(history, r)
      /\ heads' = [heads EXCEPT ![c.key] = Len(history) + 1]
      /\ job' = [job EXCEPT ![p] = Idle]
      /\ UNCHANGED <<clock, intake>>
  BY DEF Publish
<1>2. c \in Claims
  BY ClaimsType DEF Publish
<1>3. /\ r \in Record /\ r.key = c.key /\ r.prior = c.prior /\ r.rule = c.rule
      /\ r.known = c.known /\ r.admission = NextAdmission
  BY <1>2, NextIsLater DEF Claims, Record
<1> HIDE DEF c, r
<1>4. r.prior = heads[r.key] /\ r.rule = heads["RULE"] /\ r.known <= r.admission
  BY <1>1, <1>3 DEF HeadUnchanged, StrictKnownRule, InWindow
<1>5. HeadIn(history, "RULE", r.known) = r.rule
  BY <1>1, <1>3, HeadIsHeadIn DEF StrictKnownRule
<1>6. \A i \in DOMAIN history : history[i].admission < r.admission
  BY <1>3, NextIsLater
<1>7. HistoryOK(history')
  BY <1>1, <1>3, <1>4, <1>5, <1>6, HistoryGrows DEF Inv
<1>8. ChainsOK(history', heads')
  BY <1>1, <1>3, <1>4, ChainsGrow DEF Inv, HistoryOK
<1>9. IntakeOK(history', intake')
  BY <1>1, <1>3, <1>6, IntakeStands DEF Inv
<1>10. clock' \in Nat /\ job' \in [Publisher -> Job]
  BY <1>1 DEF Inv, Job
<1>11. QED
  BY <1>7, <1>8, <1>9, <1>10 DEF Inv

(* Under the write lock the cutoff covers the whole history. *)
LEMMA IngestStep ==
  ASSUME Inv, Ingest
  PROVE  Inv'
<1> DEFINE t == IntakeCutoff
           fact == CanonicalHead("FACT", t)
           policy == CanonicalHead("POLICY", t)
           registry == CanonicalHead(history[history[policy].registry].key, t)
           rule == CanonicalHead("RULE", t)
           a == [fact |-> fact, policy |-> policy, registry |-> registry, rule |-> rule]
<1>1. /\ intake' = [authority |-> Authority(t), at |-> Len(history), cutoff |-> t, last |-> LastAdmission]
      /\ Authority(t) # None
      /\ UNCHANGED <<clock, history, heads, job>>
  BY DEF Ingest
<1> HIDE DEF t
<1>2. Authority(t) = a /\ 0 \notin {fact, policy, registry, rule}
  BY <1>1 DEF Authority
<1>3. t \in Nat /\ LastAdmission <= t
  BY NextIsLater DEF t
<1>4. ASSUME NEW k, CanonicalHead(k, t) # 0
      PROVE  /\ CanonicalHead(k, t) \in DOMAIN history
             /\ \A i \in DOMAIN history :
                  history[i].key = history[CanonicalHead(k, t)].key => i <= CanonicalHead(k, t)
  BY <1>3, <1>4, NewestIsResolved DEF Chain
<1>5. HeadIn(history, "FACT", t) = fact
  BY CanonicalIsKnown
<1>6. ASSUME NEW i \in {fact, policy, registry, rule}
      PROVE  /\ i \in DOMAIN history
             /\ \A j \in DOMAIN history : history[j].key = history[i].key => j <= i
  BY <1>2, <1>4
<1> HIDE DEF fact, policy, registry, rule
<1>7. DOMAIN None = {"fact", "policy", "registry", "rule"} /\ a.fact = fact
      /\ \A part \in DOMAIN None : a[part] \in {fact, policy, registry, rule}
  BY DEF None
<1>8. /\ history \in Seq(Record) /\ Len(history) \in DOMAIN history
      /\ DOMAIN history = 1 .. Len(history)
  BY DEF Inv, HistoryOK
<1> HIDE DEF a
<1>9. intake'.authority = a /\ intake'.at = Len(history) /\ intake'.cutoff = t /\ intake'.last = LastAdmission
  BY <1>1, <1>2
<1>10. IntakeOK(history, intake')
  BY <1>5, <1>6, <1>7, <1>8, <1>9, Latest DEF IntakeOK
<1>11. QED
  BY <1>1, <1>10 DEF Inv

(* Neither the clock nor a publisher that only decides changes anything    *)
(* that was committed.                                                     *)
LEMMA OtherStep ==
  ASSUME Inv,
         \/ \E p \in Publisher : Begin(p) \/ Issue(p) \/ Abandon(p)
         \/ Tick \/ StepBack \/ UNCHANGED vars
  PROVE  Inv'
<1>1. UNCHANGED <<history, heads, intake>>
  BY DEF Begin, Issue, Abandon, Tick, StepBack, vars
<1>2. clock' \in Nat
  <2>1. clock \in Nat /\ MinTime \in Nat
    BY AuthorityAssumption DEF Inv
  <2>2. clock' \in {clock, clock + 1} \/ (MinTime < clock /\ clock' = clock - 1)
    BY <2>1 DEF Begin, Issue, Abandon, Tick, StepBack, vars
  <2>3. QED
    BY <2>1, <2>2
<1>3. job' \in [Publisher -> Job]
  <2>1. ASSUME NEW p \in Publisher, Begin(p)
        PROVE  job' \in [Publisher -> Job]
    <3>1. PICK k \in Key, registry \in 0 .. Len(history), restrict \in BOOLEAN, verified \in BOOLEAN :
            job' = [job EXCEPT ![p] =
              [step |-> "candidate",
               claims |-> [key |-> k, prior |-> heads[k], rule |-> 0, known |-> clock,
                           registry |-> registry, restrict |-> restrict, verified |-> verified]]]
      BY <2>1 DEF Begin
    <3>2. heads[k] \in Nat /\ registry \in Nat /\ clock \in Nat
      BY DEF Inv, ChainsOK, HistoryOK
    <3>3. [key |-> k, prior |-> heads[k], rule |-> 0, known |-> clock,
           registry |-> registry, restrict |-> restrict, verified |-> verified] \in Claims
      BY <3>2 DEF Claims
    <3>4. QED
      BY <3>1, <3>3 DEF Inv, Job
  <2>2. ASSUME NEW p \in Publisher, Issue(p)
        PROVE  job' \in [Publisher -> Job]
    <3> DEFINE c == [job[p].claims EXCEPT !.rule = heads["RULE"]]
    <3>1. job' = [job EXCEPT ![p] = [step |-> "issued", claims |-> c]]
      BY <2>2 DEF Issue
    <3>2. job[p].claims \in Claims
      BY <2>2, ClaimsType DEF Issue
    <3>3. heads["RULE"] \in Nat
      BY DEF Inv, ChainsOK, HistoryOK, Key
    <3>4. c \in Claims
      BY <3>2, <3>3 DEF Claims
    <3> HIDE DEF c
    <3>5. QED
      BY <3>1, <3>4 DEF Inv, Job
  <2>3. ASSUME NEW p \in Publisher, Abandon(p)
        PROVE  job' \in [Publisher -> Job]
    BY <2>3 DEF Abandon, Inv, Job
  <2>4. CASE Tick \/ StepBack \/ UNCHANGED vars
    BY <2>4 DEF Tick, StepBack, vars, Inv
  <2>5. QED
    BY <2>1, <2>2, <2>3, <2>4
<1>4. QED
  BY <1>1, <1>2, <1>3 DEF Inv

LEMMA NextPreserves ==
  ASSUME Inv, [Next]_vars
  PROVE  Inv'
BY PublishStep, IngestStep, OtherStep DEF Next

----------------------------------------------------------------------------
(* Theorems.                                                               *)

(* Every reachable state is one of the inductive invariant. *)
THEOREM InvHolds == Spec => []Inv
<1>1. Inv /\ [Next]_vars => Inv'
  BY NextPreserves
<1>2. QED
  BY <1>1, InitHolds, PTL DEF Spec

(* The tables hold well-formed records, none of them known before it was   *)
(* admitted, whatever the clock does (_next_admission).                    *)
THEOREM TypeCorrect == Spec => []TypeOK
<1>1. Inv => TypeOK
  BY DEF Inv, HistoryOK, ChainsOK, TypeOK
<1>2. QED
  BY <1>1, InvHolds, PTL

(* However publishers interleave, what they commit is a linear chain per   *)
(* family, headed by its last record: _verify_authenticated_history never  *)
(* raises TAMPER_DETECTED.                                                 *)
THEOREM TamperCorrect == Spec => []NeverTampered
<1>1. Inv => NeverTampered
  <2> SUFFICES ASSUME Inv, NEW k \in Key
               PROVE  LET chain == {i \in DOMAIN history : history[i].key = k} IN
                      /\ heads[k] \in chain \/ (heads[k] = 0 /\ chain = {})
                      /\ \A i \in chain :
                           /\ i <= heads[k]
                           /\ history[i].prior \in chain \cup {0}
                           /\ history[i].prior < i
                           /\ \A j \in chain : j < i => j <= history[i].prior
    BY DEF NeverTampered
  <2>1. Chain(history, k) = {i \in DOMAIN history : history[i].key = k}
    BY DEF Chain
  <2>2. ASSUME NEW i \in Chain(history, k)
        PROVE  /\ i <= heads[k]
               /\ history[i].prior \in Chain(history, k) \cup {0}
               /\ history[i].prior < i
               /\ \A j \in Chain(history, k) : j < i => j <= history[i].prior
    <3>1. i \in DOMAIN history /\ history[i].key = k
      BY DEF Chain
    <3>2. QED
      BY <3>1 DEF Inv, ChainsOK
  <2>3. heads[k] \in Chain(history, k) \/ (heads[k] = 0 /\ Chain(history, k) = {})
    BY DEF Inv, ChainsOK
  <2>4. QED
    BY <2>1, <2>2, <2>3
<1>2. QED
  BY <1>1, InvHolds, PTL

(* What was decided before the rule changed is not published after it      *)
(* (_strict_known_rule).                                                   *)
THEOREM RuleCorrect == Spec => []RuleWasHead
<1>1. Inv => RuleWasHead
  <2> SUFFICES ASSUME Inv, NEW i \in DOMAIN history, NEW j \in 1 .. i - 1, history[j].key = "RULE"
               PROVE  j <= history[i].rule
    BY DEF RuleWasHead
  <2>1. j \in DOMAIN history /\ j < i
    BY DEF Inv, HistoryOK
  <2>2. QED
    BY <2>1 DEF Inv, HistoryOK
<1>2. QED
  BY <1>1, InvHolds, PTL

(* A published record verifies for ever: no later record and no clock      *)
(* takes its rule away from it (verify_canonical_record).                  *)
THEOREM VerifiableCorrect == Spec => []StaysVerifiable
<1>1. Inv => StaysVerifiable
  <2> SUFFICES ASSUME Inv, NEW i \in DOMAIN history
               PROVE  Verifies(i, history[i].admission)
    BY DEF StaysVerifiable
  <2>1. history[i].admission \in Nat /\ history[i].known <= history[i].admission
    BY RecordType DEF Inv, HistoryOK
  <2>2. StrictKnown(i, history[i].admission)
    BY <2>1 DEF StrictKnown
  <2>3. QED
    BY <2>2, RecordsVerify
<1>2. QED
  BY <1>1, InvHolds, PTL

(* An intake is persisted under the newest record of every family, however *)
(* far the clock lags (resolve_pre_model_source_handling under the intake's*)
(* write lock).                                                            *)
THEOREM IntakeCorrect == Spec => []IntakeUnderCurrentAuthority
<1>1. Inv => IntakeUnderCurrentAuthority
  BY DEF Inv, IntakeOK, IntakeUnderCurrentAuthority
<1>2. QED
  BY <1>1, InvHolds, PTL

(* A cutoff no later than the newest admission resolves for ever to what it*)
(* resolved to first (strict_known_head).                                  *)
THEOREM CutoffCorrect == Spec => []SettledCutoffIsStable
<1>1. Inv => SettledCutoffIsStable
  BY CanonicalIsKnown DEF Inv, IntakeOK, SettledCutoffIsStable
<1>2. QED
  BY <1>1, InvHolds, PTL

=============================================================================
