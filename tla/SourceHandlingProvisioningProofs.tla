------------------- MODULE SourceHandlingProvisioningProofs -------------------
(***************************************************************************)
(* Proofs about the authorize job, for any documents and any number of     *)
(* labels, remediations and faults.  What is so of one document and of one *)
(* prepared job is constant level; the invariant ties the jobs, the one    *)
(* that runs and those whose push may land late, to the branches.          *)
(***************************************************************************)
EXTENDS SourceHandlingProvisioning, FiniteSetTheorems, TLAPS

Header == [stamp : Nat, revision : Nat]

Document ==
  [evidence : [Evidence -> Header], admitted : Nat, fact : Header, policy : Header,
   bound : AuthOrNone, registries : SUBSET [name : AuthOrNone, stamp : Nat],
   issued : SUBSET PublicationIds, consumed : SUBSET PublicationIds]

JobState ==
  [phase : {"commit"}, auth : Authorization, batch : SUBSET Transaction, name : AuthOrNone,
   stamp : Nat, at : Nat, admitted : Nat, basis : Document, position : Nat, version : Nat]

(* Nothing is known later than n. *)
Past(s, n) ==
  /\ \A i \in Evidence : s.evidence[i].stamp <= n
  /\ s.admitted <= n /\ s.fact.stamp <= n /\ s.policy.stamp <= n
  /\ \A r \in s.registries : r.stamp <= n

(* Provenance is recorded in one order, so that what a document has of it  *)
(* is the beginning of that.                                               *)
InOrder(s) ==
  \A i, k \in Evidence : Place(i) < Place(k) /\ k \in Present(s) => i \in Present(s)

(* A registry was published with an authorization that was issued. *)
Accounted(s) ==
  /\ s.consumed \subseteq s.issued
  /\ \A r \in s.registries : [family |-> "REGISTRY", name |-> r.name] \in s.consumed

DocumentOK(s) == s \in Document /\ InOrder(s) /\ Recoverable(s) /\ Accounted(s)

(* Of the provenance of a batch b at an instant, what is left to record is *)
(* missing or carries one earlier instant, and while a head of that one is *)
(* left, those already recorded are successors.                            *)
EvidenceOK(s, b, stamp) ==
  /\ \A i \in Evidence \ b : i \in Present(s) /\ s.evidence[i].stamp = stamp
  /\ \A i \in b \cap Present(s) : s.evidence[i].stamp < stamp
  /\ \A i, k \in b \cap Present(s) : s.evidence[i].stamp = s.evidence[k].stamp
  /\ b \cap Present(s) # {} => \A i \in Present(s) \ b : s.evidence[i].revision > 1

(* Of its publications, what is left has not been made, and what is not    *)
(* left heads its family.                                                  *)
PublicationOK(s, b, name, at) ==
  /\ \A f \in Family :
       /\ <<"issue", f>> \in b => [family |-> f, name |-> name] \notin s.issued
       /\ <<"publish", f>> \in b =>
            /\ [family |-> f, name |-> name] \notin s.consumed
            /\ <<"issue", f>> \in b \/ [family |-> f, name |-> name] \in s.issued
  /\ <<"publish", "FACT">> \notin b => s.fact.revision # 0 /\ s.fact.stamp = at
  /\ <<"publish", "REGISTRY">> \notin b => [name |-> name, stamp |-> at] \in s.registries
  /\ <<"publish", "POLICY">> \notin b =>
       s.policy.revision # 0 /\ s.policy.stamp = at /\ s.bound = name

JobOK(j) ==
  /\ j \in JobState
  /\ j.auth.issued <= j.stamp
  /\ j.basis.admitted <= j.at
  /\ j.batch \cap Evidence # {} => j.admitted <= j.at
  /\ InOrder(j.basis) /\ Accounted(j.basis)
  /\ EvidenceOK(j.basis, j.batch, j.stamp)
  /\ PublicationOK(j.basis, j.batch, j.name, j.at)

JobPast(j, n) ==
  j.stamp <= n /\ j.at <= n /\ j.admitted <= n /\ Past(j.basis, n)

----------------------------------------------------------------------------
(* The order of a batch.                                                   *)

LEMMA PlaceType ==
  ASSUME NEW x \in Transaction
  PROVE  Place(x) \in Nat
BY DEF Place, Transaction, Family

LEMMA PlaceIsUnique ==
  ASSUME NEW x \in Transaction, NEW y \in Transaction, Place(x) = Place(y)
  PROVE  x = y
BY DEF Place, Transaction, Family

LEMMA IssuePrecedes ==
  ASSUME NEW f \in Family
  PROVE  Place(<<"issue", f>>) < Place(<<"publish", f>>)
BY DEF Place, Family

LEMMA FirstProperties ==
  ASSUME NEW b \in SUBSET Transaction, NEW x \in First(b)
  PROVE  /\ x \in b /\ x \in Transaction
         /\ \A y \in Transaction : Place(y) < Place(x) => y \notin b
         /\ \A y \in Transaction : y # x => Place(y) < Place(x) \/ Place(x) < Place(y)
<1>1. x \in b /\ x \in Transaction /\ \A y \in b : Place(x) <= Place(y)
  BY DEF First
<1>2. \A y \in Transaction : Place(y) \in Nat /\ (y # x => Place(y) # Place(x))
  BY <1>1, PlaceType, PlaceIsUnique
<1>3. QED
  BY <1>1, <1>2

LEMMA EvidenceIsTransaction == Evidence \subseteq Transaction
BY DEF Evidence, Transaction

----------------------------------------------------------------------------
(* Sets of instants.                                                       *)

LEMMA AtMostTwo ==
  ASSUME NEW S, IsFiniteSet(S)
  PROVE  /\ Cardinality(S) > 1 <=> \E t, u \in S : t # u
         /\ Cardinality(S) <= 2 <=> \A t, u, v \in S : t = u \/ u = v \/ t = v
<1>1. Cardinality(S) \in Nat
  BY FS_CardinalityType
<1>2. ASSUME NEW t \in S, NEW u \in S, t # u
      PROVE  Cardinality(S) >= 2
  <2>1. Cardinality({t}) = 1 /\ IsFiniteSet({t})
    BY FS_Singleton
  <2>2. Cardinality({t} \cup {u}) = 2
    BY <1>2, <2>1, FS_AddElement
  <2>3. QED
    BY <1>1, <2>2, FS_Subset
<1>3. ASSUME NEW t \in S, NEW u \in S, NEW v \in S, t # u, u # v, t # v
      PROVE  Cardinality(S) >= 3
  <2>1. Cardinality({t}) = 1 /\ IsFiniteSet({t})
    BY FS_Singleton
  <2>2. Cardinality({t} \cup {u}) = 2 /\ IsFiniteSet({t} \cup {u})
    <3>1. u \notin {t}
      BY <1>3
    <3>2. QED
      BY <2>1, <3>1, FS_AddElement
  <2>3. Cardinality(({t} \cup {u}) \cup {v}) = 3
    BY <1>3, <2>2, FS_AddElement
  <2>4. QED
    BY <1>1, <2>3, FS_Subset
<1>4. ASSUME \A t, u \in S : t = u
      PROVE  Cardinality(S) <= 1
  <2>1. CASE S = {}
    BY <2>1, FS_EmptySet
  <2>2. CASE S # {}
    <3>1. PICK t : S = {t}
      BY <1>4, <2>2
    <3>2. QED
      BY <3>1, FS_Singleton
  <2>3. QED
    BY <2>1, <2>2
<1>5. ASSUME \A t, u, v \in S : t = u \/ u = v \/ t = v
      PROVE  Cardinality(S) <= 2
  <2>1. CASE \A t, u \in S : t = u
    BY <1>1, <1>4, <2>1
  <2>2. CASE \E t, u \in S : t # u
    <3>1. PICK t \in S, u \in S : t # u
      BY <2>2
    <3>2. S = {t} \cup {u}
      BY <1>5, <3>1
    <3>3. Cardinality({t}) = 1 /\ IsFiniteSet({t})
      BY FS_Singleton
    <3>4. QED
      BY <3>1, <3>2, <3>3, FS_AddElement
  <2>3. QED
    BY <2>1, <2>2
<1>6. QED
  BY <1>1, <1>2, <1>3, <1>4, <1>5

LEMMA SixAreFinite ==
  ASSUME NEW a, NEW b, NEW c, NEW d, NEW e, NEW f
  PROVE  IsFiniteSet({a, b, c, d, e, f})
<1>1. IsFiniteSet({a})
  BY FS_Singleton
<1>2. IsFiniteSet({a} \cup {b})
  BY <1>1, FS_AddElement
<1>3. IsFiniteSet({a, b} \cup {c})
  <2>1. {a} \cup {b} = {a, b}
    OBVIOUS
  <2>2. QED
    BY <1>2, <2>1, FS_AddElement
<1>4. IsFiniteSet(({a, b} \cup {c}) \cup {d})
  BY <1>3, FS_AddElement
<1>5. IsFiniteSet((({a, b} \cup {c}) \cup {d}) \cup {e})
  BY <1>4, FS_AddElement
<1>6. IsFiniteSet(((({a, b} \cup {c}) \cup {d}) \cup {e}) \cup {f})
  BY <1>5, FS_AddElement
<1>7. ((({a, b} \cup {c}) \cup {d}) \cup {e}) \cup {f} = {a, b, c, d, e, f}
  OBVIOUS
<1>8. QED
  BY <1>6, <1>7

LEMMA KnownIsFinite ==
  ASSUME NEW s
  PROVE  IsFiniteSet(Known(s))
<1> DEFINE T == {s.evidence[<<"evidence", "FACT">>].stamp, s.evidence[<<"evidence", "REGISTRY">>].stamp,
                 s.evidence[<<"evidence", "POLICY">>].stamp, s.evidence[<<"verifier", "FACT">>].stamp,
                 s.evidence[<<"verifier", "REGISTRY">>].stamp, s.evidence[<<"verifier", "POLICY">>].stamp}
<1>1. Known(s) \subseteq T
  BY DEF Known, Present, Evidence, Family
<1>2. IsFiniteSet(T)
  BY SixAreFinite
<1>3. QED
  BY <1>1, <1>2, FS_Subset

(* What Mixed and Recoverable say of the instants. *)
LEMMA InstantsOf ==
  ASSUME NEW s
  PROVE  /\ Mixed(s) <=> \E i, k \in Present(s) : s.evidence[i].stamp # s.evidence[k].stamp
         /\ Cardinality(Known(s)) <= 2 <=>
              \A h, i, k \in Present(s) :
                \/ s.evidence[h].stamp = s.evidence[i].stamp
                \/ s.evidence[i].stamp = s.evidence[k].stamp
                \/ s.evidence[h].stamp = s.evidence[k].stamp
<1>1. Mixed(s) <=> \E t, u \in Known(s) : t # u
  BY KnownIsFinite, AtMostTwo DEF Mixed
<1>2. Cardinality(Known(s)) <= 2 <=> \A t, u, v \in Known(s) : t = u \/ u = v \/ t = v
  BY KnownIsFinite, AtMostTwo
<1>3. (\E t, u \in Known(s) : t # u)
        <=> \E i, k \in Present(s) : s.evidence[i].stamp # s.evidence[k].stamp
  BY Zenon DEF Known
<1>4. (\A t, u, v \in Known(s) : t = u \/ u = v \/ t = v)
        <=> \A h, i, k \in Present(s) :
              \/ s.evidence[h].stamp = s.evidence[i].stamp
              \/ s.evidence[i].stamp = s.evidence[k].stamp
              \/ s.evidence[h].stamp = s.evidence[k].stamp
  <2>1. \A i \in Present(s) : s.evidence[i].stamp \in Known(s)
    BY DEF Known
  <2>2. \A t \in Known(s) : \E i \in Present(s) : s.evidence[i].stamp = t
    BY DEF Known
  <2>3. ASSUME \A t, u, v \in Known(s) : t = u \/ u = v \/ t = v,
               NEW h \in Present(s), NEW i \in Present(s), NEW k \in Present(s)
        PROVE  \/ s.evidence[h].stamp = s.evidence[i].stamp
               \/ s.evidence[i].stamp = s.evidence[k].stamp
               \/ s.evidence[h].stamp = s.evidence[k].stamp
    <3>1. {s.evidence[h].stamp, s.evidence[i].stamp, s.evidence[k].stamp} \subseteq Known(s)
      BY <2>1
    <3>2. QED
      BY <2>3, <3>1
  <2>4. ASSUME \A h, i, k \in Present(s) :
                 \/ s.evidence[h].stamp = s.evidence[i].stamp
                 \/ s.evidence[i].stamp = s.evidence[k].stamp
                 \/ s.evidence[h].stamp = s.evidence[k].stamp,
               NEW t \in Known(s), NEW u \in Known(s), NEW v \in Known(s)
        PROVE  t = u \/ u = v \/ t = v
    BY <2>2, <2>4
  <2>5. QED
    BY <2>3, <2>4, Zenon
<1>5. QED
  BY <1>1, <1>2, <1>3, <1>4, Zenon

(* Of at most two instants one is the latest. *)
LEMMA ExistingIsLatest ==
  ASSUME NEW s \in Document, Present(s) # {}, Cardinality(Known(s)) <= 2
  PROVE  /\ Existing(s) \in Nat /\ Existing(s) \in Known(s)
         /\ \A i \in Present(s) : s.evidence[i].stamp <= Existing(s)
         /\ \E i \in Present(s) : s.evidence[i].stamp = Existing(s)
<1>1. \A i \in Evidence : s.evidence[i].stamp \in Nat
  BY DEF Document, Header
<1>2. Known(s) \subseteq Nat /\ Known(s) # {}
  BY <1>1 DEF Known, Present
<1>3. \A t, u, v \in Known(s) : t = u \/ u = v \/ t = v
  BY KnownIsFinite, AtMostTwo
<1>4. \E t \in Known(s) : \A u \in Known(s) : u <= t
  <2>1. PICK t \in Known(s) : TRUE
    BY <1>2
  <2>2. CASE \A u \in Known(s) : u <= t
    BY <2>1, <2>2
  <2>3. CASE \E u \in Known(s) : t < u
    <3>1. PICK u \in Known(s) : t < u
      BY <2>3
    <3>2. \A v \in Known(s) : v = t \/ v = u
      BY <1>2, <1>3, <2>1, <3>1
    <3>3. QED
      BY <1>2, <2>1, <3>1, <3>2
  <2>4. QED
    BY <1>2, <2>1, <2>2, <2>3
<1>5. Existing(s) \in Known(s) /\ \A u \in Known(s) : u <= Existing(s)
  BY <1>4 DEF Existing
<1>6. QED
  BY <1>2, <1>5 DEF Known

(* A document in the middle of a batch is one that the next can recover. *)
LEMMA EvidenceRecoverable ==
  ASSUME NEW s \in Document, NEW b, NEW stamp \in Nat, EvidenceOK(s, b, stamp)
  PROVE  Recoverable(s)
<1> DEFINE old == b \cap Present(s)
           e(i) == s.evidence[i].stamp
<1>1. \A i \in Present(s) : i \in Evidence /\ e(i) \in Nat
  BY DEF Present, Document, Header
<1>2. /\ \A i \in Present(s) \ b : e(i) = stamp
      /\ \A i \in old : e(i) < stamp
      /\ \A i, k \in old : e(i) = e(k)
      /\ old # {} => \A i \in Present(s) \ b : s.evidence[i].revision > 1
  BY <1>1 DEF EvidenceOK
<1>3. \A h, i, k \in Present(s) : e(h) = e(i) \/ e(i) = e(k) \/ e(h) = e(k)
  BY <1>2
<1>4. Cardinality(Known(s)) <= 2
  BY <1>3, InstantsOf
<1>5. ASSUME Mixed(s), NEW i \in Present(s), e(i) = Existing(s)
      PROVE  s.evidence[i].revision > 1
  <2>1. PICK h \in Present(s), k \in Present(s) : e(h) # e(k)
    BY <1>5, InstantsOf
  <2>2. old # {} /\ \E g \in Present(s) : e(g) = stamp
    BY <1>2, <2>1
  <2>3. \A g \in Present(s) : e(g) <= e(i)
    BY <1>4, <1>5, ExistingIsLatest
  <2>4. i \notin b
    BY <1>1, <1>2, <2>2, <2>3
  <2>5. QED
    BY <1>2, <2>2, <2>4
<1>6. QED
  BY <1>4, <1>5 DEF Recoverable

----------------------------------------------------------------------------
(* A transaction of a batch.                                               *)

LEMMA AdvanceType ==
  ASSUME NEW head \in Header, NEW t \in Nat
  PROVE  /\ Advance(head, t) \in Header /\ Advance(head, t).stamp = t
         /\ Advance(head, t).revision = head.revision + 1 /\ Advance(head, t).revision # 0
BY DEF Advance, Header

LEMMA ApplyEvidence ==
  ASSUME NEW s \in Document, NEW x \in Evidence, NEW j, j.stamp \in Nat, j.admitted \in Nat
  PROVE  LET u == Apply(s, x, j) IN
         /\ u \in Document
         /\ u.evidence = [s.evidence EXCEPT ![x] = Advance(s.evidence[x], j.stamp)]
         /\ u.admitted = j.admitted
         /\ u.fact = s.fact /\ u.policy = s.policy /\ u.bound = s.bound
         /\ u.registries = s.registries /\ u.issued = s.issued /\ u.consumed = s.consumed
<1>1. Apply(s, x, j) =
        [s EXCEPT !.evidence = [s.evidence EXCEPT ![x] = Advance(s.evidence[x], j.stamp)],
                  !.admitted = j.admitted]
  BY DEF Apply, Evidence
<1>2. Advance(s.evidence[x], j.stamp) \in Header
  BY AdvanceType DEF Document
<1>3. [s.evidence EXCEPT ![x] = Advance(s.evidence[x], j.stamp)] \in [Evidence -> Header]
  BY <1>2 DEF Document
<1>4. QED
  BY <1>1, <1>3 DEF Document

LEMMA ApplyIssue ==
  ASSUME NEW s \in Document, NEW f \in Family, NEW j, j.name \in AuthOrNone
  PROVE  LET u == Apply(s, <<"issue", f>>, j) IN
         /\ u \in Document
         /\ u.issued = s.issued \cup {[family |-> f, name |-> j.name]}
         /\ u.evidence = s.evidence /\ u.admitted = s.admitted
         /\ u.fact = s.fact /\ u.policy = s.policy /\ u.bound = s.bound
         /\ u.registries = s.registries /\ u.consumed = s.consumed
<1>1. Apply(s, <<"issue", f>>, j) = [s EXCEPT !.issued = @ \cup {[family |-> f, name |-> j.name]}]
  BY DEF Apply, Evidence
<1>2. [family |-> f, name |-> j.name] \in PublicationIds
  BY DEF PublicationIds
<1>3. QED
  BY <1>1, <1>2 DEF Document

(* What the publication of a family's head makes of s. *)
Published(s, f, j, u) ==
  /\ u \in Document
  /\ u.consumed = s.consumed \cup {[family |-> f, name |-> j.name]}
  /\ u.evidence = s.evidence /\ u.admitted = s.admitted /\ u.issued = s.issued
  /\ f = "FACT" => u.fact = Advance(s.fact, j.at)
  /\ f # "FACT" => u.fact = s.fact
  /\ f = "REGISTRY" => u.registries = s.registries \cup {[name |-> j.name, stamp |-> j.at]}
  /\ f # "REGISTRY" => u.registries = s.registries
  /\ f = "POLICY" => u.policy = Advance(s.policy, j.at) /\ u.bound = j.name
  /\ f # "POLICY" => u.policy = s.policy /\ u.bound = s.bound

LEMMA ApplyPublish ==
  ASSUME NEW s \in Document, NEW f \in Family, NEW j, j.name \in AuthOrNone, j.at \in Nat
  PROVE  Published(s, f, j, Apply(s, <<"publish", f>>, j))
<1> DEFINE id == [family |-> f, name |-> j.name]
<1>1. id \in PublicationIds /\ [name |-> j.name, stamp |-> j.at] \in [name : AuthOrNone, stamp : Nat]
  BY DEF PublicationIds
<1>2. Advance(s.fact, j.at) \in Header /\ Advance(s.policy, j.at) \in Header
  BY AdvanceType DEF Document
<1>3. /\ s.consumed \cup {id} \in SUBSET PublicationIds
      /\ s.registries \cup {[name |-> j.name, stamp |-> j.at]} \in SUBSET [name : AuthOrNone, stamp : Nat]
  BY <1>1 DEF Document
<1> HIDE DEF id
<1>4. CASE f = "FACT"
  <2> DEFINE u == [s EXCEPT !.fact = Advance(s.fact, j.at), !.consumed = s.consumed \cup {id}]
  <2>1. Apply(s, <<"publish", f>>, j) = u
    BY <1>4 DEF Apply, Evidence, id
  <2>2. u \in Document
    BY <1>1, <1>2, <1>3 DEF Document
  <2>3. /\ u.consumed = s.consumed \cup {id} /\ u.evidence = s.evidence
        /\ u.admitted = s.admitted /\ u.issued = s.issued
        /\ u.fact = Advance(s.fact, j.at) /\ u.registries = s.registries
        /\ u.policy = s.policy /\ u.bound = s.bound
    BY DEF Document
  <2> HIDE DEF u
  <2>4. QED
    BY <1>4, <2>1, <2>2, <2>3 DEF id, Published
<1>5. CASE f = "REGISTRY"
  <2> DEFINE u == [s EXCEPT !.registries = s.registries \cup {[name |-> j.name, stamp |-> j.at]}, !.consumed = s.consumed \cup {id}]
  <2>1. Apply(s, <<"publish", f>>, j) = u
    BY <1>5 DEF Apply, Evidence, id
  <2>2. u \in Document
    BY <1>1, <1>2, <1>3 DEF Document
  <2>3. /\ u.consumed = s.consumed \cup {id} /\ u.evidence = s.evidence
        /\ u.admitted = s.admitted /\ u.issued = s.issued
        /\ u.fact = s.fact /\ u.registries = s.registries \cup {[name |-> j.name, stamp |-> j.at]}
        /\ u.policy = s.policy /\ u.bound = s.bound
    BY DEF Document
  <2> HIDE DEF u
  <2>4. QED
    BY <1>5, <2>1, <2>2, <2>3 DEF id, Published
<1>6. CASE f = "POLICY"
  <2> DEFINE u == [s EXCEPT !.policy = Advance(s.policy, j.at), !.bound = j.name, !.consumed = s.consumed \cup {id}]
  <2>1. Apply(s, <<"publish", f>>, j) = u
    BY <1>6 DEF Apply, Evidence, id
  <2>2. u \in Document
    BY <1>1, <1>2, <1>3 DEF Document
  <2>3. /\ u.consumed = s.consumed \cup {id} /\ u.evidence = s.evidence
        /\ u.admitted = s.admitted /\ u.issued = s.issued
        /\ u.fact = s.fact /\ u.registries = s.registries
        /\ u.policy = Advance(s.policy, j.at) /\ u.bound = j.name
    BY DEF Document
  <2> HIDE DEF u
  <2>4. QED
    BY <1>6, <2>1, <2>2, <2>3 DEF id, Published
<1>7. QED
  BY <1>4, <1>5, <1>6 DEF Family

(* What a transaction of a batch b leaves of it. *)
Leaves(s, b, x, j) ==
  LET u == Apply(s, x, j)
  IN  /\ u \in Document /\ u.admitted <= j.at
      /\ InOrder(u) /\ Accounted(u)
      /\ EvidenceOK(u, b \ {x}, j.stamp)
      /\ PublicationOK(u, b \ {x}, j.name, j.at)

LEMMA JobType ==
  ASSUME NEW j, JobOK(j)
  PROVE  /\ j.phase = "commit" /\ j.auth \in Authorization /\ j.batch \in SUBSET Transaction
         /\ j.name \in AuthOrNone /\ j.stamp \in Nat /\ j.at \in Nat /\ j.admitted \in Nat
         /\ j.basis \in Document /\ j.position \in Nat /\ j.version \in Nat
BY DEF JobOK, JobState

LEMMA RecordStep ==
  ASSUME NEW j, JobOK(j), NEW x \in First(j.batch), x \in Evidence
  PROVE  Leaves(j.basis, j.batch, x, j) /\ Replays(j.basis, x, j)
<1> DEFINE s == j.basis
           b == j.batch
           u == Apply(s, x, j)
<1>1. /\ s \in Document /\ b \in SUBSET Transaction /\ x \in b
      /\ j.stamp \in Nat /\ j.admitted \in Nat /\ j.at \in Nat
      /\ \A i \in Evidence : s.evidence[i].stamp \in Nat /\ s.evidence[i].revision \in Nat
  BY JobType, FirstProperties DEF Document, Header
<1>2. /\ u \in Document /\ u.admitted = j.admitted
      /\ \A i \in Evidence \ {x} : u.evidence[i] = s.evidence[i]
      /\ u.evidence[x].stamp = j.stamp /\ u.evidence[x].revision = s.evidence[x].revision + 1
      /\ u.fact = s.fact /\ u.policy = s.policy /\ u.bound = s.bound
      /\ u.registries = s.registries /\ u.issued = s.issued /\ u.consumed = s.consumed
  <2>1. /\ u \in Document /\ u.admitted = j.admitted
        /\ u.evidence = [s.evidence EXCEPT ![x] = Advance(s.evidence[x], j.stamp)]
        /\ u.fact = s.fact /\ u.policy = s.policy /\ u.bound = s.bound
        /\ u.registries = s.registries /\ u.issued = s.issued /\ u.consumed = s.consumed
    BY <1>1, ApplyEvidence
  <2>2. s.evidence \in [Evidence -> Header] /\ s.evidence[x] \in Header
    BY <1>1 DEF Document
  <2> HIDE DEF u, s
  <2>3. /\ \A i \in Evidence \ {x} : u.evidence[i] = s.evidence[i]
        /\ u.evidence[x] = Advance(s.evidence[x], j.stamp)
    BY <2>1, <2>2
  <2>4. u.evidence[x].stamp = j.stamp /\ u.evidence[x].revision = s.evidence[x].revision + 1
    BY <2>3 DEF Advance
  <2>5. QED
    BY <2>1, <2>3, <2>4
<1>3. Replays(s, x, j)
  <2>1. x \in Present(s) => s.evidence[x].stamp < j.stamp
    BY <1>1 DEF JobOK, EvidenceOK
  <2>2. x[1] # "issue" /\ x[1] # "publish"
    BY DEF Evidence
  <2> HIDE DEF s
  <2>3. QED
    BY <2>1, <2>2 DEF Replays
<1>4. /\ InOrder(s) /\ Accounted(s) /\ EvidenceOK(s, b, j.stamp) /\ PublicationOK(s, b, j.name, j.at)
      /\ j.admitted <= j.at
  BY <1>1 DEF JobOK
<1>5. \A i \in Evidence : i # x => Place(x) < Place(i) \/ i \notin b
  BY FirstProperties, EvidenceIsTransaction, <1>1
<1> HIDE DEF s, b, u
<1>6. Present(u) = Present(s) \cup {x}
  BY <1>1, <1>2 DEF Present
<1>7. InOrder(u)
  <2> SUFFICES ASSUME NEW i \in Evidence, NEW k \in Evidence, Place(i) < Place(k), k \in Present(u)
               PROVE  i \in Present(u)
    BY DEF InOrder
  <2>1. CASE k \in Present(s)
    BY <1>4, <1>6, <2>1 DEF InOrder
  <2>2. CASE k = x
    <3>1. i \notin b
      BY <2>2, <1>1, FirstProperties, EvidenceIsTransaction DEF b
    <3>2. QED
      BY <1>4, <1>6, <3>1 DEF EvidenceOK
  <2>3. QED
    BY <1>6, <2>1, <2>2
<1>8. ASSUME NEW i \in (b \ {x}) \cap Present(u)
      PROVE  i \in b \cap Present(s) /\ u.evidence[i] = s.evidence[i] /\ x \in Present(s)
  <2>1. i \in Evidence /\ i # x /\ i \in b /\ i \in Present(s)
    BY <1>6 DEF Present
  <2>2. x \in Present(s)
    BY <1>4, <1>5, <2>1 DEF InOrder
  <2>3. QED
    BY <1>2, <2>1, <2>2
<1>9. EvidenceOK(u, b \ {x}, j.stamp)
  <2>1. \A i \in Evidence \ (b \ {x}) : i \in Present(u) /\ u.evidence[i].stamp = j.stamp
    BY <1>2, <1>4, <1>6 DEF EvidenceOK
  <2>2. /\ \A i \in (b \ {x}) \cap Present(u) : u.evidence[i].stamp < j.stamp
        /\ \A i, k \in (b \ {x}) \cap Present(u) : u.evidence[i].stamp = u.evidence[k].stamp
    BY <1>4, <1>8 DEF EvidenceOK
  <2>3. ASSUME (b \ {x}) \cap Present(u) # {}, NEW i \in Present(u) \ (b \ {x})
        PROVE  u.evidence[i].revision > 1
    <3>1. x \in Present(s) /\ x \in b
      BY <1>1, <1>8, <2>3
    <3>2. CASE i = x
      <4>1. s.evidence[x].revision \in Nat /\ s.evidence[x].revision # 0
        BY <1>1, <3>1 DEF Present
      <4>2. QED
        BY <1>2, <3>2, <4>1
    <3>3. CASE i # x
      <4>1. i \in Present(s) \ b /\ i \in Evidence
        BY <1>6, <2>3, <3>3 DEF Present
      <4>2. QED
        BY <1>2, <1>4, <3>1, <3>3, <4>1 DEF EvidenceOK
    <3>4. QED
      BY <3>2, <3>3
  <2>4. QED
    BY <2>1, <2>2, <2>3 DEF EvidenceOK
<1>10. PublicationOK(u, b \ {x}, j.name, j.at)
  <2>1. \A f \in Family : x # <<"issue", f>> /\ x # <<"publish", f>>
    BY DEF Evidence
  <2>2. x # <<"publish", "FACT">> /\ x # <<"publish", "REGISTRY">> /\ x # <<"publish", "POLICY">>
    BY <2>1 DEF Family
  <2>3. QED
    BY <1>2, <1>4, <2>1, <2>2 DEF PublicationOK
<1>11. Accounted(u)
  BY <1>2, <1>4 DEF Accounted
<1>12. QED
  BY <1>2, <1>3, <1>4, <1>7, <1>9, <1>10, <1>11 DEF Leaves, s, b, u

LEMMA IssueStep ==
  ASSUME NEW j, JobOK(j), NEW f \in Family, <<"issue", f>> \in First(j.batch)
  PROVE  Leaves(j.basis, j.batch, <<"issue", f>>, j) /\ Replays(j.basis, <<"issue", f>>, j)
<1> DEFINE s == j.basis
           b == j.batch
           x == <<"issue", f>>
           u == Apply(s, x, j)
           id == [family |-> f, name |-> j.name]
<1>1. s \in Document /\ b \in SUBSET Transaction /\ x \in b /\ j.name \in AuthOrNone
  BY JobType, FirstProperties
<1>2. /\ u \in Document /\ u.issued = s.issued \cup {id}
      /\ u.evidence = s.evidence /\ u.admitted = s.admitted
      /\ u.fact = s.fact /\ u.policy = s.policy /\ u.bound = s.bound
      /\ u.registries = s.registries /\ u.consumed = s.consumed
  BY <1>1, ApplyIssue
<1>3. /\ InOrder(s) /\ Accounted(s) /\ EvidenceOK(s, b, j.stamp) /\ PublicationOK(s, b, j.name, j.at)
      /\ s.admitted <= j.at
  BY DEF JobOK
<1>4. x \notin Evidence /\ \A g \in Family : x # <<"publish", g>> /\ (g # f => x # <<"issue", g>>)
  BY DEF Evidence
<1>5. Replays(s, x, j)
  BY <1>1, <1>3, <1>4 DEF Replays, PublicationOK
<1> HIDE DEF s, b, u
<1>6. Present(u) = Present(s)
  BY <1>2 DEF Present
<1>7. EvidenceOK(u, b \ {x}, j.stamp) /\ InOrder(u)
  BY <1>2, <1>3, <1>4, <1>6 DEF EvidenceOK, InOrder, Present
<1>8. Accounted(u)
  BY <1>2, <1>3 DEF Accounted
<1>9. PublicationOK(u, b \ {x}, j.name, j.at)
  <2>1. \A g \in Family : g # f => [family |-> g, name |-> j.name] # id
    OBVIOUS
  <2>2. {"FACT", "REGISTRY", "POLICY"} \subseteq Family
    BY DEF Family
  <2> HIDE DEF x, id
  <2>3. ASSUME NEW g \in Family
        PROVE  /\ <<"issue", g>> \in b \ {x} => [family |-> g, name |-> j.name] \notin u.issued
               /\ <<"publish", g>> \in b \ {x} =>
                    /\ [family |-> g, name |-> j.name] \notin u.consumed
                    /\ <<"issue", g>> \in b \ {x} \/ [family |-> g, name |-> j.name] \in u.issued
    <3>1. /\ <<"issue", g>> \in b => [family |-> g, name |-> j.name] \notin s.issued
          /\ <<"publish", g>> \in b =>
               /\ [family |-> g, name |-> j.name] \notin s.consumed
               /\ <<"issue", g>> \in b \/ [family |-> g, name |-> j.name] \in s.issued
      BY <1>3 DEF PublicationOK
    <3>2. CASE g = f
      BY <1>2, <3>1, <3>2 DEF x, id
    <3>3. CASE g # f
      BY <1>2, <1>4, <2>1, <3>1, <3>3
    <3>4. QED
      BY <3>2, <3>3
  <2>4. QED
    BY <1>2, <1>3, <1>4, <2>2, <2>3 DEF PublicationOK
<1>10. QED
  BY <1>2, <1>3, <1>5, <1>7, <1>8, <1>9 DEF Leaves, s, b, u

LEMMA PublicationStep ==
  ASSUME NEW j, JobOK(j), NEW f \in Family, <<"publish", f>> \in First(j.batch)
  PROVE  Leaves(j.basis, j.batch, <<"publish", f>>, j) /\ Replays(j.basis, <<"publish", f>>, j)
<1> DEFINE s == j.basis
           b == j.batch
           x == <<"publish", f>>
           u == Apply(s, x, j)
           id == [family |-> f, name |-> j.name]
<1>1. /\ s \in Document /\ b \in SUBSET Transaction /\ x \in b /\ <<"issue", f>> \notin b
      /\ j.name \in AuthOrNone /\ j.at \in Nat
  <2>1. <<"issue", f>> \in Transaction
    BY DEF Transaction
  <2>2. QED
    BY <2>1, JobType, FirstProperties, IssuePrecedes
<1>2. /\ u \in Document /\ u.consumed = s.consumed \cup {id}
      /\ u.evidence = s.evidence /\ u.admitted = s.admitted /\ u.issued = s.issued
      /\ f = "FACT" => u.fact = Advance(s.fact, j.at)
      /\ f # "FACT" => u.fact = s.fact
      /\ f = "REGISTRY" => u.registries = s.registries \cup {[name |-> j.name, stamp |-> j.at]}
      /\ f # "REGISTRY" => u.registries = s.registries
      /\ f = "POLICY" => u.policy = Advance(s.policy, j.at) /\ u.bound = j.name
      /\ f # "POLICY" => u.policy = s.policy /\ u.bound = s.bound
  <2>1. Published(s, f, j, u)
    BY <1>1, ApplyPublish
  <2> HIDE DEF s, u
  <2>2. QED
    BY <2>1 DEF Published
<1>3. /\ InOrder(s) /\ Accounted(s) /\ EvidenceOK(s, b, j.stamp) /\ PublicationOK(s, b, j.name, j.at)
      /\ s.admitted <= j.at
  BY DEF JobOK
<1>4. x \notin Evidence /\ \A g \in Family : x # <<"issue", g>> /\ (g # f => x # <<"publish", g>>)
  BY DEF Evidence
<1>5. id \in s.issued /\ id \notin s.consumed
  BY <1>1, <1>3 DEF PublicationOK
<1> HIDE DEF s, b, u
<1>6. Replays(s, x, j)
  <2>1. f = "REGISTRY" => \A r \in s.registries : r.name # j.name
    BY <1>3, <1>5 DEF Accounted
  <2>2. QED
    BY <1>4, <1>5, <2>1 DEF Replays
<1>7. Present(u) = Present(s)
  BY <1>2 DEF Present
<1>8. EvidenceOK(u, b \ {x}, j.stamp) /\ InOrder(u)
  BY <1>2, <1>3, <1>4, <1>7 DEF EvidenceOK, InOrder, Present
<1>9. Accounted(u)
  BY <1>2, <1>3, <1>5 DEF Accounted
<1>10. PublicationOK(u, b \ {x}, j.name, j.at)
  <2>1. \A g \in Family : g # f => [family |-> g, name |-> j.name] # id
    OBVIOUS
  <2>2. \A h \in Header : Advance(h, j.at).stamp = j.at /\ Advance(h, j.at).revision # 0
    BY <1>1, AdvanceType
  <2>3. s.fact \in Header /\ s.policy \in Header
    BY <1>1 DEF Document
  <2>4. {"FACT", "REGISTRY", "POLICY"} \subseteq Family
    BY DEF Family
  <2>5. ASSUME NEW g \in Family
        PROVE  /\ <<"issue", g>> \in b \ {x} => [family |-> g, name |-> j.name] \notin u.issued
               /\ <<"publish", g>> \in b \ {x} =>
                    /\ [family |-> g, name |-> j.name] \notin u.consumed
                    /\ <<"issue", g>> \in b \ {x} \/ [family |-> g, name |-> j.name] \in u.issued
    <3> HIDE DEF x, id
    <3>1. /\ <<"issue", g>> \in b => [family |-> g, name |-> j.name] \notin s.issued
          /\ <<"publish", g>> \in b =>
               /\ [family |-> g, name |-> j.name] \notin s.consumed
               /\ <<"issue", g>> \in b \/ [family |-> g, name |-> j.name] \in s.issued
      BY <1>3 DEF PublicationOK
    <3>2. CASE g = f
      BY <1>1, <1>2, <1>4, <3>1, <3>2 DEF x
    <3>3. CASE g # f
      BY <1>2, <1>4, <2>1, <3>1, <3>3
    <3>4. QED
      BY <3>2, <3>3
  <2>6. <<"publish", "FACT">> \notin b \ {x} => u.fact.revision # 0 /\ u.fact.stamp = j.at
    BY <1>2, <1>3, <1>4, <2>2, <2>3, <2>4 DEF PublicationOK
  <2>7. <<"publish", "REGISTRY">> \notin b \ {x} => [name |-> j.name, stamp |-> j.at] \in u.registries
    BY <1>2, <1>3, <1>4, <2>4 DEF PublicationOK
  <2>8. <<"publish", "POLICY">> \notin b \ {x} =>
          u.policy.revision # 0 /\ u.policy.stamp = j.at /\ u.bound = j.name
    BY <1>2, <1>3, <1>4, <2>2, <2>3, <2>4 DEF PublicationOK
  <2>9. QED
    BY <2>5, <2>6, <2>7, <2>8 DEF PublicationOK
<1>11. QED
  BY <1>2, <1>3, <1>6, <1>8, <1>9, <1>10 DEF Leaves, s, b, u

(* One transaction of a prepared job. *)
LEMMA TransactionStep ==
  ASSUME NEW j, JobOK(j), NEW x \in First(j.batch)
  PROVE  Leaves(j.basis, j.batch, x, j) /\ Replays(j.basis, x, j)
<1>1. x \in Transaction
  BY JobType, FirstProperties
<1>2. x \in Evidence \/ \E f \in Family : x = <<"issue", f>> \/ x = <<"publish", f>>
  BY <1>1 DEF Transaction, Evidence
<1>3. QED
  BY <1>2, RecordStep, IssueStep, PublicationStep

LEMMA JobAdvances ==
  ASSUME NEW j, JobOK(j), NEW x \in First(j.batch)
  PROVE  JobOK([j EXCEPT !.batch = @ \ {x}, !.position = @ + 1, !.basis = Apply(@, x, j)])
<1> DEFINE u == Apply(j.basis, x, j)
           k == [j EXCEPT !.batch = @ \ {x}, !.position = @ + 1, !.basis = Apply(@, x, j)]
<1>1. /\ u \in Document /\ u.admitted <= j.at /\ InOrder(u) /\ Accounted(u)
      /\ EvidenceOK(u, j.batch \ {x}, j.stamp) /\ PublicationOK(u, j.batch \ {x}, j.name, j.at)
  BY TransactionStep DEF Leaves
<1>2. j \in JobState /\ j.auth.issued <= j.stamp /\ (j.batch \cap Evidence # {} => j.admitted <= j.at)
  BY DEF JobOK
<1> HIDE DEF u
<1>3. k = [j EXCEPT !.batch = j.batch \ {x}, !.position = j.position + 1, !.basis = u]
  BY DEF u
<1> HIDE DEF k
<1>4. k \in JobState
  <2>1. j.batch \ {x} \in SUBSET Transaction /\ j.position + 1 \in Nat
    BY JobType
  <2>2. QED
    BY <1>1, <1>2, <1>3, <2>1 DEF JobState
<1>5. /\ k.auth = j.auth /\ k.stamp = j.stamp /\ k.at = j.at /\ k.admitted = j.admitted
      /\ k.name = j.name /\ k.batch = j.batch \ {x} /\ k.basis = u
  BY <1>2, <1>3 DEF JobState
<1>6. JobOK(k)
  BY <1>1, <1>2, <1>4, <1>5 DEF JobOK
<1>7. QED
  BY <1>6 DEF k

----------------------------------------------------------------------------
(* What prepare leaves to commit.                                          *)

LEMMA DocumentType ==
  ASSUME NEW s \in Document
  PROVE  /\ \A i \in Evidence : s.evidence[i].stamp \in Nat /\ s.evidence[i].revision \in Nat
         /\ s.admitted \in Nat /\ s.fact.stamp \in Nat /\ s.policy.stamp \in Nat
         /\ Present(s) \subseteq Evidence
BY DEF Document, Header, Present

(* The instant of the batch: that of the batch it resumes, or a new one. *)
LEMMA InstantOfBatch ==
  ASSUME NEW a, NEW s, DocumentOK(s), NEW n \in Nat, Past(s, n)
  PROVE  LET T == OnOrAfter(a, s, n + 1) IN
         /\ T \in Nat /\ T <= n + 1
         /\ \A i \in Present(s) : s.evidence[i].stamp <= T
         /\ \/ T = n + 1 /\ ~Mixed(s) /\ \A i \in Present(s) : s.evidence[i].stamp < T
            \/ T = Existing(s) /\ \E i \in Present(s) : s.evidence[i].stamp = T
<1> DEFINE T == OnOrAfter(a, s, n + 1)
<1>1. \A i \in Present(s) : s.evidence[i].stamp \in Nat /\ s.evidence[i].stamp <= n
  BY DocumentType DEF DocumentOK, Past
<1>2. Mixed(s) => Present(s) # {}
  BY InstantsOf
<1>3. CASE Mixed(s) \/ (Present(s) # {} /\ ~NewerRevision(a, s))
  <2>1. T = Existing(s) /\ Present(s) # {}
    BY <1>2, <1>3 DEF OnOrAfter
  <2> HIDE DEF T
  <2>2. /\ T \in Nat
        /\ \A i \in Present(s) : s.evidence[i].stamp <= T
        /\ \E i \in Present(s) : s.evidence[i].stamp = T
    BY <2>1, ExistingIsLatest DEF DocumentOK, Recoverable
  <2>3. QED
    BY <1>1, <2>1, <2>2 DEF T
<1>4. CASE ~(Mixed(s) \/ (Present(s) # {} /\ ~NewerRevision(a, s)))
  <2>1. T = n + 1 /\ ~Mixed(s)
    BY <1>4 DEF OnOrAfter
  <2> HIDE DEF T
  <2>2. QED
    BY <1>1, <2>1 DEF T
<1>5. QED
  BY <1>3, <1>4

LEMMA StaleProvenance ==
  ASSUME NEW a, NEW s, DocumentOK(s), NEW n \in Nat, Past(s, n)
  PROVE  /\ Batch(a, s, n + 1) \cap Evidence = Stale(a, s, n + 1)
         /\ Batch(a, s, n + 1) \in SUBSET Transaction
         /\ EvidenceOK(s, Batch(a, s, n + 1), OnOrAfter(a, s, n + 1))
<1> DEFINE T == OnOrAfter(a, s, n + 1)
           b == Batch(a, s, n + 1)
           e(i) == s.evidence[i].stamp
<1>1. /\ b \cap Evidence = Stale(a, s, n + 1) /\ b \in SUBSET Transaction
      /\ \A i \in Evidence : i \in b <=> i \notin Present(s) \/ e(i) # T
  BY EvidenceIsTransaction DEF Batch, Stale
<1>2. /\ T \in Nat
      /\ \A i \in Present(s) : e(i) \in Nat /\ e(i) <= T /\ i \in Evidence
      /\ \/ T = n + 1 /\ ~Mixed(s) /\ \A i \in Present(s) : e(i) < T
         \/ T = Existing(s) /\ \E i \in Present(s) : e(i) = T
  BY InstantOfBatch, DocumentType DEF DocumentOK
<1>3. /\ Mixed(s) <=> \E i, k \in Present(s) : e(i) # e(k)
      /\ \A h, i, k \in Present(s) : e(h) = e(i) \/ e(i) = e(k) \/ e(h) = e(k)
      /\ Mixed(s) => \A i \in Present(s) : e(i) = Existing(s) => s.evidence[i].revision > 1
  BY InstantsOf DEF DocumentOK, Recoverable
<1> HIDE DEF T, b, e
<1>4. \A i \in b \cap Present(s) : e(i) < T
  BY <1>1, <1>2
<1>5. \A i, k \in b \cap Present(s) : e(i) = e(k)
  BY <1>1, <1>2, <1>3
<1>6. b \cap Present(s) # {} => \A i \in Present(s) \ b : s.evidence[i].revision > 1
  BY <1>1, <1>2, <1>3
<1>7. EvidenceOK(s, b, T)
  BY <1>1, <1>4, <1>5, <1>6 DEF EvidenceOK, e
<1>8. QED
  BY <1>1, <1>7 DEF b, T

LEMMA DuePublications ==
  ASSUME NEW a, NEW s, DocumentOK(s), NEW t, ~Blocked(a, s, t)
  PROVE  PublicationOK(s, Batch(a, s, t), Name(a, s), AuthorityAt(a, s, t))
<1> DEFINE b == Batch(a, s, t)
           id(f) == [family |-> f, name |-> Name(a, s)]
<1>1. ASSUME NEW f \in Family
      PROVE  /\ <<"issue", f>> \in b <=> ~Provisioned(a, s, t, f)
             /\ <<"publish", f>> \in b <=> ~Provisioned(a, s, t, f)
  <2>1. /\ <<"issue", f>> \in Transaction \ Evidence /\ <<"publish", f>> \in Transaction \ Evidence
        /\ <<"issue", f>>[2] = f /\ <<"publish", f>>[2] = f
        /\ Stale(a, s, t) \subseteq Evidence
    BY DEF Transaction, Evidence, Stale
  <2>2. QED
    BY <2>1 DEF Batch
<1>2. \A f \in Family : ~Provisioned(a, s, t, f) => id(f) \notin s.issued /\ id(f) \notin s.consumed
  BY DEF Blocked, DocumentOK, Accounted
<1>3. {"FACT", "REGISTRY", "POLICY"} \subseteq Family
  BY DEF Family
<1> HIDE DEF b
<1>4. \A f \in Family :
        /\ <<"issue", f>> \in b => id(f) \notin s.issued
        /\ <<"publish", f>> \in b => id(f) \notin s.consumed /\ <<"issue", f>> \in b
  BY <1>1, <1>2
<1>5. /\ <<"publish", "FACT">> \notin b => s.fact.revision # 0 /\ s.fact.stamp = AuthorityAt(a, s, t)
      /\ <<"publish", "REGISTRY">> \notin b =>
           [name |-> Name(a, s), stamp |-> AuthorityAt(a, s, t)] \in s.registries
      /\ <<"publish", "POLICY">> \notin b =>
           s.policy.revision # 0 /\ s.policy.stamp = AuthorityAt(a, s, t) /\ s.bound = Name(a, s)
  BY <1>1, <1>3 DEF Provisioned
<1>6. QED
  BY <1>4, <1>5 DEF PublicationOK, b

LEMMA PrepareIsSound ==
  ASSUME NEW a \in Authorization, NEW s, DocumentOK(s), NEW n \in Nat, Past(s, n),
         ~Blocked(a, s, n + 1), length \in Nat, version[a.doc] \in Nat
  PROVE  /\ JobOK(Prepared(a, s, n + 1)) /\ JobPast(Prepared(a, s, n + 1), n + 1)
<1> DEFINE t == n + 1
           T == OnOrAfter(a, s, t)
           at == AuthorityAt(a, s, t)
           j == Prepared(a, s, t)
<1>1. j = [phase |-> "commit", auth |-> a, batch |-> Batch(a, s, t), name |-> Name(a, s),
           stamp |-> T, at |-> at, admitted |-> t, basis |-> s, position |-> length,
           version |-> version[a.doc]]
  BY DEF Prepared
<1>2. T \in Nat /\ T <= t /\ a.issued <= T
  <2>1. a.issued \in Nat
    BY DEF Authorization
  <2>2. ~(T < a.issued)
    BY DEF Blocked
  <2>3. T \in Nat /\ T <= t
    BY InstantOfBatch
  <2> HIDE DEF T
  <2>4. QED
    BY <2>1, <2>2, <2>3
<1>3. s.admitted \in Nat /\ s.admitted <= n /\ t \in Nat /\ s \in Document
  BY DocumentType DEF DocumentOK, Past
<1>4. at \in Nat /\ at <= t /\ s.admitted <= at /\ (Stale(a, s, t) # {} => t <= at)
  <2>1. /\ Stale(a, s, t) # {} => at = t
        /\ Stale(a, s, t) = {} /\ s.admitted > T => at = s.admitted
        /\ Stale(a, s, t) = {} /\ ~(s.admitted > T) => at = T
    BY DEF AuthorityAt
  <2> HIDE DEF T, at
  <2>2. QED
    BY <1>2, <1>3, <2>1
<1>5. /\ Batch(a, s, t) \cap Evidence = Stale(a, s, t) /\ Batch(a, s, t) \in SUBSET Transaction
      /\ EvidenceOK(s, Batch(a, s, t), T)
  BY StaleProvenance
<1>6. PublicationOK(s, Batch(a, s, t), Name(a, s), at)
  BY DuePublications
<1>7. Name(a, s) \in AuthOrNone
  BY DEF Name, AuthOrNone
<1>8. InOrder(s) /\ Accounted(s) /\ Past(s, t)
  <2>1. Past(s, t)
    <3>1. \A r \in s.registries : r.stamp \in Nat
      BY <1>3 DEF Document
    <3>2. QED
      BY <1>3, <3>1, DocumentType DEF Past
  <2>2. QED
    BY <2>1 DEF DocumentOK
<1> HIDE DEF T, at, t
<1>9. j \in JobState
  BY <1>1, <1>2, <1>3, <1>4, <1>5, <1>7 DEF JobState
<1>10. JobOK(j)
  BY <1>1, <1>2, <1>3, <1>4, <1>5, <1>6, <1>8, <1>9 DEF JobOK
<1>11. JobPast(j, t)
  BY <1>1, <1>2, <1>3, <1>4, <1>8 DEF JobPast
<1>12. QED
  BY <1>10, <1>11 DEF t

----------------------------------------------------------------------------
(* Jobs, branches and the clock.                                           *)

LEMMA PastGrows ==
  ASSUME NEW s \in Document, NEW n \in Nat, Past(s, n)
  PROVE  Past(s, n + 1)
<1>1. \A r \in s.registries : r.stamp \in Nat
  BY DEF Document
<1>2. QED
  BY <1>1, DocumentType DEF Past

LEMMA JobPastGrows ==
  ASSUME NEW j, JobOK(j), NEW n \in Nat, JobPast(j, n)
  PROVE  JobPast(j, n + 1)
BY JobType, PastGrows DEF JobPast

LEMMA PastStep ==
  ASSUME NEW j, JobOK(j), NEW x \in First(j.batch), NEW n \in Nat, JobPast(j, n)
  PROVE  Past(Apply(j.basis, x, j), n)
<1> DEFINE s == j.basis
           u == Apply(s, x, j)
<1>1. /\ s \in Document /\ j.name \in AuthOrNone /\ j.stamp \in Nat /\ j.at \in Nat
      /\ j.admitted \in Nat /\ x \in Transaction
      /\ j.stamp <= n /\ j.at <= n /\ j.admitted <= n /\ Past(s, n)
  BY JobType, FirstProperties DEF JobPast
<1>2. CASE x \in Evidence
  <2>1. /\ u.evidence = [s.evidence EXCEPT ![x] = Advance(s.evidence[x], j.stamp)]
        /\ u.admitted = j.admitted /\ u.fact = s.fact /\ u.policy = s.policy
        /\ u.registries = s.registries /\ s.evidence \in [Evidence -> Header]
    BY <1>1, <1>2, ApplyEvidence DEF Document
  <2> HIDE DEF u, s
  <2>2. \A i \in Evidence : u.evidence[i].stamp = IF i = x THEN j.stamp ELSE s.evidence[i].stamp
    BY <2>1 DEF Advance
  <2>3. QED
    BY <1>1, <2>1, <2>2 DEF Past, u, s
<1>3. ASSUME NEW f \in Family, x = <<"issue", f>>
      PROVE  Past(u, n)
  <2>1. /\ u.evidence = s.evidence /\ u.admitted = s.admitted
        /\ u.fact = s.fact /\ u.policy = s.policy /\ u.registries = s.registries
    BY <1>1, <1>3, ApplyIssue
  <2> HIDE DEF u, s
  <2>2. QED
    BY <1>1, <2>1 DEF Past
<1>4. ASSUME NEW f \in Family, x = <<"publish", f>>
      PROVE  Past(u, n)
  <2>1. Published(s, f, j, u)
    BY <1>1, <1>4, ApplyPublish
  <2> HIDE DEF u, s
  <2>2. Advance(s.fact, j.at).stamp = j.at /\ Advance(s.policy, j.at).stamp = j.at
    BY DEF Advance
  <2>3. u.fact.stamp <= n /\ u.policy.stamp <= n /\ \A r \in u.registries : r.stamp <= n
    BY <1>1, <2>1, <2>2 DEF Published, Past
  <2>4. QED
    BY <1>1, <2>1, <2>3 DEF Published, Past
<1>5. x \in Evidence \/ \E f \in Family : x = <<"issue", f>> \/ x = <<"publish", f>>
  BY <1>1 DEF Transaction, Evidence
<1>6. QED
  BY <1>2, <1>3, <1>4, <1>5

(* A batch that is done has classified its document. *)
LEMMA DoneIsClassified ==
  ASSUME NEW j, JobOK(j), j.batch = {}
  PROVE  Classified(j.basis, j.auth)
<1> DEFINE s == j.basis
<1>1. /\ s \in Document /\ j.stamp \in Nat /\ j.at \in Nat
      /\ EvidenceOK(s, {}, j.stamp) /\ PublicationOK(s, {}, j.name, j.at)
      /\ s.admitted <= j.at /\ j.auth.issued <= j.stamp
  BY JobType DEF JobOK
<1> HIDE DEF s
<1>2. \A i \in Evidence : i \in Present(s) /\ s.evidence[i].stamp = j.stamp
  BY <1>1 DEF EvidenceOK
<1>3. Present(s) = Evidence
  BY <1>1, <1>2, DocumentType
<1>4. ~Mixed(s) /\ Cardinality(Known(s)) <= 2
  BY <1>2, <1>3, InstantsOf
<1>5. Present(s) # {}
  <2>1. <<"evidence", "FACT">> \in Evidence
    BY DEF Evidence, Family
  <2>2. QED
    BY <1>3, <2>1
<1>6. Existing(s) = j.stamp
  BY <1>1, <1>2, <1>3, <1>4, <1>5, ExistingIsLatest
<1>7. QED
  BY <1>1, <1>3, <1>4, <1>6 DEF Classified, PublicationOK, s

----------------------------------------------------------------------------
(* The inductive invariant.                                                *)

(* The jobs that have something to commit. *)
Pending == {j \in {job} \cup late : j # Idle}

(* A job whose position is the head of the ledger still has its document   *)
(* as it left it, and one whose version is the head of the Issue ledger    *)
(* still may claim.                                                        *)
Anchored(j) ==
  /\ j.position <= length
  /\ j.position = length => ledger[j.auth.doc] = j.basis
  /\ j.version <= version[j.auth.doc]
  /\ j.version = version[j.auth.doc] =>
       active[j.auth.doc] = NoAuth /\ j.auth \notin ClaimedIds

WorldOK ==
  /\ now \in Nat /\ length \in Nat
  /\ updated \in [Doc -> 0 .. now]
  /\ labels \in [Doc -> 0 .. MaxLabels + MaxRetries]
  /\ remediations \in [Doc -> 0 .. MaxRemediation]
  /\ queue \subseteq Authorization
  /\ job # Idle => job.phase = "commit"
  /\ Idle \notin late
  /\ faults \in 0 .. MaxFaults

LedgersOK ==
  /\ ledger \in [Doc -> Document]
  /\ \A d \in Doc : DocumentOK(ledger[d]) /\ Past(ledger[d], now)
  /\ active \in [Doc -> AuthOrNone] /\ version \in [Doc -> Nat]
  /\ \A c \in claims : c.auth \in Authorization /\ Classified(c.basis, c.auth)

Inv ==
  /\ WorldOK /\ LedgersOK
  /\ \A j \in Pending : JobOK(j) /\ JobPast(j, now) /\ Anchored(j)

LEMMA IdleIsNoJob ==
  ASSUME NEW j, JobOK(j)
  PROVE  j # Idle
BY JobType DEF Idle

LEMMA DocOfJob ==
  ASSUME NEW j, JobOK(j)
  PROVE  j.auth \in Authorization /\ j.auth.doc \in Doc
BY JobType DEF Authorization

(* Nothing is committed; time may pass. *)
LEMMA QuietStep ==
  ASSUME Inv, WorldOK', Pending' \subseteq Pending, now' \in {now, now + 1},
         UNCHANGED <<sh, issueLedger>>
  PROVE  Inv'
<1>1. now \in Nat /\ UNCHANGED <<ledger, length, active, version, claims>>
  BY DEF Inv, WorldOK, sh, issueLedger
<1>2. LedgersOK'
  <2>1. \A d \in Doc : ledger[d] \in Document /\ Past(ledger[d], now)
    BY DEF Inv, LedgersOK
  <2>2. \A d \in Doc : Past(ledger[d], now')
    BY <1>1, <2>1, PastGrows
  <2>3. QED
    BY <1>1, <2>2 DEF Inv, LedgersOK
<1>3. ASSUME NEW j \in Pending
      PROVE  JobOK(j) /\ JobPast(j, now') /\ Anchored(j)'
  <2>1. JobOK(j) /\ JobPast(j, now) /\ Anchored(j)
    BY DEF Inv
  <2>2. JobPast(j, now')
    BY <1>1, <2>1, JobPastGrows
  <2>3. QED
    BY <1>1, <2>1, <2>2 DEF Anchored, ClaimedIds
<1>4. QED
  BY <1>2, <1>3 DEF Inv

(* A transaction lands. *)
LEMMA LandStep ==
  ASSUME Inv, NEW j \in Pending, NEW x \in First(j.batch), Lands(j), Land(j, x), WorldOK',
         Pending' \subseteq Pending \cup
           {[j EXCEPT !.batch = @ \ {x}, !.position = @ + 1, !.basis = Apply(@, x, j)]},
         UNCHANGED <<now, issueLedger>>
  PROVE  Inv'
<1> DEFINE u == Apply(j.basis, x, j)
           k == [j EXCEPT !.batch = @ \ {x}, !.position = @ + 1, !.basis = Apply(@, x, j)]
           doc == j.auth.doc
<1>1. /\ JobOK(j) /\ JobPast(j, now) /\ Anchored(j)
      /\ length \in Nat /\ now \in Nat /\ ledger \in [Doc -> Document]
      /\ UNCHANGED <<active, version, claims>>
  BY DEF Inv, WorldOK, LedgersOK, issueLedger
<1>2. doc \in Doc /\ j \in JobState
  BY <1>1, DocOfJob DEF JobOK
<1>3. j.position = length /\ ledger[doc] = j.basis
  BY <1>1 DEF Anchored, Lands
<1>4. ledger' = [ledger EXCEPT ![doc] = u] /\ length' = length + 1
  BY <1>3 DEF Land
<1>5. /\ u \in Document /\ InOrder(u) /\ Accounted(u) /\ EvidenceOK(u, j.batch \ {x}, j.stamp)
  BY <1>1, TransactionStep DEF Leaves
<1>6. DocumentOK(u) /\ Past(u, now)
  BY <1>1, <1>5, JobType, EvidenceRecoverable, PastStep DEF DocumentOK
<1>7. JobOK(k)
  BY <1>1, JobAdvances
<1>8. /\ k.auth = j.auth /\ k.position = length + 1 /\ k.basis = u /\ k.version = j.version
      /\ k.stamp = j.stamp /\ k.at = j.at /\ k.admitted = j.admitted
  BY <1>2, <1>3 DEF JobState
<1> HIDE DEF u, k
<1>9. LedgersOK'
  BY <1>1, <1>2, <1>4, <1>5, <1>6 DEF Inv, LedgersOK
<1>10. JobPast(k, now') /\ Anchored(k)'
  BY <1>1, <1>2, <1>4, <1>6, <1>8 DEF JobPast, Anchored, ClaimedIds
<1>11. ASSUME NEW p \in Pending
       PROVE  JobOK(p) /\ JobPast(p, now') /\ Anchored(p)'
  <2>1. JobOK(p) /\ JobPast(p, now) /\ Anchored(p) /\ p.position \in Nat
    BY JobType DEF Inv
  <2>2. QED
    BY <1>1, <1>4, <2>1 DEF Anchored, ClaimedIds
<1>12. QED
  BY <1>7, <1>9, <1>10, <1>11 DEF Inv, k

(* The authorization of a pending job becomes the live one of its Issue,   *)
(* or the Issue ledger has moved on and nothing is written.                *)
LEMMA ClaimStep ==
  ASSUME Inv, NEW j \in Pending, j.batch = {}, ClaimFor(j), WorldOK', Pending' \subseteq Pending,
         UNCHANGED <<now, sh>>
  PROVE  Inv'
<1> DEFINE doc == j.auth.doc
<1>1. /\ JobOK(j) /\ now \in Nat /\ UNCHANGED <<ledger, length>>
      /\ active \in [Doc -> AuthOrNone] /\ version \in [Doc -> Nat] /\ Pending' \subseteq Pending
      /\ \A c \in claims : c.auth \in Authorization /\ Classified(c.basis, c.auth)
  BY DEF Inv, WorldOK, LedgersOK, sh
<1>2. CASE version[doc] # j.version
  BY <1>2, QuietStep DEF ClaimFor
<1>3. CASE version[doc] = j.version
  <2>1. /\ active' = [active EXCEPT ![doc] = j.auth]
        /\ version' = [version EXCEPT ![doc] = @ + 1]
        /\ claims' = claims \cup {[auth |-> j.auth, basis |-> j.basis]}
    BY <1>3 DEF ClaimFor
  <2>2. j.auth \in Authorization /\ doc \in Doc /\ j.auth \in AuthOrNone
    BY <1>1, DocOfJob DEF AuthOrNone
  <2>3. \A c \in claims' : c.auth \in Authorization /\ Classified(c.basis, c.auth)
    BY <1>1, <2>1, <2>2, DoneIsClassified
  <2>4. LedgersOK'
    <3>1. active' \in [Doc -> AuthOrNone] /\ version' \in [Doc -> Nat]
      BY <1>1, <2>1, <2>2
    <3>2. QED
      BY <1>1, <2>3, <3>1 DEF Inv, LedgersOK
  <2>5. ASSUME NEW p \in Pending
        PROVE  JobOK(p) /\ JobPast(p, now') /\ Anchored(p)'
    <3>1. JobOK(p) /\ JobPast(p, now) /\ Anchored(p) /\ p.version \in Nat /\ p.auth.doc \in Doc
      BY JobType, DocOfJob DEF Inv
    <3>2. CASE p.auth.doc = doc
      <4>1. version[doc] \in Nat /\ version'[doc] = version[doc] + 1
        BY <1>1, <2>1, <2>2
      <4>2. QED
        BY <1>1, <3>1, <3>2, <4>1 DEF Anchored
    <3>3. CASE p.auth.doc # doc
      <4>1. active'[p.auth.doc] = active[p.auth.doc] /\ version'[p.auth.doc] = version[p.auth.doc]
        BY <1>1, <2>1, <3>1, <3>3
      <4>2. p.auth # j.auth
        BY <3>3
      <4>3. p.auth \notin ClaimedIds => p.auth \notin ClaimedIds'
        BY <2>1, <4>2 DEF ClaimedIds
      <4>4. QED
        BY <1>1, <3>1, <4>1, <4>3 DEF Anchored
    <3>4. QED
      BY <3>2, <3>3
  <2>6. QED
    BY <1>1, <2>4, <2>5 DEF Inv
<1>4. QED
  BY <1>2, <1>3

LEMMA WorldFacts ==
  ASSUME Inv
  PROVE  /\ now \in Nat /\ length \in Nat /\ queue \subseteq Authorization
         /\ ledger \in [Doc -> Document] /\ version \in [Doc -> Nat]
         /\ active \in [Doc -> AuthOrNone]
         /\ \A a \in queue : a.doc \in Doc
BY DEF Inv, WorldOK, LedgersOK, Authorization

LEMMA BoundsType ==
  /\ MaxLabels \in Nat /\ MaxRetries \in Nat /\ MaxRemediation \in Nat /\ MaxFaults \in Nat
  /\ NoAuth \notin Authorization
<1>1. Authorization \subseteq [doc : Doc, issued : Nat, attempt : Nat]
  BY DEF Authorization
<1>2. QED
  BY <1>1, ProvisioningAssumption

LEMMA LabelStep ==
  ASSUME Inv, NEW d \in Doc, Label(d)
  PROVE  Inv'
<1>1. /\ now' = now + 1 /\ updated' = [updated EXCEPT ![d] = now + 1]
      /\ labels' = [labels EXCEPT ![d] = @ + 1] /\ labels[d] < MaxLabels + MaxRetries
      /\ queue' = queue \cup {[doc |-> d, issued |-> now + 1, attempt |-> 0]}
      /\ UNCHANGED <<remediations, ledger, length, job, active, version, claims, late, faults>>
  <2>1. labels[d] \in Nat
    BY DEF Inv, WorldOK
  <2>2. labels[d] < MaxLabels + MaxRetries
    BY <2>1, BoundsType DEF Label
  <2>3. QED
    BY <2>2 DEF Label, sh, issueLedger
<1>2. [doc |-> d, issued |-> now + 1, attempt |-> 0] \in Authorization
  BY WorldFacts, BoundsType DEF Authorization
<1>3. /\ now \in Nat /\ updated \in [Doc -> 0 .. now]
      /\ labels \in [Doc -> 0 .. MaxLabels + MaxRetries]
  BY DEF Inv, WorldOK
<1>4. updated' \in [Doc -> 0 .. now'] /\ labels' \in [Doc -> 0 .. MaxLabels + MaxRetries]
  BY <1>1, <1>3, BoundsType
<1>5. WorldOK'
  BY <1>1, <1>2, <1>3, <1>4 DEF Inv, WorldOK
<1>6. Pending' = Pending
  BY <1>1 DEF Pending
<1>7. QED
  BY <1>1, <1>5, <1>6, QuietStep DEF sh, issueLedger

LEMMA RemediateStep ==
  ASSUME Inv, NEW d \in Doc, Remediate(d)
  PROVE  Inv'
<1> DEFINE n == remediations[d] + 1
<1>1. /\ n <= MaxRemediation /\ remediations' = [remediations EXCEPT ![d] = n]
      /\ queue' = queue \cup {[doc |-> d, issued |-> updated[d], attempt |-> n]}
      /\ UNCHANGED <<now, updated, labels, ledger, length, job, active, version, claims, late, faults>>
  BY DEF Remediate, sh, issueLedger
<1>2. /\ now \in Nat /\ updated[d] \in Nat
      /\ remediations \in [Doc -> 0 .. MaxRemediation] /\ n \in 0 .. MaxRemediation
  BY <1>1, BoundsType DEF Inv, WorldOK
<1>3. [doc |-> d, issued |-> updated[d], attempt |-> n] \in Authorization
  BY <1>2 DEF Authorization
<1> HIDE DEF n
<1>4. remediations' \in [Doc -> 0 .. MaxRemediation]
  BY <1>1, <1>2
<1>5. WorldOK'
  BY <1>1, <1>3, <1>4 DEF Inv, WorldOK
<1>6. Pending' = Pending
  BY <1>1 DEF Pending
<1>7. QED
  BY <1>1, <1>2, <1>5, <1>6, QuietStep DEF sh, issueLedger

LEMMA TerminateStep ==
  ASSUME Inv, NEW d \in Doc, Terminate(d)
  PROVE  Inv'
<1>1. /\ active' = [active EXCEPT ![d] = NoAuth] /\ version' = [version EXCEPT ![d] = @ + 1]
      /\ UNCHANGED <<now, updated, labels, remediations, queue, ledger, length, job, claims, late,
                     faults>>
  BY DEF Terminate, sh, issue
<1>2. active' \in [Doc -> AuthOrNone] /\ version' \in [Doc -> Nat]
  BY <1>1, WorldFacts DEF AuthOrNone
<1>3. WorldOK' /\ LedgersOK' /\ Pending' = Pending
  BY <1>1, <1>2 DEF Inv, WorldOK, LedgersOK, Pending
<1>4. ASSUME NEW p \in Pending
      PROVE  JobOK(p) /\ JobPast(p, now') /\ Anchored(p)'
  <2>1. JobOK(p) /\ JobPast(p, now) /\ Anchored(p) /\ p.version \in Nat /\ p.auth.doc \in Doc
    BY JobType, DocOfJob DEF Inv
  <2>2. CASE p.auth.doc = d
    <3>1. version[d] \in Nat /\ version'[d] = version[d] + 1
      BY <1>1, WorldFacts
    <3>2. QED
      BY <1>1, <2>1, <2>2, <3>1 DEF Anchored
  <2>3. CASE p.auth.doc # d
    <3>1. active'[p.auth.doc] = active[p.auth.doc] /\ version'[p.auth.doc] = version[p.auth.doc]
      BY <1>1, <2>1, <2>3, WorldFacts
    <3>2. QED
      BY <1>1, <2>1, <3>1 DEF Anchored, ClaimedIds
  <2>4. QED
    BY <2>2, <2>3
<1>5. QED
  BY <1>3, <1>4 DEF Inv

(* A prepared job extends the ledger it was prepared on. *)
LEMMA PrepareStep ==
  ASSUME Inv, NEW a \in queue, Prepare(a)
  PROVE  Inv'
<1> DEFINE s == ledger[a.doc]
<1> PICK k : k = Prepared(a, s, now + 1)
  OBVIOUS
<1>1. /\ Admissible(a) /\ ~Blocked(a, s, now + 1)
      /\ now' = now + 1 /\ queue' = queue \ {a} /\ job' = k
      /\ UNCHANGED <<updated, labels, remediations, ledger, length, active, version, claims, late, faults>>
  BY DEF Prepare, sh, issue, issueLedger
<1>2. /\ now \in Nat /\ length \in Nat /\ a \in Authorization /\ a.doc \in Doc
      /\ ledger \in [Doc -> Document] /\ version[a.doc] \in Nat
  BY WorldFacts
<1>3. DocumentOK(s) /\ Past(s, now) /\ s \in Document
  BY <1>2 DEF Inv, LedgersOK
<1>4. JobOK(k) /\ JobPast(k, now + 1)
  BY <1>1, <1>2, <1>3, PrepareIsSound
<1>5. /\ k.phase = "commit" /\ k.auth = a /\ k.basis = s /\ k.position = length
      /\ k.version = version[a.doc]
  BY DEF Prepared
<1>6. Anchored(k)'
  BY <1>1, <1>2, <1>5 DEF Anchored, Admissible, ClaimedIds
<1>7. WorldOK'
  <2>1. updated \in [Doc -> 0 .. now]
    BY DEF Inv, WorldOK
  <2>2. updated \in [Doc -> 0 .. now + 1]
    BY <1>2, <2>1
  <2>3. QED
    BY <1>1, <1>2, <1>5, <2>2 DEF Inv, WorldOK
<1>8. LedgersOK'
  <2>1. \A d \in Doc : Past(ledger[d], now + 1)
    BY <1>2, PastGrows DEF Inv, LedgersOK
  <2>2. QED
    BY <1>1, <2>1 DEF Inv, LedgersOK
<1>9. ASSUME NEW p \in Pending
      PROVE  JobOK(p) /\ JobPast(p, now') /\ Anchored(p)'
  <2>1. JobOK(p) /\ JobPast(p, now) /\ Anchored(p)
    BY DEF Inv
  <2>2. JobPast(p, now + 1)
    BY <1>2, <2>1, JobPastGrows
  <2>3. QED
    BY <1>1, <2>1, <2>2 DEF Anchored, ClaimedIds
<1>10. Pending' \subseteq Pending \cup {k}
  BY <1>1 DEF Pending
<1>11. QED
  BY <1>1, <1>4, <1>6, <1>7, <1>8, <1>9, <1>10 DEF Inv

LEMMA RefuseStep ==
  ASSUME Inv, NEW a \in queue, Refuse(a)
  PROVE  Inv'
<1>1. /\ now' = now + 1 /\ queue' = queue \ {a}
      /\ UNCHANGED <<updated, labels, remediations, ledger, length, job, active, version, claims, late, faults>>
  BY DEF Refuse, sh, issue, issueLedger
<1>2. now \in Nat /\ updated \in [Doc -> 0 .. now]
  BY DEF Inv, WorldOK
<1>3. updated \in [Doc -> 0 .. now + 1]
  BY <1>2
<1>4. WorldOK' /\ Pending' = Pending
  BY <1>1, <1>2, <1>3 DEF Inv, WorldOK, Pending
<1>5. QED
  BY <1>1, <1>4, QuietStep DEF sh, issueLedger

(* The steps that leave the environment of the job alone. *)
LEMMA WorldStays ==
  ASSUME Inv, UNCHANGED <<now, issue, queue>>, length' \in Nat, job' # Idle => job'.phase = "commit",
         faults' \in 0 .. MaxFaults, late' \subseteq late \cup ({job} \ {Idle})
  PROVE  WorldOK'
BY DEF Inv, WorldOK, issue

LEMMA JobIsPending ==
  ASSUME job.phase = "commit"
  PROVE  job \in Pending /\ job # Idle
<1>1. Idle.phase = "idle"
  BY DEF Idle
<1>2. job # Idle
  BY <1>1
<1>3. QED
  BY <1>2 DEF Pending

LEMMA PublishStep ==
  ASSUME Inv, Publish
  PROVE  Inv'
<1>1. /\ job \in Pending /\ JobOK(job) /\ length \in Nat /\ faults \in 0 .. MaxFaults
      /\ UNCHANGED <<now, issue, queue, issueLedger, late, faults>>
  BY JobIsPending DEF Publish, Inv, WorldOK
<1>2. PICK x \in First(job.batch) :
        IF Lands(job)
          THEN /\ Land(job, x)
               /\ job' = [job EXCEPT !.batch = @ \ {x}, !.position = @ + 1,
                                     !.basis = Apply(@, x, job)]
          ELSE job' = Idle /\ UNCHANGED sh
  BY DEF Publish
<1>3. CASE Lands(job)
  <2>1. JobOK(job')
    BY <1>1, <1>2, <1>3, JobAdvances
  <2>2. job'.phase = "commit"
    BY <2>1, JobType
  <2>3. WorldOK'
    BY <1>1, <1>2, <1>3, <2>2, WorldStays DEF Land
  <2>4. Pending' \subseteq Pending \cup
           {[job EXCEPT !.batch = @ \ {x}, !.position = @ + 1, !.basis = Apply(@, x, job)]}
    BY <1>1, <1>2, <1>3 DEF Pending
  <2>5. Land(job, x)
    BY <1>2, <1>3
  <2>6. QED
    BY <1>1, <1>3, <2>3, <2>4, <2>5, LandStep, Zenon
<1>4. CASE ~Lands(job)
  <2>1. job' = Idle /\ UNCHANGED sh
    BY <1>2, <1>4
  <2>2. WorldOK' /\ Pending' \subseteq Pending
    BY <1>1, <2>1, WorldStays DEF sh, Pending
  <2>3. QED
    BY <1>1, <2>1, <2>2, QuietStep
<1>5. QED
  BY <1>3, <1>4

LEMMA ClaimActionStep ==
  ASSUME Inv, Claim
  PROVE  Inv'
<1>1. /\ job \in Pending /\ job.batch = {} /\ ClaimFor(job) /\ job' = Idle
      /\ UNCHANGED <<now, issue, queue, sh, late, faults>>
  BY JobIsPending DEF Claim
<1>2. length' \in Nat /\ faults' \in 0 .. MaxFaults
  BY <1>1 DEF Inv, WorldOK, sh
<1>3. WorldOK' /\ Pending' \subseteq Pending
  BY <1>1, <1>2, WorldStays DEF Pending
<1>4. QED
  BY <1>1, <1>3, ClaimStep

LEMMA InterruptedStep ==
  ASSUME Inv, Interrupted
  PROVE  Inv'
<1>1. /\ job \in Pending /\ job # Idle /\ job' = Idle /\ late' \in {late, late \cup {job}}
      /\ faults < MaxFaults /\ faults' = faults + 1
      /\ UNCHANGED <<now, issue, queue, sh, issueLedger>>
  BY JobIsPending DEF Interrupted, Fault
<1>2. length' \in Nat /\ faults' \in 0 .. MaxFaults
  BY <1>1, BoundsType DEF Inv, WorldOK, sh
<1>3. WorldOK' /\ Pending' \subseteq Pending
  BY <1>1, <1>2, WorldStays DEF Pending
<1>4. QED
  BY <1>1, <1>3, QuietStep

LEMMA DeliverStep ==
  ASSUME Inv, NEW p \in late, Deliver(p)
  PROVE  Inv'
<1>1. /\ late' = late \ {p} /\ UNCHANGED <<now, issue, queue, job, faults>>
      /\ length \in Nat /\ faults \in 0 .. MaxFaults /\ (job # Idle => job.phase = "commit")
  BY DEF Deliver, Inv, WorldOK
<1>2. Pending' \subseteq Pending /\ p \in Pending
  BY <1>1 DEF Pending, Inv, WorldOK
<1>3. CASE UNCHANGED <<sh, issueLedger>>
  <2>1. WorldOK'
    BY <1>1, <1>3, WorldStays DEF sh
  <2>2. QED
    BY <1>1, <1>2, <1>3, <2>1, QuietStep
<1>4. CASE p.batch = {} /\ ClaimFor(p) /\ UNCHANGED sh
  <2>1. WorldOK'
    BY <1>1, <1>4, WorldStays DEF sh
  <2>2. QED
    BY <1>1, <1>2, <1>4, <2>1, ClaimStep
<1>5. ASSUME NEW x \in First(p.batch), Lands(p), Land(p, x), UNCHANGED issueLedger
      PROVE  Inv'
  <2>1. length' \in Nat
    BY <1>1, <1>5 DEF Land
  <2>2. WorldOK'
    BY <1>1, <2>1, WorldStays
  <2>3. QED
    BY <1>1, <1>2, <1>5, <2>2, LandStep
<1>6. QED
  BY <1>3, <1>4, <1>5 DEF Deliver

LEMMA BlankIsDocument ==
  ASSUME NEW n \in Nat
  PROVE  DocumentOK(Blank) /\ Past(Blank, n)
<1>1. Absent \in Header /\ Absent.stamp = 0 /\ Absent.revision = 0
  BY DEF Absent, Header
<1>2. /\ Blank.evidence = [i \in Evidence |-> Absent] /\ Blank.admitted = 0
      /\ Blank.fact = Absent /\ Blank.policy = Absent
      /\ Blank.registries = {} /\ Blank.issued = {} /\ Blank.consumed = {}
  BY DEF Blank
<1>3. Blank \in Document
  <2>1. [i \in Evidence |-> Absent] \in [Evidence -> Header]
    BY <1>1
  <2>2. QED
    BY <1>1, <2>1 DEF Blank, Document, AuthOrNone
<1>4. Present(Blank) = {}
  BY <1>1, <1>2 DEF Present
<1>5. Recoverable(Blank)
  BY <1>4, InstantsOf DEF Recoverable
<1>6. InOrder(Blank) /\ Accounted(Blank)
  BY <1>2, <1>4 DEF InOrder, Accounted
<1>7. Past(Blank, n)
  BY <1>1, <1>2 DEF Past
<1>8. QED
  BY <1>3, <1>5, <1>6, <1>7 DEF DocumentOK

LEMMA InitHolds ==
  ASSUME Init
  PROVE  Inv
<1>1. WorldOK
  BY BoundsType DEF Init, WorldOK
<1>2. LedgersOK
  <2>1. DocumentOK(Blank) /\ Past(Blank, 0) /\ Blank \in Document
    BY BlankIsDocument DEF DocumentOK
  <2>2. ledger \in [Doc -> Document] /\ \A d \in Doc : ledger[d] = Blank
    BY <2>1 DEF Init
  <2>3. active \in [Doc -> AuthOrNone] /\ version \in [Doc -> Nat] /\ claims = {} /\ now = 0
    BY DEF Init, AuthOrNone
  <2>4. QED
    BY <2>1, <2>2, <2>3 DEF LedgersOK
<1>3. Pending = {}
  BY DEF Init, Pending
<1>4. QED
  BY <1>1, <1>2, <1>3 DEF Inv

LEMMA NextPreserves ==
  ASSUME Inv, [Next]_vars
  PROVE  Inv'
<1>1. CASE UNCHANGED vars
  <2>1. UNCHANGED <<now, issue, queue, sh, job, issueLedger, late, faults>>
    BY <1>1 DEF vars, issue, issueLedger
  <2>2. WorldOK' /\ Pending' = Pending
    BY <2>1 DEF Inv, WorldOK, Pending, issue, sh
  <2>3. QED
    BY <2>1, <2>2, QuietStep
<1>2. CASE \E d \in Doc : Label(d) \/ Remediate(d) \/ Terminate(d)
  BY <1>2, LabelStep, RemediateStep, TerminateStep
<1>3. CASE \E a \in queue : Prepare(a) \/ Refuse(a)
  BY <1>3, PrepareStep, RefuseStep
<1>4. CASE Publish \/ Claim \/ Interrupted
  BY <1>4, PublishStep, ClaimActionStep, InterruptedStep
<1>5. CASE \E p \in late : Deliver(p)
  BY <1>5, DeliverStep
<1>6. QED
  BY <1>1, <1>2, <1>3, <1>4, <1>5 DEF Next

(* The invariant: the Source Handling branch holds documents that the      *)
(* recovery of the code accepts, and every job that has something to       *)
(* commit, running or late, still fits the branch as long as its           *)
(* compare-and-swap would succeed.                                         *)
THEOREM InvHolds == Spec => []Inv
<1>1. Init => Inv
  BY InitHolds
<1>2. Inv /\ [Next]_vars => Inv'
  BY NextPreserves
<1>3. QED
  BY <1>1, <1>2, PTL DEF Spec

----------------------------------------------------------------------------
(* What follows from it.                                                   *)

(* Whatever authorize jobs provision, interrupt and land late, documents   *)
(* stay in the closed table schema and no record is known in the future.   *)
THEOREM TypeCorrect == Spec => []TypeOK
<1>1. Inv => TypeOK
  <2> SUFFICES ASSUME Inv
               PROVE  TypeOK
    OBVIOUS
  <2>1. ASSUME NEW d \in Doc
        PROVE  /\ ledger[d].evidence \in [Evidence -> Heads]
               /\ ledger[d].fact \in Heads /\ ledger[d].policy \in Heads
               /\ ledger[d].bound \in AuthOrNone /\ ledger[d].admitted \in 0 .. now
               /\ ledger[d].registries \subseteq [name : AuthOrNone, stamp : 0 .. now]
               /\ ledger[d].issued \cup ledger[d].consumed \subseteq PublicationIds
    <3> DEFINE s == ledger[d]
    <3>1. s \in Document /\ Past(s, now) /\ now \in Nat
      BY DEF Inv, LedgersOK, WorldOK
    <3> HIDE DEF s
    <3>2. \A h \in Header : h.stamp <= now => h \in Heads
      BY <3>1 DEF Header, Heads
    <3>3. s.evidence \in [Evidence -> Header] /\ \A i \in Evidence : s.evidence[i].stamp <= now
      BY <3>1 DEF Document, Past
    <3>4. s.evidence \in [Evidence -> Heads]
      BY <3>2, <3>3
    <3>5. s.fact \in Heads /\ s.policy \in Heads /\ s.admitted \in 0 .. now
      BY <3>1, <3>2 DEF Document, Past
    <3>6. s.registries \subseteq [name : AuthOrNone, stamp : 0 .. now]
      BY <3>1 DEF Document, Past
    <3>7. QED
      BY <3>1, <3>4, <3>5, <3>6 DEF Document, s
  <2>2. job = Idle \/
          /\ job.phase = "commit" /\ job.auth \in Authorization /\ job.name \in AuthOrNone
          /\ job.batch \subseteq Transaction
          /\ {job.stamp, job.at, job.admitted, job.position, job.version} \subseteq Nat
    BY JobType DEF Inv, Pending
  <2>3. QED
    BY <2>1, <2>2 DEF TypeOK, Inv, WorldOK, LedgersOK
<1>2. QED
  BY <1>1, InvHolds, PTL

(* materialize never reports TAMPER_DETECTED: a transaction that           *)
(* append_files accepts, from a running job or from a push that lands      *)
(* late, obeys the mutation discipline of its table.                       *)
THEOREM ReplayCorrect == Spec => []Replayable
<1>1. Inv => Replayable
  <2> SUFFICES ASSUME Inv, NEW j \in {job} \cup late, j # Idle, Lands(j), NEW x \in First(j.batch)
               PROVE  Replays(ledger[j.auth.doc], x, j)
    BY DEF Replayable
  <2>1. JobOK(j) /\ Anchored(j)
    BY DEF Inv, Pending
  <2>2. ledger[j.auth.doc] = j.basis
    BY <2>1 DEF Anchored, Lands
  <2>3. QED
    BY <2>1, <2>2, TransactionStep
<1>2. QED
  BY <1>1, InvHolds, PTL

(* An AUTHORIZED record binds a document whose classification is complete. *)
THEOREM ClassifiedCorrect == Spec => []ClaimedIsClassified
<1>1. Inv => ClaimedIsClassified
  BY DEF Inv, LedgersOK, ClaimedIsClassified
<1>2. QED
  BY <1>1, InvHolds, PTL

(* _existing_provenance_info accepts the heads of every document, however  *)
(* its batches were interrupted.                                           *)
THEOREM RecoverableCorrect == Spec => []RecoverableShape
<1>1. Inv => RecoverableShape
  BY DEF Inv, LedgersOK, DocumentOK, RecoverableShape
<1>2. QED
  BY <1>1, InvHolds, PTL

LEMMA ClaimForExcludes ==
  ASSUME Inv, NEW j \in Pending, ClaimFor(j), NEW d \in Doc, active'[d] \notin {active[d], NoAuth}
  PROVE  active[d] = NoAuth /\ active'[d] \notin ClaimedIds
<1>1. Anchored(j) /\ JobOK(j) /\ active \in [Doc -> AuthOrNone]
  BY DEF Inv, LedgersOK
<1>2. version[j.auth.doc] = j.version /\ active' = [active EXCEPT ![j.auth.doc] = j.auth]
  BY DEF ClaimFor, issueLedger
<1>3. d = j.auth.doc /\ active'[d] = j.auth
  BY <1>1, <1>2
<1>4. QED
  BY <1>1, <1>2, <1>3 DEF Anchored

(* The claim of commit, or of a push that lands late, displaces no live    *)
(* authorization and repeats none: the Issue ledger's compare-and-swap is  *)
(* on the head that prepare judged admissible.                             *)
THEOREM ExcludeCorrect == Spec => ClaimsExclude
<1> DEFINE Excludes ==
      \A d \in Doc : active'[d] \notin {active[d], NoAuth} =>
        active[d] = NoAuth /\ active'[d] \notin ClaimedIds
<1>1. Inv /\ [Next]_vars => [Excludes]_vars
  <2> SUFFICES ASSUME Inv, Next, NEW d \in Doc, active'[d] \notin {active[d], NoAuth}
               PROVE  active[d] = NoAuth /\ active'[d] \notin ClaimedIds
    OBVIOUS
  <2>1. ~UNCHANGED active
    OBVIOUS
  <2>2. CASE \E e \in Doc : Label(e) \/ Remediate(e) \/ Terminate(e)
    <3>1. PICK e \in Doc : Label(e) \/ Remediate(e) \/ Terminate(e)
      BY <2>2
    <3>2. Terminate(e)
      BY <2>1, <3>1 DEF Label, Remediate, issueLedger
    <3>3. active \in [Doc -> AuthOrNone] /\ active' = [active EXCEPT ![e] = NoAuth]
      BY <3>2, WorldFacts DEF Terminate
    <3>4. QED
      BY <3>3
  <2>3. CASE \E a \in queue : Prepare(a) \/ Refuse(a)
    BY <2>1, <2>3 DEF Prepare, Refuse, issueLedger
  <2>4. CASE Publish \/ Interrupted
    BY <2>1, <2>4 DEF Publish, Interrupted, issueLedger
  <2>5. CASE Claim
    <3>1. job \in Pending /\ ClaimFor(job)
      BY <2>5, JobIsPending DEF Claim
    <3>2. QED
      BY <3>1, ClaimForExcludes
  <2>6. CASE \E p \in late : Deliver(p)
    <3>1. PICK p \in late : Deliver(p)
      BY <2>6
    <3>2. ClaimFor(p)
      BY <2>1, <3>1 DEF Deliver, issueLedger
    <3>3. p \in Pending
      BY DEF Pending, Inv, WorldOK
    <3>4. QED
      BY <3>2, <3>3, ClaimForExcludes
  <2>7. QED
    BY <2>2, <2>3, <2>4, <2>5, <2>6 DEF Next
<1>2. QED
  BY <1>1, InvHolds, PTL DEF Spec, ClaimsExclude

=============================================================================
