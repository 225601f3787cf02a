-------------------------- MODULE LedgerStoreProofs --------------------------
(***************************************************************************)
(* Proofs about the compare-and-swap store, for every set of writers,      *)
(* their batches and any number of faults: the branch only grows, what was *)
(* acknowledged stays on it, and no key is recorded twice.                 *)
(***************************************************************************)
EXTENDS LedgerStore, SequenceTheorems, TLAPS

(* A chain records each key at most once. *)
Distinct(chain) == \A i, j \in DOMAIN chain : chain[i].key = chain[j].key => i = j

(* A push extends the chain it leases by one entry with a new key. *)
Extends(parent, commit) ==
  \E e \in Entry :
    /\ commit = Append(parent, e)
    /\ \A i \in DOMAIN parent : parent[i].key # e.key

(* A writer that is about to push, or has pushed, still has a write to make *)
(* on the chain it read.                                                   *)
PushIsDue == \A w \in Writer : pc[w] \in {"push", "readback"} => ~Stopped(w)

LateExtends == \A p \in late : Extends(p.expected, p.commit)

(* The inductive invariant. *)
Inv ==
  /\ TypeOK
  /\ Distinct(head)
  /\ \A w \in Writer : Distinct(base[w])
  /\ \A p \in late : Distinct(p.expected)
  /\ LateExtends
  /\ PushIsDue
  /\ acked \subseteq Seq(Entry)
  /\ AckedIsDurable

----------------------------------------------------------------------------
(* Chains.                                                                 *)

LEMMA PrefixByElement ==
  ASSUME NEW S, NEW s \in Seq(S), NEW t \in Seq(S)
  PROVE  IsPrefix(s, t) <=> /\ Len(s) <= Len(t)
                            /\ \A i \in 1 .. Len(s) : s[i] = t[i]
<1>1. ASSUME Len(s) <= Len(t)
      PROVE  /\ SubSeq(s, 1, Len(s)) = [i \in 1 .. Len(s) |-> s[i]]
             /\ SubSeq(t, 1, Len(s)) = [i \in 1 .. Len(s) |-> t[i]]
  BY <1>1, LenProperties
<1>2. QED
  BY <1>1, LenProperties DEF IsPrefix

LEMMA PrefixReflexive ==
  ASSUME NEW S, NEW s \in Seq(S)
  PROVE  IsPrefix(s, s)
BY PrefixByElement, LenProperties

LEMMA PrefixTransitive ==
  ASSUME NEW S, NEW s \in Seq(S), NEW t \in Seq(S), NEW u \in Seq(S),
         IsPrefix(s, t), IsPrefix(t, u)
  PROVE  IsPrefix(s, u)
BY PrefixByElement, LenProperties

LEMMA PrefixOfAppend ==
  ASSUME NEW S, NEW s \in Seq(S), NEW e \in S
  PROVE  Append(s, e) \in Seq(S) /\ IsPrefix(s, Append(s, e))
<1>1. /\ Append(s, e) \in Seq(S) /\ Len(Append(s, e)) = Len(s) + 1
      /\ \A i \in 1 .. Len(s) : Append(s, e)[i] = s[i]
  BY AppendProperties
<1>2. Len(s) \in Nat /\ Len(s) <= Len(s) + 1
  BY LenProperties
<1>3. QED
  BY <1>1, <1>2, PrefixByElement

LEMMA ExtendsKeepsDistinct ==
  ASSUME NEW s \in Seq(Entry), Distinct(s), NEW t, Extends(s, t)
  PROVE  t \in Seq(Entry) /\ Distinct(t) /\ IsPrefix(s, t)
<1>1. PICK e \in Entry : t = Append(s, e) /\ \A i \in DOMAIN s : s[i].key # e.key
  BY DEF Extends
<1>2. t \in Seq(Entry) /\ IsPrefix(s, t)
  BY <1>1, PrefixOfAppend
<1>3. /\ DOMAIN t = 1 .. Len(s) + 1 /\ DOMAIN s = 1 .. Len(s) /\ Len(s) \in Nat
      /\ \A i \in 1 .. Len(s) : t[i] = s[i]
      /\ t[Len(s) + 1] = e
  BY <1>1, AppendProperties, LenProperties
<1>4. Distinct(t)
  BY <1>1, <1>3 DEF Distinct
<1>5. QED
  BY <1>2, <1>4

(* What a writer with a write to make commits: its parent and a new key. *)
LEMMA CommitExtends ==
  ASSUME TypeOK, NEW w \in Writer, ~Stopped(w)
  PROVE  Extends(base[w], Commit(w))
<1> DEFINE n == CHOOSE i \in DOMAIN Batch[w] : IsNext(w, i)
           write == Batch[w][n]
           e == [key |-> write.key, evidence |-> write.evidence, by |-> w, at |-> stamp[w]]
<1>1. PICK i \in DOMAIN Batch[w] : IsNext(w, i) /\ ~Contradicts(base[w], Batch[w][i])
  BY DEF Stopped
<1>2. n \in DOMAIN Batch[w] /\ IsNext(w, n)
  BY <1>1
<1>3. DOMAIN Batch[w] = 1 .. Len(Batch[w]) /\ Len(Batch[w]) \in Nat
  BY StoreAssumption, LenProperties
<1>4. n = i
  BY <1>1, <1>2, <1>3 DEF IsNext
<1>5. \A k \in DOMAIN base[w] : base[w][k].key # e.key
  BY <1>1, <1>2, <1>4 DEF IsNext, Records, Contradicts
<1>6. write \in Writes
  BY <1>2, <1>3, StoreAssumption, ElementOfSeq
<1>7. e \in Entry
  <2>1. stamp[w] \in Stamp
    BY DEF TypeOK
  <2>2. QED
    BY <1>6, <2>1 DEF Entry
<1>8. QED
  BY <1>5, <1>7 DEF Extends, Commit

----------------------------------------------------------------------------
(* The inductive invariant.                                                *)

(* A push that lands grows the branch by what it leased, or not at all. *)
LEMMA ApplyGrows ==
  ASSUME NEW s \in Seq(Entry), NEW t, Distinct(s), Extends(s, t),
         head \in Seq(Entry), Distinct(head), Apply(s, t)
  PROVE  head' \in Seq(Entry) /\ Distinct(head)' /\ IsPrefix(head, head')
<1>1. t \in Seq(Entry) /\ Distinct(t) /\ IsPrefix(s, t)
  BY ExtendsKeepsDistinct
<1>2. CASE head = s
  BY <1>1, <1>2 DEF Apply, Distinct
<1>3. CASE head # s
  BY <1>3, PrefixReflexive DEF Apply, Distinct
<1>4. QED
  BY <1>2, <1>3

(* What was acknowledged before a step of the branch is still on it after. *)
LEMMA AckedKept ==
  ASSUME head \in Seq(Entry), head' \in Seq(Entry), IsPrefix(head, head'),
         acked \subseteq Seq(Entry), AckedIsDurable, UNCHANGED acked
  PROVE  AckedIsDurable'
BY PrefixTransitive DEF AckedIsDurable

(* An attempt that is over has read nothing. *)
LEMMA EndPreserves ==
  ASSUME Inv, NEW w \in Writer, End(w), UNCHANGED <<head, late, acked>>,
         faults' \in 0 .. MaxFaults
  PROVE  Inv'
<1>1. AnyStamp \in Stamp
  BY StoreAssumption DEF AnyStamp
<1>2. <<>> \in Seq(Entry) /\ Distinct(<<>>)
  BY EmptySeq DEF Distinct
<1>3. /\ \A v \in Writer : base'[v] = IF v = w THEN <<>> ELSE base[v]
      /\ \A v \in Writer : pc'[v] = IF v = w THEN "idle" ELSE pc[v]
      /\ \A v \in Writer : stamp'[v] = IF v = w THEN AnyStamp ELSE stamp[v]
  BY DEF End, Inv, TypeOK
<1>4. TypeOK'
  BY <1>1, <1>2 DEF Inv, TypeOK, End
<1>5. PushIsDue'
  <2> SUFFICES ASSUME NEW v \in Writer, pc'[v] \in {"push", "readback"}
               PROVE  ~Stopped(v)'
    BY DEF PushIsDue
  <2>1. v # w /\ base'[v] = base[v] /\ pc'[v] = pc[v]
    BY <1>3
  <2>2. QED
    BY <2>1 DEF Inv, PushIsDue, Stopped, IsNext, Records, Contradicts
<1>6. Distinct(head)' /\ (\A p \in late : Distinct(p.expected))' /\ LateExtends'
  BY DEF Inv, Distinct, LateExtends, Extends
<1>7. (\A v \in Writer : Distinct(base[v]))'
  BY <1>2, <1>3 DEF Inv, Distinct
<1>8. (acked \subseteq Seq(Entry))' /\ AckedIsDurable'
  BY DEF Inv, AckedIsDurable
<1>9. QED
  BY <1>4, <1>5, <1>6, <1>7, <1>8 DEF Inv

(* A commit found at the head of the branch is acknowledged. *)
LEMMA SucceedPreserves ==
  ASSUME Inv, NEW w \in Writer, ~Stopped(w), head = Commit(w), Succeed(w),
         UNCHANGED <<head, late, faults>>
  PROVE  Inv'
<1>1. head \in Seq(Entry) /\ Distinct(head)
  BY DEF Inv, TypeOK
<1>2. /\ \A v \in Writer : base'[v] = IF v = w THEN head ELSE base[v]
      /\ \A v \in Writer : pc'[v] = IF v = w THEN "observe" ELSE pc[v]
      /\ acked' = acked \cup {head}
  BY DEF Succeed, Inv, TypeOK
<1>3. TypeOK'
  BY <1>1 DEF Inv, TypeOK, Succeed, Commits
<1>4. PushIsDue'
  <2> SUFFICES ASSUME NEW v \in Writer, pc'[v] \in {"push", "readback"}
               PROVE  ~Stopped(v)'
    BY DEF PushIsDue
  <2>1. v # w /\ base'[v] = base[v] /\ pc'[v] = pc[v]
    BY <1>2
  <2>2. QED
    BY <2>1 DEF Inv, PushIsDue, Stopped, IsNext, Records, Contradicts
<1>5. Distinct(head)' /\ (\A p \in late : Distinct(p.expected))' /\ LateExtends'
  BY DEF Inv, Distinct, LateExtends, Extends
<1>6. (\A v \in Writer : Distinct(base[v]))'
  BY <1>1, <1>2 DEF Inv, Distinct
<1>7. (acked \subseteq Seq(Entry))' /\ AckedIsDurable'
  BY <1>1, <1>2, PrefixReflexive DEF Inv, AckedIsDurable
<1>8. QED
  BY <1>3, <1>4, <1>5, <1>6, <1>7 DEF Inv

(* Steps that move no chain and acknowledge nothing. *)
LEMMA QuietPreserves ==
  ASSUME Inv, TypeOK', PushIsDue', UNCHANGED <<head, base, acked>>,
         late' = late
  PROVE  Inv'
BY DEF Inv, Distinct, LateExtends, Extends, AckedIsDurable

LEMMA BeginPreserves ==
  ASSUME Inv, NEW w \in Writer, Begin(w)
  PROVE  Inv'
<1>1. head \in Seq(Entry) /\ Distinct(head)
  BY DEF Inv, TypeOK
<1>2. /\ \A v \in Writer : base'[v] = IF v = w THEN head ELSE base[v]
      /\ \A v \in Writer : v # w => pc'[v] = pc[v]
      /\ pc'[w] \in {"observe", "fetch"}
  BY DEF Begin, Inv, TypeOK
<1>3. TypeOK'
  BY <1>1 DEF Inv, TypeOK, Begin, Commits
<1>4. PushIsDue'
  <2> SUFFICES ASSUME NEW v \in Writer, pc'[v] \in {"push", "readback"}
               PROVE  ~Stopped(v)'
    BY DEF PushIsDue
  <2>1. base'[v] = base[v] /\ pc'[v] = pc[v]
    BY <1>2
  <2>2. QED
    BY <2>1 DEF Inv, PushIsDue, Stopped, IsNext, Records, Contradicts
<1>5. (\A v \in Writer : Distinct(base[v]))'
  BY <1>1, <1>2 DEF Inv, Distinct
<1>6. QED
  BY <1>3, <1>4, <1>5 DEF Begin, Inv, Distinct, LateExtends, Extends, AckedIsDurable

LEMMA ObservePreserves ==
  ASSUME Inv, NEW w \in Writer, Observe(w)
  PROVE  Inv'
<1>1. CASE head = Commit(w)
  BY <1>1, SucceedPreserves DEF Observe
<1>2. CASE head # Commit(w)
  <2>1. /\ UNCHANGED <<base, stamp>> /\ ~Stopped(w)
        /\ pc' = [pc EXCEPT ![w] = "push"]
    BY <1>2 DEF Observe, local
  <2>2. TypeOK'
    BY <1>2, <2>1 DEF Observe, Inv, TypeOK, Commits
  <2>3. \A v \in Writer : Stopped(v)' = Stopped(v)
    BY <2>1 DEF Stopped, IsNext, Records, Contradicts
  <2>4. PushIsDue'
    BY <2>1, <2>3 DEF Inv, TypeOK, PushIsDue
  <2>5. QED
    BY <1>2, <2>1, <2>2, <2>4, QuietPreserves DEF Observe
<1>3. QED
  BY <1>1, <1>2

LEMMA PushPreserves ==
  ASSUME Inv, NEW w \in Writer, Push(w)
  PROVE  Inv' /\ IsPrefix(head, head')
<1>1. ~Stopped(w) /\ base[w] \in Seq(Entry) /\ Distinct(base[w])
  BY DEF Push, Inv, TypeOK, PushIsDue
<1>2. Extends(base[w], Commit(w))
  BY <1>1, CommitExtends DEF Inv
<1>3. head' \in Seq(Entry) /\ Distinct(head)' /\ IsPrefix(head, head')
  BY <1>1, <1>2, ApplyGrows DEF Push, Inv, TypeOK
<1>4. UNCHANGED <<late, base, stamp, acked, faults>>
      /\ pc' = [pc EXCEPT ![w] = "readback"]
  BY DEF Push, local
<1>5. TypeOK'
  BY <1>3, <1>4 DEF Inv, TypeOK, Commits
<1>6. \A v \in Writer : Stopped(v)' = Stopped(v)
  BY <1>4 DEF Stopped, IsNext, Records, Contradicts
<1>7. PushIsDue'
  BY <1>1, <1>4, <1>6 DEF Inv, TypeOK, PushIsDue
<1>8. AckedIsDurable'
  BY <1>3, <1>4, AckedKept DEF Inv, TypeOK
<1>9. QED
  BY <1>3, <1>4, <1>5, <1>7, <1>8 DEF Inv, Distinct, LateExtends, Extends

LEMMA PushFailsPreserves ==
  ASSUME Inv, NEW w \in Writer, PushFails(w)
  PROVE  Inv'
<1> DEFINE p == [expected |-> base[w], commit |-> Commit(w)]
<1>1. ~Stopped(w) /\ base[w] \in Seq(Entry) /\ Distinct(base[w])
  BY DEF PushFails, Inv, TypeOK, PushIsDue
<1>2. Extends(base[w], Commit(w))
  BY <1>1, CommitExtends DEF Inv
<1>3. Commit(w) \in Seq(Entry)
  BY <1>1, <1>2, ExtendsKeepsDistinct
<1>4. /\ UNCHANGED <<head, base, stamp, acked>> /\ late' \subseteq late \cup {p}
      /\ pc' = [pc EXCEPT ![w] = "readback"]
      /\ faults' \in 0 .. MaxFaults
  BY StoreAssumption DEF PushFails, local, Inv, TypeOK
<1>5. TypeOK'
  BY <1>1, <1>3, <1>4 DEF Inv, TypeOK, Commits
<1>6. \A v \in Writer : Stopped(v)' = Stopped(v)
  BY <1>4 DEF Stopped, IsNext, Records, Contradicts
<1>7. PushIsDue'
  BY <1>1, <1>4, <1>6 DEF Inv, TypeOK, PushIsDue
<1>8. LateExtends' /\ (\A q \in late : Distinct(q.expected))'
  <2> SUFFICES ASSUME NEW q \in late'
               PROVE  Extends(q.expected, q.commit) /\ Distinct(q.expected)
    BY DEF LateExtends, Extends, Distinct
  <2>1. CASE q \in late
    BY <2>1 DEF Inv, LateExtends
  <2>2. CASE q = p
    BY <1>1, <1>2, <2>2
  <2>3. QED
    BY <1>4, <2>1, <2>2
<1>9. QED
  BY <1>4, <1>5, <1>7, <1>8 DEF Inv, Distinct, AckedIsDurable

LEMMA DeliverPreserves ==
  ASSUME Inv, NEW p \in late, Deliver(p)
  PROVE  Inv' /\ IsPrefix(head, head')
<1>1. head' \in Seq(Entry) /\ Distinct(head)' /\ IsPrefix(head, head')
  BY ApplyGrows DEF Deliver, Inv, TypeOK, LateExtends
<1>2. UNCHANGED <<pc, base, stamp, acked, faults>> /\ late' \subseteq late
  BY DEF Deliver, local
<1>3. TypeOK'
  BY <1>1, <1>2 DEF Inv, TypeOK
<1>4. \A v \in Writer : Stopped(v)' = Stopped(v)
  BY <1>2 DEF Stopped, IsNext, Records, Contradicts
<1>5. PushIsDue'
  BY <1>2, <1>4 DEF Inv, PushIsDue
<1>6. AckedIsDurable'
  BY <1>1, <1>2, AckedKept DEF Inv, TypeOK
<1>7. QED
  BY <1>1, <1>2, <1>3, <1>5, <1>6 DEF Inv, Distinct, LateExtends, Extends

LEMMA ReadBackPreserves ==
  ASSUME Inv, NEW w \in Writer, ReadBack(w)
  PROVE  Inv'
<1>1. ~Stopped(w)
  BY DEF ReadBack, Inv, PushIsDue
<1>2. CASE head = Commit(w)
  BY <1>1, <1>2, SucceedPreserves DEF ReadBack
<1>3. CASE head # Commit(w)
  BY <1>3, EndPreserves DEF ReadBack, Inv, TypeOK
<1>4. QED
  BY <1>2, <1>3

LEMMA FetchPreserves ==
  ASSUME Inv, NEW w \in Writer, Fetch(w)
  PROVE  Inv'
<1>1. CASE head = base[w]
  <2>1. UNCHANGED <<head, late, base, stamp, acked, faults>>
        /\ pc' = [pc EXCEPT ![w] = "observe"]
    BY <1>1 DEF Fetch, local
  <2>2. TypeOK'
    BY <2>1 DEF Inv, TypeOK, Commits
  <2>3. \A v \in Writer : Stopped(v)' = Stopped(v)
    BY <2>1 DEF Stopped, IsNext, Records, Contradicts
  <2>4. PushIsDue'
    BY <2>1, <2>3 DEF Inv, TypeOK, PushIsDue
  <2>5. QED
    BY <2>1, <2>2, <2>4, QuietPreserves
<1>2. CASE head # base[w]
  BY <1>2, EndPreserves DEF Fetch, Inv, TypeOK
<1>3. QED
  BY <1>1, <1>2

(* Every step keeps the invariant and only ever extends the branch. *)
LEMMA NextPreserves ==
  ASSUME Inv, [Next]_vars
  PROVE  Inv' /\ IsPrefix(head, head')
<1>1. head' = head => IsPrefix(head, head')
  BY PrefixReflexive DEF Inv, TypeOK
<1>2. ASSUME NEW w \in Writer, Begin(w)
      PROVE  Inv' /\ head' = head
  BY <1>2, BeginPreserves DEF Begin
<1>3. ASSUME NEW w \in Writer, Fetch(w)
      PROVE  Inv' /\ head' = head
  BY <1>3, FetchPreserves DEF Fetch
<1>4. ASSUME NEW w \in Writer, Finish(w)
      PROVE  Inv' /\ head' = head
  BY <1>4, EndPreserves DEF Finish, Inv, TypeOK
<1>5. ASSUME NEW w \in Writer, Observe(w)
      PROVE  Inv' /\ head' = head
  BY <1>5, ObservePreserves DEF Observe
<1>6. ASSUME NEW w \in Writer, ReadBack(w)
      PROVE  Inv' /\ head' = head
  BY <1>6, ReadBackPreserves DEF ReadBack
<1>7. ASSUME NEW w \in Writer, PushFails(w)
      PROVE  Inv' /\ head' = head
  BY <1>7, PushFailsPreserves DEF PushFails
<1>8. ASSUME NEW w \in Writer, Abort(w)
      PROVE  Inv' /\ head' = head
  <2>1. faults' \in 0 .. MaxFaults
    BY <1>8, StoreAssumption DEF Abort, Inv, TypeOK
  <2>2. QED
    BY <1>8, <2>1, EndPreserves DEF Abort
<1>9. CASE UNCHANGED vars
  <2>1. UNCHANGED <<head, late, pc, base, stamp, acked, faults>>
    BY <1>9 DEF vars
  <2>2. TypeOK' /\ PushIsDue'
    BY <2>1 DEF Inv, TypeOK, PushIsDue, Stopped, IsNext, Records, Contradicts
  <2>3. QED
    BY <1>1, <2>1, <2>2, QuietPreserves
<1>10. QED
  BY <1>1, <1>2, <1>3, <1>4, <1>5, <1>6, <1>7, <1>8, <1>9, PushPreserves, DeliverPreserves
  DEF Next, Step

LEMMA InitHolds == Init => Inv
<1> SUFFICES ASSUME Init PROVE Inv
  OBVIOUS
<1>1. <<>> \in Seq(Entry) /\ Distinct(<<>>) /\ AnyStamp \in Stamp
  BY EmptySeq, StoreAssumption DEF Distinct, AnyStamp
<1>2. TypeOK
  BY <1>1, StoreAssumption DEF Init, TypeOK
<1>3. QED
  BY <1>1, <1>2 DEF Init, Inv, LateExtends, PushIsDue, AckedIsDurable

----------------------------------------------------------------------------
(* Theorems.                                                               *)

(* Whatever is lost, late, retried or killed, every state is one of the    *)
(* inductive invariant (GitLedgerStore.append_files, knowledge.append).    *)
THEOREM InvHolds == Spec => []Inv
<1>1. Inv /\ [Next]_vars => Inv'
  BY NextPreserves
<1>2. QED
  BY <1>1, InitHolds, PTL DEF Spec

(* The ledger holds chains of entries of the batches, and so does whatever *)
(* a job read or pushed.                                                   *)
THEOREM TypeCorrect == Spec => []TypeOK
<1>1. Inv => TypeOK
  BY DEF Inv
<1>2. QED
  BY <1>1, InvHolds, PTL

(* The ledger is forward-only: no step rewrites or drops a recorded entry, *)
(* because the server applies a push only on the head its lease names.     *)
THEOREM ForwardCorrect == Spec => ForwardOnly
<1>1. Inv /\ [Next]_vars => [IsPrefix(head, head')]_vars
  BY NextPreserves
<1>2. QED
  BY <1>1, InvHolds, PTL DEF Spec, ForwardOnly

(* A commit append_files returned stays on the branch for ever: it is      *)
(* returned only after it was read back from the branch.                   *)
THEOREM AckedCorrect == Spec => []AckedIsDurable
<1>1. Inv => AckedIsDurable
  BY DEF Inv
<1>2. QED
  BY <1>1, InvHolds, PTL

(* knowledge.append records no key twice, although jobs repeat batches     *)
(* whose acknowledgement was lost and pushes land late.                    *)
THEOREM InsertOnlyCorrect == Spec => []InsertOnly
<1>1. Inv => InsertOnly
  BY DEF Inv, Distinct, InsertOnly
<1>2. QED
  BY <1>1, InvHolds, PTL

=============================================================================
