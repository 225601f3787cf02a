---------------------------- MODULE LedgerStore ----------------------------
(***************************************************************************)
(* GitLedgerStore: a ledger branch advanced by compare-and-swap pushes,    *)
(* and the insert-only batch append of the knowledge ledger on top of it.  *)
(* A commit names its whole first-parent history, so a commit is modelled  *)
(* as the sequence of entries from the root to it: two commits are equal   *)
(* exactly when they hold the same bytes on the same parent.               *)
(***************************************************************************)
EXTENDS Naturals, Sequences, SequencesExt, FiniteSets

CONSTANTS
  Writer,        \* jobs that append to the branch
  Batch,         \* Batch[w]: the writes of w, a sequence of [key, evidence]
  Stamp,         \* values of recorded_at an attempt may carry
  MaxFaults      \* bound: pushes lost or delayed, git commands that fail

Writes == UNION {Range(Batch[w]) : w \in Writer}

ASSUME StoreAssumption ==
  /\ MaxFaults \in Nat /\ Stamp # {}
  /\ \A w \in Writer : Batch[w] \in Seq(Writes)

VARIABLES
  head,          \* the remote branch: the chain at its head, <<>> when absent
  late,          \* pushes the server received and has not applied yet
  pc,            \* pc[w]: the next git command of w's append
  base,          \* base[w]: the chain w read and appended to (expected_head)
  stamp,         \* stamp[w]: recorded_at of w's attempt
  acked,         \* commits append_files returned
  faults         \* faults so far

vars == <<head, late, pc, base, stamp, acked, faults>>

local == <<base, stamp>>

AnyStamp == CHOOSE s \in Stamp : TRUE

Commits == {"fetch", "observe", "push", "readback"}

Init ==
  /\ head = <<>>
  /\ late = {}
  /\ pc = [w \in Writer |-> "idle"]
  /\ base = [w \in Writer |-> <<>>]
  /\ stamp = [w \in Writer |-> AnyStamp]
  /\ acked = {}
  /\ faults = 0

----------------------------------------------------------------------------
(* The knowledge ledger's view of a chain: which evidence a key holds.     *)

Records(chain, write) ==
  \E i \in DOMAIN chain : chain[i].key = write.key /\ chain[i].evidence = write.evidence

Contradicts(chain, write) ==
  \E i \in DOMAIN chain : chain[i].key = write.key /\ chain[i].evidence # write.evidence

(* The first write of the batch that is not an idempotent replay of what   *)
(* the chain holds: the earlier ones were skipped or written on it.        *)
Bug_IsNext(w, i) == i = 1 /\ i \in DOMAIN Batch[w]

IsNext(w, i) ==
  /\ i \in DOMAIN Batch[w]
  /\ ~Records(base[w], Batch[w][i])
  /\ \A j \in 1 .. (i - 1) : Records(base[w], Batch[w][j])

(* knowledge.append has no write to make: nothing is left to record, or    *)
(* the next key is already recorded with different evidence.               *)
Stopped(w) ==
  \A i \in DOMAIN Batch[w] : IsNext(w, i) => Contradicts(base[w], Batch[w][i])

(* commit-tree: the next write on the expected parent. *)
Commit(w) ==
  LET write == Batch[w][CHOOSE i \in DOMAIN Batch[w] : IsNext(w, i)]
  IN  Append(base[w], [key |-> write.key, evidence |-> write.evidence,
                       by |-> w, at |-> stamp[w]])

(* The attempt of w is over: its private git directory is gone. *)
End(w) ==
  /\ pc' = [pc EXCEPT ![w] = "idle"]
  /\ base' = [base EXCEPT ![w] = <<>>]
  /\ stamp' = [stamp EXCEPT ![w] = AnyStamp]

----------------------------------------------------------------------------
(* read_files: ls-remote, then a fetch that must return that very head.    *)

Bug_Begin(w) ==
  /\ pc[w] = "idle"
  /\ pc' = [pc EXCEPT ![w] = "observe"]
  /\ UNCHANGED <<head, late, base, stamp, acked, faults>>

Begin(w) ==
  /\ pc[w] = "idle"
  /\ base' = [base EXCEPT ![w] = head]
  /\ \E s \in Stamp : stamp' = [stamp EXCEPT ![w] = s]
  /\ pc' = [pc EXCEPT ![w] = IF head = <<>> THEN "observe" ELSE "fetch"]
  /\ UNCHANGED <<head, late, acked, faults>>

(* "ledger head moved during read; retry" ends the attempt. *)
Fetch(w) ==
  /\ pc[w] = "fetch"
  /\ IF head = base[w]
       THEN pc' = [pc EXCEPT ![w] = "observe"] /\ UNCHANGED local
       ELSE End(w)
  /\ UNCHANGED <<head, late, acked, faults>>

(* append_files returned the commit: the next write builds on it. *)
Succeed(w) ==
  /\ acked' = acked \cup {Commit(w)}
  /\ base' = [base EXCEPT ![w] = Commit(w)]
  /\ pc' = [pc EXCEPT ![w] = "observe"]
  /\ UNCHANGED stamp

Finish(w) ==
  /\ pc[w] = "observe"
  /\ Stopped(w)
  /\ End(w)
  /\ UNCHANGED <<head, late, acked, faults>>

(* append_files up to the push: a byte-identical commit already at the     *)
(* head is success.                                                        *)
Observe(w) ==
  /\ pc[w] = "observe"
  /\ ~Stopped(w)
  /\ IF head = Commit(w)
       THEN Succeed(w)
       ELSE pc' = [pc EXCEPT ![w] = "push"] /\ UNCHANGED <<local, acked>>
  /\ UNCHANGED <<head, late, faults>>

(* The server applies a push iff the branch is still where the lease says. *)
Bug_Apply(expected, commit) == head' = commit

Apply(expected, commit) == head' = IF head = expected THEN commit ELSE head

Push(w) ==
  /\ pc[w] = "push"
  /\ Apply(base[w], Commit(w))
  /\ pc' = [pc EXCEPT ![w] = "readback"]
  /\ UNCHANGED <<late, local, acked, faults>>

(* A push that git reports as failed or that times out: it never reached   *)
(* the server, or the server applies it later.  Either way the client goes *)
(* on to the read-back.                                                    *)
PushFails(w) ==
  /\ pc[w] = "push"
  /\ faults < MaxFaults
  /\ faults' = faults + 1
  /\ late' \in {late, late \cup {[expected |-> base[w], commit |-> Commit(w)]}}
  /\ pc' = [pc EXCEPT ![w] = "readback"]
  /\ UNCHANGED <<head, local, acked>>

Deliver(p) ==
  /\ p \in late
  /\ Apply(p.expected, p.commit)
  /\ late' = late \ {p}
  /\ UNCHANGED <<pc, local, acked, faults>>

(* The outcome of the push is read back from the branch, never from git's  *)
(* exit status.                                                            *)
Bug_ReadBack(w) ==
  /\ pc[w] = "readback"
  /\ Succeed(w)
  /\ UNCHANGED <<head, late, faults>>

ReadBack(w) ==
  /\ pc[w] = "readback"
  /\ IF head = Commit(w)
       THEN Succeed(w)
       ELSE End(w) /\ UNCHANGED acked
  /\ UNCHANGED <<head, late, faults>>

(* A git command other than the push fails (LedgerError), or the job is    *)
(* killed: the attempt ends, its workdir is lost, a push it made is not.   *)
Abort(w) ==
  /\ pc[w] # "idle"
  /\ faults < MaxFaults
  /\ faults' = faults + 1
  /\ End(w)
  /\ UNCHANGED <<head, late, acked>>

Step(w) ==
  Begin(w) \/ Fetch(w) \/ Finish(w) \/ Observe(w) \/ Push(w) \/ ReadBack(w)

Next ==
  \/ \E w \in Writer : Step(w) \/ PushFails(w) \/ Abort(w)
  \/ \E p \in late : Deliver(p)

(* A job that started runs on, and the scheduled workflows start it again. *)
Fairness == \A w \in Writer : WF_vars(Step(w))

Spec == Init /\ [][Next]_vars /\ Fairness

----------------------------------------------------------------------------
(* Properties.                                                             *)

Entry ==
  [key : {write.key : write \in Writes}, evidence : {write.evidence : write \in Writes},
   by : Writer, at : Stamp]

(* The chain holds entries of the batches, and so does every commit made. *)
TypeOK ==
  /\ head \in Seq(Entry)
  /\ \A p \in late : p.expected \in Seq(Entry) /\ p.commit \in Seq(Entry)
  /\ pc \in [Writer -> {"idle"} \cup Commits]
  /\ base \in [Writer -> Seq(Entry)]
  /\ stamp \in [Writer -> Stamp]
  /\ faults \in 0 .. MaxFaults

(* The ledger is forward-only: whatever is lost, late or retried, no step  *)
(* rewrites or drops a recorded entry.                                     *)
ForwardOnly == [][IsPrefix(head, head')]_vars

(* A commit append_files returned stays on the branch for ever, so what a  *)
(* control job was told is recorded is what every later reader folds.      *)
AckedIsDurable == \A c \in acked : IsPrefix(c, head)

(* "Append each write once (insert-only, idempotent)": no key is ever      *)
(* recorded twice, although lost acknowledgements, late pushes, killed     *)
(* jobs and concurrent writers make jobs repeat their batches.             *)
InsertOnly ==
  \A i, j \in DOMAIN head : head[i].key = head[j].key => i = j

Settled(w) ==
  \A i \in DOMAIN Batch[w] :
    \/ Records(head, Batch[w][i])
    \/ \E j \in 1 .. i : Contradicts(head, Batch[w][j])

(* Compare-and-swap without blind retries does not starve anyone: once     *)
(* faults stop, every writer's batch is recorded, up to a write whose key  *)
(* another writer recorded with different evidence.                        *)
EventuallySettled == <>[](\A w \in Writer : Settled(w))
=============================================================================
