---------------------- MODULE AutomationSchedulerProofs ----------------------
(***************************************************************************)
(* Proofs about the scheduler, for any jobs and any number of passes, runs *)
(* and faults.                                                             *)
(***************************************************************************)
EXTENDS AutomationScheduler, FiniteSetTheorems, TLAPS

(* All outcomes of a one-time job in the session are of one run. *)
OneOutcome ==
  \A r, s \in session :
    r.job \in Once /\ r.job = s.job /\ r.status \in Outcome /\ s.status \in Outcome
      => r.run = s.run

(* A one-time job in flight has had none: _completed_one_time looked before *)
(* the run began, and no other run executes meanwhile.                     *)
FlightIsFirst ==
  flight.run # 0 /\ flight.job \in Once =>
    \A r \in session : r.job = flight.job => r.status \notin Outcome

(* Between passes the session is what is durable, and nothing executes. *)
BetweenPasses == ~Up => session = durable /\ flight.run = 0

(* While no run of the job was cancelled, the key of a job that prevents   *)
(* overlapping is held for every execution, and there is one at a time.    *)
KeyIsKept ==
  \A j \in Job \ Overlapping :
    \/ WasCancelled(j)
    \/ /\ Executing(j) \/ j \in others => j \in locks
       /\ ~(Executing(j) /\ j \in others)

(* The inductive invariant. *)
Inv == TypeOK /\ OneOutcome /\ FlightIsFirst /\ BetweenPasses /\ KeyIsKept

----------------------------------------------------------------------------

LEMMA BoundsType == MaxPasses \in Nat /\ MaxRuns \in Nat /\ MaxFaults \in Nat
BY SchedulerAssumption

LEMMA RecType ==
  ASSUME NEW j \in Job, NEW run \in 1 .. MaxRuns, NEW status \in Status, NEW note \in Note
  PROVE  /\ Rec(j, run, status, note) \in Record
         /\ Rec(j, run, status, note).job = j
         /\ Rec(j, run, status, note).run = run
         /\ Rec(j, run, status, note).status = status
BY DEF Rec, Record

LEMMA RecordParts ==
  ASSUME NEW r \in Record
  PROVE  r.job \in Job /\ r.run \in 1 .. MaxRuns
BY BoundsType DEF Record

(* Records without an outcome change nothing of what is known of outcomes. *)
LEMMA NoOutcomeAdded ==
  ASSUME OneOutcome, NEW more, session' \subseteq session \cup more,
         \A r \in more : r.status \notin Outcome
  PROVE  OneOutcome'
BY DEF OneOutcome

(* A cancellation stays on record as long as the session only grows. *)
LEMMA CancelledStays ==
  ASSUME NEW j, WasCancelled(j), session \subseteq session'
  PROVE  WasCancelled(j)'
BY DEF WasCancelled

(* A step that touches neither executions nor keys leaves them in agreement. *)
LEMMA KeysUntouched ==
  ASSUME KeyIsKept, session \subseteq session', UNCHANGED <<flight, locks, others>>
  PROVE  KeyIsKept'
BY DEF KeyIsKept, WasCancelled, Executing, Idle

LEMMA FlightType ==
  ASSUME TypeOK
  PROVE  /\ flight.job \in Job /\ flight.cancelled \in BOOLEAN
         /\ runs \in Nat /\ flight.run \in Nat /\ flight.run <= runs /\ runs <= MaxRuns
         /\ flight = [job |-> flight.job, run |-> flight.run, cancelled |-> flight.cancelled]
<1>1. runs \in Nat /\ runs <= MaxRuns
  BY BoundsType DEF TypeOK
<1>2. QED
  BY <1>1 DEF TypeOK

LEMMA InitHolds == Init => Inv
<1> SUFFICES ASSUME Init PROVE Inv
  OBVIOUS
<1>1. NoRun.job \in Job /\ NoRun.run = 0 /\ NoRun \in [job : Job, run : {0}, cancelled : BOOLEAN]
  BY SchedulerAssumption DEF NoRun
<1>2. TypeOK
  <2>1. flight \in [job : Job, run : 0 .. runs, cancelled : BOOLEAN]
    BY <1>1 DEF Init
  <2>2. runs \in 0 .. MaxRuns /\ passes \in 0 .. MaxPasses /\ faults \in 0 .. MaxFaults
    BY BoundsType DEF Init
  <2>3. locks \subseteq Job /\ others \subseteq Job
    BY DEF Init
  <2>4. QED
    BY <2>1, <2>2, <2>3 DEF Init, TypeOK
<1>3. QED
  BY <1>1, <1>2 DEF Init, Inv, OneOutcome, FlightIsFirst, BetweenPasses, KeyIsKept, Executing, Idle, Up

LEMMA StartStep ==
  ASSUME Inv, NEW jobs \in (SUBSET Job) \ {{}}, NEW due \in SUBSET jobs, Start(jobs, due)
  PROVE  Inv'
<1>1. \A r \in Recovered(jobs) : r \in Record /\ r.status \notin Outcome
  <2> SUFFICES ASSUME NEW s \in durable,
                      NEW note \in {"recovery", "unknown job"}
               PROVE  /\ Rec(s.job, s.run, "blocked", note) \in Record
                      /\ Rec(s.job, s.run, "blocked", note).status \notin Outcome
    BY Zenon DEF Recovered
  <2>1. s.job \in Job /\ s.run \in 1 .. MaxRuns
    <3>1. s \in Record
      BY Zenon DEF Inv, TypeOK
    <3>2. QED
      BY <3>1, RecordParts, Zenon
  <2>2. "blocked" \in Status /\ note \in Note /\ "blocked" \notin Outcome
    BY DEF Status, Note, Outcome
  <2>3. Rec(s.job, s.run, "blocked", note) \in Record
    BY <2>1, <2>2, RecType, Zenon
  <2>4. Rec(s.job, s.run, "blocked", note).status \notin Outcome
    BY <2>2 DEF Rec
  <2>5. QED
    BY <2>3, <2>4, Zenon
<1>2. TypeOK'
  <2>1. durable \subseteq session' /\ session' \subseteq Record
    BY <1>1 DEF Start, Inv, TypeOK
  <2>2. todo' \subseteq known' /\ known' \subseteq Job /\ refused' \in BOOLEAN
    BY DEF Start, Inv, TypeOK
  <2>3. passes' \in 0 .. MaxPasses
    BY BoundsType DEF Start, Inv, TypeOK
  <2>4. QED
    BY <2>1, <2>2, <2>3 DEF Start, Inv, TypeOK
<1>3. session' \subseteq session \cup Recovered(jobs)
  BY DEF Start, Inv, TypeOK
<1>4. OneOutcome'
  BY <1>1, <1>3, NoOutcomeAdded DEF Inv
<1>5. FlightIsFirst'
  BY <1>1, <1>3 DEF Start, Inv, FlightIsFirst
<1>6. session \subseteq session' /\ UNCHANGED <<flight, locks, others>> /\ flight.run = 0
  BY DEF Start, Inv, BetweenPasses
<1>7. BetweenPasses'
  BY <1>6 DEF Start, Inv, BetweenPasses, Up
<1>8. KeyIsKept'
  BY <1>6, KeysUntouched DEF Inv
<1>9. QED
  BY <1>2, <1>4, <1>5, <1>7, <1>8 DEF Inv

LEMMA BeginStep ==
  ASSUME Inv, NEW j \in Job, Begin(j)
  PROVE  Inv'
<1> DEFINE run == runs + 1
           more == {Rec(j, run, "scheduled", ""), Rec(j, run, "blocked", "overlap")}
<1>1. run \in 1 .. MaxRuns /\ runs' = run /\ runs' \in 0 .. MaxRuns /\ 0 .. runs \subseteq 0 .. run
  <2>1. runs \in Nat /\ runs < MaxRuns /\ runs' = run
    BY FlightType DEF Begin, Inv
  <2>2. QED
    BY <2>1, BoundsType
<1>2. \A r \in more : r \in Record /\ r.status \notin Outcome
  <2>1. {"scheduled", "blocked"} \subseteq Status \ Outcome /\ {"", "overlap"} \subseteq Note
    BY DEF Status, Note, Outcome
  <2> HIDE DEF run
  <2>2. Rec(j, run, "scheduled", "") \in Record /\ Rec(j, run, "blocked", "overlap") \in Record
    BY <1>1, <2>1, RecType, Zenon
  <2>3. /\ Rec(j, run, "scheduled", "").status \notin Outcome
        /\ Rec(j, run, "blocked", "overlap").status \notin Outcome
    BY <2>1 DEF Rec
  <2>4. QED
    BY <2>2, <2>3, Zenon
<1> HIDE DEF run
<1>3. /\ session \subseteq session' /\ session' \subseteq session \cup more
      /\ todo' \subseteq todo
      /\ UNCHANGED <<durable, known, others, passes, faults, refused>>
  BY DEF Begin, run
<1>4. \/ UNCHANGED <<flight, locks>>
      \/ /\ ~Overlaps(j) /\ locks' = Acquired(j)
         /\ flight' = [job |-> j, run |-> run, cancelled |-> FALSE]
  BY DEF Begin, run
<1>5. TypeOK'
  <2>1. flight' \in [job : Job, run : 0 .. runs', cancelled : BOOLEAN]
    <3>1. CASE UNCHANGED flight
      BY <1>1, <3>1 DEF Inv, TypeOK
    <3>2. CASE flight' = [job |-> j, run |-> run, cancelled |-> FALSE]
      BY <1>1, <3>2
    <3>3. QED
      BY <1>4, <3>1, <3>2
  <2>2. locks' \subseteq Job
    BY <1>4 DEF Inv, TypeOK, Acquired
  <2>3. durable' \subseteq session' /\ session' \subseteq Record
    <3>1. durable' = durable /\ durable \subseteq session /\ session \subseteq Record
      BY <1>3 DEF Inv, TypeOK
    <3> HIDE DEF more
    <3>2. QED
      BY <1>2, <1>3, <3>1, Zenon
  <2>4. QED
    BY <1>1, <1>3, <2>1, <2>2, <2>3 DEF Inv, TypeOK
<1>6. OneOutcome'
  BY <1>2, <1>3, NoOutcomeAdded DEF Inv
<1>7. FlightIsFirst'
  <2>1. j \in Once => \A r \in session : r.job = j => r.status \notin Outcome
    BY DEF Begin, Completed
  <2>2. CASE UNCHANGED flight
    BY <1>2, <1>3, <2>2 DEF Inv, FlightIsFirst
  <2>3. CASE flight' = [job |-> j, run |-> run, cancelled |-> FALSE]
    BY <1>2, <1>3, <2>1, <2>3 DEF FlightIsFirst
  <2>4. QED
    BY <1>4, <2>2, <2>3
<1>8. BetweenPasses'
  BY <1>3 DEF Begin, Inv, TypeOK, BetweenPasses, Up
<1>9. KeyIsKept'
  <2>1. CASE UNCHANGED <<flight, locks>>
    BY <1>3, <2>1, KeysUntouched DEF Inv
  <2>2. CASE ~Overlaps(j) /\ locks' = Acquired(j) /\ flight' = [job |-> j, run |-> run, cancelled |-> FALSE]
    <3> SUFFICES ASSUME NEW k \in Job \ Overlapping, ~WasCancelled(k)'
                 PROVE  /\ Executing(k)' \/ k \in others' => k \in locks'
                        /\ ~(Executing(k)' /\ k \in others')
      BY DEF KeyIsKept
    <3>1. ~WasCancelled(k) /\ Idle
      BY <1>3, CancelledStays DEF Begin
    <3>2. k \in others => k \in locks
      BY <3>1 DEF Inv, KeyIsKept
    <3>3. Executing(k)' => k = j
      BY <2>2 DEF Executing
    <3>4. k = j => k \in locks' /\ k \notin others
      BY <2>2, <3>2 DEF Overlaps, Acquired
    <3>5. k \in locks => k \in locks'
      BY <2>2 DEF Acquired
    <3>6. QED
      BY <1>3, <3>2, <3>3, <3>4, <3>5
  <2>3. QED
    BY <1>4, <2>1, <2>2
<1>10. QED
  BY <1>5, <1>6, <1>7, <1>8, <1>9 DEF Inv

LEMMA CancelStep ==
  ASSUME Inv, Cancel
  PROVE  Inv'
<1> DEFINE w == Rec(flight.job, flight.run, "cancelled", "")
<1>1. flight.job \in Job /\ flight.run \in 1 .. MaxRuns
  <2>1. flight.run # 0
    BY DEF Cancel, Idle
  <2>2. QED
    BY <2>1, BoundsType, FlightType DEF Inv
<1>2. w \in Record /\ w.status \notin Outcome /\ w.job = flight.job /\ w.status = "cancelled"
  <2>1. "cancelled" \in Status \ Outcome /\ "" \in Note
    BY DEF Status, Note, Outcome
  <2>2. w \in Record
    BY <1>1, <2>1, RecType, Zenon
  <2>3. QED
    BY <2>1, <2>2 DEF Rec
<1>3. /\ flight' \in [job : Job, run : 0 .. runs, cancelled : BOOLEAN]
      /\ flight'.job = flight.job /\ flight'.run = flight.run /\ flight'.cancelled
  BY DEF Cancel, Inv, TypeOK
<1>4. faults' \in 0 .. MaxFaults
  <2>1. faults' = faults + 1 /\ faults < MaxFaults
    BY DEF Cancel
  <2>2. QED
    BY <2>1, BoundsType DEF Inv, TypeOK
<1>5. session' = session \cup {w}
  BY DEF Cancel
<1> HIDE DEF w
<1>6. TypeOK'
  BY <1>2, <1>3, <1>4, <1>5 DEF Cancel, Inv, TypeOK
<1>7. OneOutcome'
  <2>1. \A r \in {w} : r.status \notin Outcome
    BY <1>2
  <2>2. session' \subseteq session \cup {w}
    BY <1>5
  <2>3. QED
    BY <2>1, <2>2, NoOutcomeAdded, Zenon DEF Inv
<1>8. FlightIsFirst'
  BY <1>2, <1>3, <1>5 DEF Inv, FlightIsFirst
<1>9. BetweenPasses'
  BY DEF Cancel, Idle, Inv, BetweenPasses, Up
<1>10. KeyIsKept'
  <2> SUFFICES ASSUME NEW k \in Job \ Overlapping, ~WasCancelled(k)'
               PROVE  /\ Executing(k)' \/ k \in others' => k \in locks'
                      /\ ~(Executing(k)' /\ k \in others')
    BY DEF KeyIsKept
  <2>1. k # flight.job
    BY <1>2, <1>5 DEF WasCancelled
  <2>2. ~WasCancelled(k)
    BY <1>5, CancelledStays
  <2>3. Executing(k)' <=> Executing(k)
    BY <1>3, <2>1 DEF Executing, Idle
  <2>4. UNCHANGED others /\ (k \in locks' <=> k \in locks)
    BY <2>1 DEF Cancel
  <2>5. QED
    BY <2>2, <2>3, <2>4 DEF Inv, KeyIsKept
<1>11. QED
  BY <1>6, <1>7, <1>8, <1>9, <1>10 DEF Inv

LEMMA FinishStep ==
  ASSUME Inv, NEW outcome \in Outcome, Finish(outcome)
  PROVE  Inv'
<1> DEFINE w == Rec(flight.job, flight.run, outcome, "")
<1>1. flight.job \in Job /\ flight.run \in 1 .. MaxRuns
  <2>1. flight.run # 0
    BY DEF Finish, Idle
  <2>2. QED
    BY <2>1, BoundsType, FlightType DEF Inv
<1>2. w \in Record /\ w.job = flight.job /\ w.run = flight.run
  <2>1. outcome \in Status /\ "" \in Note
    BY DEF Status, Note, Outcome
  <2>2. w \in Record
    BY <1>1, <2>1, RecType, Zenon
  <2>3. QED
    BY <2>1, <2>2 DEF Rec
<1>3. session' = session \cup {w}
  BY DEF Finish
<1> HIDE DEF w
<1>4. flight' \in [job : Job, run : {0}, cancelled : BOOLEAN] /\ flight'.run = 0
  BY SchedulerAssumption DEF Finish, NoRun
<1>5. TypeOK'
  <2>1. flight' \in [job : Job, run : 0 .. runs, cancelled : BOOLEAN]
    BY <1>4, FlightType DEF Inv
  <2>2. locks' \subseteq Job /\ others' \subseteq Job
    BY DEF Finish, Inv, TypeOK
  <2>3. durable' \subseteq session' /\ session' \subseteq Record /\ todo' \subseteq known'
    BY <1>2, <1>3 DEF Finish, Inv, TypeOK
  <2>4. QED
    BY <2>1, <2>2, <2>3 DEF Finish, Inv, TypeOK
<1>6. OneOutcome'
  <2>1. flight.job \in Once => \A r \in session : r.job = flight.job => r.status \notin Outcome
    BY DEF Inv, FlightIsFirst, Finish, Idle
  <2>2. QED
    BY <1>2, <1>3, <2>1 DEF Inv, OneOutcome
<1>7. FlightIsFirst'
  BY <1>4 DEF FlightIsFirst
<1>8. BetweenPasses'
  BY <1>4 DEF Finish, Idle, Inv, BetweenPasses, Up
<1>9. KeyIsKept'
  <2> SUFFICES ASSUME NEW k \in Job \ Overlapping, ~WasCancelled(k)'
               PROVE  ~Executing(k)' /\ (k \in others' => k \in locks')
    BY DEF KeyIsKept
  <2>1. ~WasCancelled(k)
    BY <1>3, CancelledStays
  <2>2. k = flight.job => k \notin others
    BY <2>1 DEF Inv, KeyIsKept, Executing, Finish
  <2>3. k \in others => k \in locks
    BY <2>1 DEF Inv, KeyIsKept
  <2>4. QED
    BY <1>4, <2>2, <2>3 DEF Finish, Executing, Idle
<1>10. QED
  BY <1>5, <1>6, <1>7, <1>8, <1>9 DEF Inv

LEMMA EndOfPassStep ==
  ASSUME Inv, Commit \/ Die
  PROVE  Inv'
<1>1. /\ durable' \subseteq session' /\ session' \subseteq session
      /\ todo' = {} /\ known' = {} /\ UNCHANGED <<runs, passes, refused>>
  BY DEF Commit, Die, Inv, TypeOK
<1>2. /\ flight' \in [job : Job, run : 0 .. runs, cancelled : BOOLEAN]
      /\ flight'.run = 0
  <2>1. CASE Commit
    BY <2>1 DEF Commit, Idle, Inv, TypeOK
  <2>2. CASE Die
    <3>1. NoRun \in [job : Job, run : {0}, cancelled : BOOLEAN] /\ NoRun.run = 0 /\ NoRun.job \in Job
      BY SchedulerAssumption DEF NoRun
    <3>2. flight' = NoRun
      BY <2>2 DEF Die
    <3>3. QED
      BY <3>1, <3>2, FlightType DEF Inv
  <2>3. QED
    BY <2>1, <2>2
<1>3. locks' \subseteq Job /\ others' \subseteq Job /\ faults' \in 0 .. MaxFaults
  BY BoundsType DEF Commit, Die, Inv, TypeOK
<1>4. TypeOK'
  BY <1>1, <1>2, <1>3 DEF Inv, TypeOK
<1>5. OneOutcome' /\ FlightIsFirst'
  BY <1>1, <1>2 DEF Inv, OneOutcome, FlightIsFirst
<1>6. BetweenPasses'
  BY <1>2 DEF Commit, Die, BetweenPasses
<1>7. KeyIsKept'
  <2>1. CASE Commit
    BY <2>1, KeysUntouched DEF Commit, Inv
  <2>2. CASE Die
    BY <1>2, <2>2 DEF Die, KeyIsKept, Executing, Idle
  <2>3. QED
    BY <2>1, <2>2
<1>8. QED
  BY <1>4, <1>5, <1>6, <1>7 DEF Inv

(* The other runner begins only what nobody executes, unless a run of the  *)
(* job was cancelled, and its finally gives up its own key.                *)
LEMMA OtherStep ==
  ASSUME Inv, NEW j \in Job, Skip(j) \/ OtherBegins(j) \/ OtherEnds(j)
  PROVE  Inv'
<1>1. /\ UNCHANGED <<durable, session, known, flight, runs, passes, faults, refused>>
      /\ todo' \subseteq todo
      /\ locks' \subseteq Job /\ others' \subseteq Job
  BY DEF Skip, OtherBegins, OtherEnds, Acquired, Inv, TypeOK
<1>2. TypeOK'
  BY <1>1 DEF Inv, TypeOK
<1>3. OneOutcome' /\ FlightIsFirst' /\ BetweenPasses'
  BY <1>1 DEF Inv, OneOutcome, FlightIsFirst, BetweenPasses, Up
<1>4. KeyIsKept'
  <2>1. CASE Skip(j)
    BY <2>1, KeysUntouched DEF Skip, Inv
  <2>2. CASE OtherBegins(j)
    BY <1>1, <2>2 DEF OtherBegins, Overlaps, Acquired, Inv, KeyIsKept, WasCancelled, Executing, Idle
  <2>3. CASE OtherEnds(j)
    BY <1>1, <2>3 DEF OtherEnds, Inv, KeyIsKept, WasCancelled, Executing, Idle
  <2>4. QED
    BY <2>1, <2>2, <2>3
<1>5. QED
  BY <1>2, <1>3, <1>4 DEF Inv

LEMMA NextPreserves ==
  ASSUME Inv, [Next]_vars
  PROVE  Inv'
<1>1. ASSUME NEW jobs \in (SUBSET Job) \ {{}}, NEW due \in SUBSET jobs, Start(jobs, due)
      PROVE  Inv'
  BY <1>1, StartStep
<1>2. CASE UNCHANGED vars
  BY <1>2 DEF vars, Inv, TypeOK, OneOutcome, FlightIsFirst, BetweenPasses, KeyIsKept,
             Up, WasCancelled, Executing, Idle
<1>3. QED
  BY <1>1, <1>2, BeginStep, CancelStep, FinishStep, EndOfPassStep, OtherStep DEF Next

----------------------------------------------------------------------------
(* Theorems.                                                               *)

(* Every reachable state is one of the inductive invariant. *)
THEOREM InvHolds == Spec => []Inv
<1>1. Inv /\ [Next]_vars => Inv'
  BY NextPreserves
<1>2. QED
  BY <1>1, InitHolds, PTL DEF Spec

(* The session holds well-formed records, among them the durable ones, and *)
(* a pass runs only jobs it is configured with (AutomationScheduler).      *)
THEOREM TypeCorrect == Spec => []TypeOK
<1>1. Inv => TypeOK
  BY DEF Inv
<1>2. QED
  BY <1>1, InvHolds, PTL

(* A one-time job has one execution on record, over any restarts and       *)
(* configurations (_completed_one_time).                                   *)
THEOREM OnceCorrect == Spec => []OnceRunsOnce
<1>1. Inv => OnceRunsOnce
  <2> SUFFICES ASSUME Inv, NEW j \in Once
               PROVE  Cardinality(Runs(j, Outcome)) <= 1
    BY DEF OnceRunsOnce
  <2> DEFINE R == Runs(j, Outcome)
  <2>1. \A x, y \in R : x = y
    BY DEF Runs, Inv, TypeOK, OneOutcome
  <2> HIDE DEF R
  <2>2. CASE R = {}
    BY <2>2, FS_EmptySet DEF R
  <2>3. CASE R # {}
    <3>1. PICK x : R = {x}
      BY <2>1, <2>3
    <3>2. Cardinality(R) = 1
      BY <3>1, FS_Singleton
    <3>3. QED
      BY <3>2 DEF R
  <2>4. QED
    BY <2>2, <2>3
<1>2. QED
  BY <1>1, InvHolds, PTL

(* Two executions of a job that prevents overlapping are under way at once *)
(* only after one of its runs was cancelled (InProcessAutomationLock,      *)
(* run_once and its finally).                                              *)
THEOREM OverlapCorrect == Spec => []OverlapNeedsCancel
<1>1. Inv => OverlapNeedsCancel
  BY DEF Inv, TypeOK, KeyIsKept, OverlapNeedsCancel
<1>2. QED
  BY <1>1, InvHolds, PTL

=============================================================================
