------------------------ MODULE AutomationScheduler ------------------------
(***************************************************************************)
(* The automation scheduler on durable repositories, wired as data_ops     *)
(* wires it: a pass opens a session, recovers what earlier passes stored,  *)
(* runs jobs one after the other and commits once at the end.  Which ones  *)
(* is run_due's choice (data_ops runs all of its own, none a one-time job).*)
(* A state of a run is a record of its own, which no later state replaces. *)
(* The configuration may change between passes, the process may die before *)
(* a pass commits, a callback may cancel the run that executes, and another *)
(* runner in the process shares the locks and executes the same jobs.      *)
(***************************************************************************)
EXTENDS Naturals, FiniteSets

CONSTANTS
  Job,       \* the jobs of configs/automation.yaml, each with one target
  Once,      \* those with a one-time schedule
  Overlapping, \* those whose concurrency_policy has prevent_overlapping = False
  MaxPasses, \* bound: passes started
  MaxRuns,   \* bound: runs created
  MaxFaults  \* bound: processes that die, runs that are cancelled

ASSUME SchedulerAssumption ==
  /\ Once \subseteq Job /\ Overlapping \subseteq Job /\ IsFiniteSet(Job) /\ Job # {}
  /\ {MaxPasses, MaxRuns, MaxFaults} \subseteq Nat

VARIABLES
  durable, \* automation-run records committed
  session, \* those and the ones this pass has added
  known,   \* the jobs this pass is configured with
  todo,    \* those it has not come to
  flight,  \* the run that executes
  locks,   \* InProcessAutomationLock: the jobs whose key is held
  others,  \* the jobs that the other runner executes
  runs,    \* run identities given
  passes,
  faults,
  refused  \* a start raised out of its recovery

vars == <<durable, session, known, todo, flight, locks, others, runs, passes, faults, refused>>

Status == {"scheduled", "blocked", "cancelled", "succeeded", "partial", "failed"}

Outcome == {"succeeded", "partial", "failed"}

Note == {"", "overlap", "recovery", "unknown job"}

(* A record's identity is the run and the state; its note is the warning,  *)
(* which the stored hash covers and the identity does not.                 *)
Rec(job, run, status, note) == [job |-> job, run |-> run, status |-> status, note |-> note]

Record == [job : Job, run : 1 .. MaxRuns, status : Status, note : Note]

Clash(old, new) ==
  \E r \in old, s \in new : r.run = s.run /\ r.status = s.status /\ r.note # s.note

NoRun == [job |-> CHOOSE j \in Job : TRUE, run |-> 0, cancelled |-> FALSE]

Idle == flight.run = 0

Up == known # {}

Init ==
  /\ durable = {} /\ session = {}
  /\ known = {} /\ todo = {}
  /\ flight = NoRun
  /\ locks = {} /\ others = {}
  /\ runs = 0 /\ passes = 0 /\ faults = 0
  /\ refused = FALSE

----------------------------------------------------------------------------
(* scheduler.start and recover, which transitions every stored "scheduled" *)
(* state, whatever its run came to; then the jobs that are enabled and due.  *)

Recovered(jobs) ==
  {Rec(r.job, r.run, "blocked", IF r.job \in jobs THEN "recovery" ELSE "unknown job") :
     r \in {s \in durable : s.status = "scheduled"}}

Bug_Start(jobs, due) ==
  /\ ~Up /\ passes < MaxPasses
  /\ passes' = passes + 1
  /\ IF Clash(durable, Recovered(jobs))
       THEN /\ refused' = TRUE
            /\ UNCHANGED <<session, known, todo>>
       ELSE /\ session' = durable \cup Recovered(jobs)
            /\ known' = due /\ todo' = jobs
            /\ UNCHANGED refused
  /\ UNCHANGED <<durable, flight, locks, others, runs, faults>>

Start(jobs, due) ==
  /\ ~Up /\ passes < MaxPasses
  /\ passes' = passes + 1
  /\ IF Clash(durable, Recovered(jobs))
       THEN /\ refused' = TRUE
            /\ UNCHANGED <<session, known, todo>>
       ELSE /\ session' = durable \cup Recovered(jobs)
            /\ known' = jobs /\ todo' = due
            /\ UNCHANGED refused
  /\ UNCHANGED <<durable, flight, locks, others, runs, faults>>

Bug_Completed(j) ==
  j \in Once /\ \E r \in session : r.job = j /\ r.status \in {"succeeded", "partial", "cancelled"}

(* _completed_one_time *)
Completed(j) ==
  j \in Once /\ \E r \in session : r.job = j /\ r.status \in Outcome \cup {"cancelled"}

Skip(j) ==
  /\ Idle /\ j \in todo /\ Completed(j)
  /\ todo' = todo \ {j}
  /\ UNCHANGED <<durable, session, known, flight, locks, others, runs, passes, faults, refused>>

(* acquire, of a job that prevents overlapping, finds its key held. *)
Overlaps(j) == j \in locks \ Overlapping

Bug_Acquired(j) == locks

(* It takes the key otherwise; a job that allows overlapping takes none.  *)
(* A job's policy is the same in every configuration.                      *)
Acquired(j) == IF j \in Overlapping THEN locks ELSE locks \cup {j}

(* run_once up to the executor's call. *)
Begin(j) ==
  LET run == runs + 1
  IN /\ Idle /\ j \in todo /\ ~Completed(j)
     /\ runs < MaxRuns
     /\ runs' = run
     /\ IF Overlaps(j)
          THEN /\ session' = session \cup
                    {Rec(j, run, "scheduled", ""), Rec(j, run, "blocked", "overlap")}
               /\ todo' = todo \ {j}
               /\ UNCHANGED <<flight, locks>>
          ELSE /\ session' = session \cup {Rec(j, run, "scheduled", "")}
               /\ locks' = Acquired(j)
               /\ flight' = [job |-> j, run |-> run, cancelled |-> FALSE]
               /\ UNCHANGED todo
     /\ UNCHANGED <<durable, known, others, passes, faults, refused>>

(* cancel_by_id while the executor runs: the lock goes, the run goes on. *)
Cancel ==
  /\ ~Idle /\ ~flight.cancelled
  /\ faults < MaxFaults
  /\ faults' = faults + 1
  /\ session' = session \cup {Rec(flight.job, flight.run, "cancelled", "")}
  /\ flight' = [flight EXCEPT !.cancelled = TRUE]
  /\ locks' = locks \ {flight.job}
  /\ UNCHANGED <<durable, known, todo, others, runs, passes, refused>>

(* The executor returns, late or not, or raises; `finally` then releases   *)
(* the key of the job if it is held, whoever acquired it.                  *)
Finish(outcome) ==
  /\ ~Idle
  /\ session' = session \cup {Rec(flight.job, flight.run, outcome, "")}
  /\ locks' = locks \ {flight.job}
  /\ todo' = todo \ {flight.job}
  /\ flight' = NoRun
  /\ UNCHANGED <<durable, known, others, runs, passes, faults, refused>>

Commit ==
  /\ Up /\ Idle /\ todo = {}
  /\ durable' = session
  /\ known' = {}
  /\ UNCHANGED <<session, todo, flight, locks, others, runs, passes, faults, refused>>

(* The process dies: the session is gone, and so is all that was in memory. *)
Die ==
  /\ Up /\ faults < MaxFaults
  /\ faults' = faults + 1
  /\ session' = durable
  /\ known' = {} /\ todo' = {}
  /\ flight' = NoRun
  /\ locks' = {} /\ others' = {}
  /\ UNCHANGED <<durable, runs, passes, refused>>

(* The other runner's run_once of the job, from its acquire to its finally; *)
(* its records are left out, and nobody cancels its runs.                   *)
OtherBegins(j) ==
  /\ j \notin others /\ ~Overlaps(j)
  /\ others' = others \cup {j}
  /\ locks' = Acquired(j)
  /\ UNCHANGED <<durable, session, known, todo, flight, runs, passes, faults, refused>>

OtherEnds(j) ==
  /\ j \in others
  /\ others' = others \ {j}
  /\ locks' = locks \ {j}
  /\ UNCHANGED <<durable, session, known, todo, flight, runs, passes, faults, refused>>

Next ==
  \/ \E jobs \in (SUBSET Job) \ {{}} : \E due \in SUBSET jobs : Start(jobs, due)
  \/ \E j \in Job : Skip(j) \/ Begin(j) \/ OtherBegins(j) \/ OtherEnds(j)
  \/ \E outcome \in Outcome : Finish(outcome)
  \/ Cancel \/ Commit \/ Die

Spec == Init /\ [][Next]_vars

----------------------------------------------------------------------------
(* Shapes, bounds, and what a pass adds to. *)
TypeOK ==
  /\ durable \subseteq session /\ session \subseteq Record
  /\ todo \subseteq known /\ known \subseteq Job
  /\ flight \in [job : Job, run : 0 .. runs, cancelled : BOOLEAN]
  /\ locks \subseteq Job /\ others \subseteq Job
  /\ runs \in 0 .. MaxRuns /\ passes \in 0 .. MaxPasses /\ faults \in 0 .. MaxFaults
  /\ refused \in BOOLEAN

Runs(j, statuses) == {r.run : r \in {s \in durable : s.job = j /\ s.status \in statuses}}

(* docs/AUTOMATION_AND_SCHEDULER.md:43: "A one-time job that has succeeded, *)
(* partially completed, failed, or been cancelled will not be executed     *)
(* again by the scheduler" - over passes, restarts and configurations, of  *)
(* the executions that are on record.                                      *)
OnceRunsOnce == \A j \in Once : Cardinality(Runs(j, Outcome)) <= 1

Executing(j) == ~Idle /\ flight.job = j

WasCancelled(j) == \E r \in session : r.job = j /\ r.status = "cancelled"

(* :73: "Overlapping execution for the same job and target is blocked      *)
(* before pipeline execution".  release asks nobody for ownership, so the  *)
(* two runners exclude each other only as long as each finally finds its   *)
(* own key: two executions of a job that prevents overlapping are never    *)
(* under way unless one of its runs was cancelled and went on, after which *)
(* later executions, none of them cancelled, may overlap too.              *)
OverlapNeedsCancel ==
  \A j \in others \ Overlapping : Executing(j) => WasCancelled(j)

(* :120: "supports durable restart recovery when repositories are          *)
(* available".  Violated: recovery blocks finished runs as well, with a    *)
(* warning that differs from an overlap's and depends on the               *)
(* configuration, and a second "blocked" state                             *)
(* of a run with another warning is an identity conflict that nothing      *)
(* catches: no later pass starts.                                          *)
RecoveryCompletes == ~refused
=============================================================================
