------------------------------ MODULE EvalSuite ------------------------------
(* The step runner of cluster/scripts/run_cluster_eval_suite.sh: a suite      *)
(* takes the queue lock, runs its steps as child processes one after the      *)
(* other, appends a row per execution to the ledger <run_id>_suite_steps.json *)
(* and, run with --resume, skips the steps the ledger shows as completed.     *)
(* Suites here are invocations with one run id.                               *)
(*                                                                            *)
(* The lock is an flock: it belongs to the open file of the suite, which its  *)
(* children inherit, and is free again after flock -u or when the last of     *)
(* them has ended.  Bash looks at a signal when its foreground child is gone, *)
(* so a signal is a flag here, and the steps of a suite ask for it.  One      *)
(* signal per suite, and none once its exit trap runs.                        *)
EXTENDS Naturals, FiniteSets, FiniteSetsExt

CONSTANTS
  Suites,         \* invocations of the script
  Resumes,        \* those with --resume
  Diagnosed,      \* those with --health-suite: HealthStep is in their plan
  Steps,          \* steps of a plan, by their place in it
  Required,       \* the steps run by run_required_step
  HealthStep,     \* run_cluster_health_suite.sh
  AutoResume,     \* AUTO_RESUME_PARTIAL_STEPS
  MaxAttempts,    \* PARTIAL_RESUME_MAX_ATTEMPTS
  Free, Other     \* nobody, and another user of the lock

ASSUME EvalAssumption ==
  /\ Resumes \subseteq Suites /\ Diagnosed \subseteq Suites
  /\ Steps \subseteq Nat /\ IsFiniteSet(Steps)
  /\ Required \subseteq Steps /\ HealthStep \in Steps \ Required
  /\ AutoResume \in BOOLEAN /\ MaxAttempts \in Nat \ {0}
  /\ Free # Other /\ Free \notin Suites /\ Other \notin Suites

VARIABLES
  lock,           \* who holds the queue lock
  suite,          \* the shell of each suite
  child,          \* its foreground child, which may outlive it
  rows, torn,     \* the ledger, and whether its file is cut off in a write
  runs,           \* history: the executions of steps since the ledger was new
  spoiled         \* history: a write of the ledger was cut off since then

ledgerVars == <<rows, torn, runs, spoiled>>
evalVars == <<lock, suite, child, ledgerVars>>

Tries == 1..MaxAttempts
Row == [by : Suites, step : Steps, try : Tries, ok : BOOLEAN]
(* shown: a row with exit code 0 has been written for the execution. *)
Run == [by : Suites, step : Steps, try : Tries,
        end : {"running", "ok", "partial", "failed"}, shown : BOOLEAN]

Plan(s) == IF s \in Diagnosed THEN Steps ELSE Steps \ {HealthStep}
Idle == [at |-> "idle", todo |-> {}, try |-> 1, rc |-> "ok", fail |-> FALSE,
         recorded |-> TRUE, signal |-> FALSE, verdict |-> "none"]
Current(s) == Min(suite[s].todo)

(* Type correctness of suites, lock and ledger. *)
SuiteTypeOK ==
  /\ lock \in Suites \cup {Free, Other}
  /\ suite \in [Suites ->
       [at : {"idle", "ready", "running", "writing", "exiting", "noting", "over"},
        todo : SUBSET Steps, try : Tries, rc : {"ok", "partial", "failed"},
        fail : BOOLEAN, recorded : BOOLEAN, signal : BOOLEAN,
        verdict : {"none", "ok", "failed", "partial", "signal", "killed"}]]
  /\ child \in [Suites -> {"none", "step", "okRow", "failRow"}]
  /\ rows \in SUBSET Row /\ torn \in BOOLEAN
  /\ runs \in SUBSET Run /\ spoiled \in BOOLEAN

EvalInit ==
  /\ lock = Free
  /\ suite = [s \in Suites |-> Idle]
  /\ child = [s \in Suites |-> "none"]
  /\ rows = {} /\ torn = FALSE /\ runs = {} /\ spoiled = FALSE

-----------------------------------------------------------------------------
(* The lock, and the start of a suite                                         *)

(* A plausible slip: a resumed suite starts with an empty ledger, too. *)
LedgerEmptied(s) == rows' = {} /\ torn' = FALSE /\ UNCHANGED <<runs, spoiled>>

(* The ledger is kept with --resume and emptied without. *)
OpenLedger(s) ==
  IF s \in Resumes
    THEN UNCHANGED ledgerVars
    ELSE rows' = {} /\ torn' = FALSE /\ runs' = {} /\ spoiled' = FALSE

(* acquire_queue_runner_lock, at once or within its timeout. *)
Acquire(s) ==
  /\ suite[s].at = "idle" /\ lock = Free
  /\ lock' = s
  /\ suite' = [suite EXCEPT ![s].at = "ready", ![s].todo = Plan(s)]
  /\ OpenLedger(s)
  /\ UNCHANGED child

Refused(s) ==
  /\ suite[s].at = "idle" /\ lock # Free
  /\ suite' = [suite EXCEPT ![s].at = "over", ![s].verdict = "failed"]
  /\ UNCHANGED <<lock, child, ledgerVars>>

(* The MCP server and the sweep take the lock for their workloads. *)
OtherUser ==
  /\ lock \in {Free, Other}
  /\ lock' = IF lock = Free THEN Other ELSE Free
  /\ UNCHANGED <<suite, child, ledgerVars>>

-----------------------------------------------------------------------------
(* run_step                                                                   *)

Undisturbed(s, at) == suite[s].at = at /\ child[s] = "none" /\ ~suite[s].signal

(* A plausible slip: a row is enough, whatever its exit code. *)
RanBefore(k) == ~torn /\ \E r \in rows : r.step = k

(* suite_step_completed_ok: a ledger that does not parse has no rows. *)
CompletedOk(k) == ~torn /\ \E r \in rows : r.step = k /\ r.ok

(* The ledger is asked once per step, not before a retry. *)
Skips(s) == s \in Resumes /\ suite[s].try = 1 /\ CompletedOk(Current(s))

Following(s) ==
  [suite[s] EXCEPT !.at = "ready", !.todo = @ \ {Current(s)}, !.try = 1]

Skip(s) ==
  /\ Undisturbed(s, "ready") /\ suite[s].todo # {}
  /\ Skips(s)
  /\ suite' = [suite EXCEPT ![s] = Following(s)]
  /\ UNCHANGED <<lock, child, ledgerVars>>

(* A plausible slip: CURRENT_STEP_RECORDED is cleared before the loop over   *)
(* the attempts and not in it.                                                *)
BegunOnce(s) == [suite[s] EXCEPT !.at = "running", !.recorded = suite[s].try > 1]

Begun(s) == [suite[s] EXCEPT !.at = "running", !.recorded = FALSE]

StartStep(s) ==
  /\ Undisturbed(s, "ready") /\ suite[s].todo # {}
  /\ ~Skips(s)
  /\ child' = [child EXCEPT ![s] = "step"]
  /\ suite' = [suite EXCEPT ![s] = Begun(s)]
  /\ runs' = runs \cup {[by |-> s, step |-> Current(s), try |-> suite[s].try,
                         end |-> "running", shown |-> FALSE]}
  /\ UNCHANGED <<lock, rows, torn, spoiled>>

(* run_cluster_health_suite.sh takes the queue lock itself, without a look   *)
(* at AISP_CLUSTER_SUITE_QUEUE_LOCK_HELD, and fails when somebody holds it.  *)
Outcomes(k) ==
  IF k = HealthStep /\ lock # Free
    THEN {"failed"} ELSE {"ok", "partial", "failed"}

(* A plausible slip: children do not inherit the file, so the lock is free    *)
(* as soon as the shell is dead.                                              *)
LockAfterKill(s, left) == Free

(* The lock when the shell is dead and the child left is this one. *)
LockHeldBy(s, left) == IF left = "none" THEN Free ELSE s

(* A child that ends closes its copy of the file. *)
ChildGone(s) ==
  /\ child' = [child EXCEPT ![s] = "none"]
  /\ lock' = IF suite[s].at = "over" THEN LockHeldBy(s, "none") ELSE lock

(* The run r of the suite that the suite is at. *)
Present(s, r) == r.by = s /\ r.step = Current(s) /\ r.try = suite[s].try

StepEnds(s) ==
  /\ child[s] = "step"
  /\ ChildGone(s)
  /\ \E rc \in Outcomes(Current(s)) :
       /\ runs' = {IF Present(s, r) THEN [r EXCEPT !.end = rc] ELSE r : r \in runs}
       /\ suite' = [suite EXCEPT ![s].rc = rc]
  /\ UNCHANGED <<rows, torn, spoiled>>

-----------------------------------------------------------------------------
(* record_suite_step: a python child reads the ledger, opens it for writing,  *)
(* which empties it, and writes it with one more row.                         *)

(* What is read: the empty list if the file does not parse. *)
StartWrite(s, row) ==
  /\ child' = [child EXCEPT ![s] = row]
  /\ rows' = IF torn THEN {} ELSE rows
  /\ torn' = TRUE
  /\ UNCHANGED <<lock, runs, spoiled>>

Record(s) ==
  /\ Undisturbed(s, "running")
  /\ suite' = [suite EXCEPT ![s].at = "writing"]
  /\ StartWrite(s, IF suite[s].rc = "ok" THEN "okRow" ELSE "failRow")

Writer(s) == child[s] \in {"okRow", "failRow"}

EndWrite(s) ==
  /\ Writer(s)
  /\ ChildGone(s)
  /\ rows' = rows \cup {[by |-> s, step |-> Current(s), try |-> suite[s].try,
                         ok |-> child[s] = "okRow"]}
  /\ torn' = FALSE
  /\ runs' = {IF Present(s, r) /\ child[s] = "okRow"
                THEN [r EXCEPT !.shown = TRUE] ELSE r : r \in runs}
  /\ UNCHANGED <<suite, spoiled>>

(* The python child is killed: the suite goes on with a warning. *)
WriterKilled(s) ==
  /\ Writer(s)
  /\ ChildGone(s)
  /\ spoiled' = TRUE
  /\ UNCHANGED <<suite, rows, torn, runs>>

-----------------------------------------------------------------------------
(* What run_step and run_required_step make of the exit code                  *)

Exits(s, verdict) == [suite[s] EXCEPT !.at = "exiting", !.recorded = TRUE,
                                      !.verdict = verdict]

(* A plausible slip: the attempts are not counted. *)
RetryUncounted(s) == [suite[s] EXCEPT !.at = "ready", !.recorded = TRUE]

(* A plausible slip: one attempt more than the limit. *)
RetryOnceMore(s) ==
  IF suite[s].try > MaxAttempts
    THEN Exits(s, "failed")
    ELSE [suite[s] EXCEPT !.at = "ready", !.recorded = TRUE, !.try = @ + 1]

(* return 1 at the limit ends the suite, under set -e. *)
Retry(s) ==
  IF suite[s].try >= MaxAttempts
    THEN Exits(s, "failed")
    ELSE [suite[s] EXCEPT !.at = "ready", !.recorded = TRUE, !.try = @ + 1]

Judge(s) ==
  /\ Undisturbed(s, "writing")
  /\ suite' = [suite EXCEPT ![s] =
       IF suite[s].rc = "partial"
         THEN IF AutoResume THEN Retry(s) ELSE Exits(s, "partial")
         ELSE IF Current(s) \in Required /\ ~CompletedOk(Current(s))
           THEN Exits(s, "failed")
           ELSE [Following(s) EXCEPT !.recorded = TRUE,
                                     !.fail = @ \/ suite[s].rc = "failed"]]
  /\ UNCHANGED <<lock, child, ledgerVars>>

Finish(s) ==
  /\ Undisturbed(s, "ready") /\ suite[s].todo = {}
  /\ suite' = [suite EXCEPT ![s] = Exits(s, IF suite[s].fail THEN "failed" ELSE "ok")]
  /\ UNCHANGED <<lock, child, ledgerVars>>

-----------------------------------------------------------------------------
(* Signals and the exit trap                                                  *)

Started(s) == suite[s].at \in {"ready", "running", "writing"}

(* INT, TERM or HUP. *)
Signal(s) ==
  /\ Started(s) /\ ~suite[s].signal
  /\ suite' = [suite EXCEPT ![s].signal = TRUE]
  /\ UNCHANGED <<lock, child, ledgerVars>>

(* on_suite_signal, when the foreground child is gone. *)
Heed(s) ==
  /\ Started(s) /\ suite[s].signal /\ child[s] = "none"
  /\ suite' = [suite EXCEPT ![s].at = "exiting", ![s].verdict = "signal"]
  /\ UNCHANGED <<lock, child, ledgerVars>>

(* on_suite_exit: record_inflight_step, ... *)
NoteInFlight(s) ==
  /\ suite[s].at = "exiting" /\ ~suite[s].recorded
  /\ suite' = [suite EXCEPT ![s].at = "noting", ![s].recorded = TRUE]
  /\ StartWrite(s, "failRow")

(* ... then release_queue_runner_lock. *)
Release(s) ==
  /\ suite[s].at \in {"exiting", "noting"} /\ suite[s].recorded
  /\ child[s] = "none"
  /\ suite' = [suite EXCEPT ![s].at = "over"]
  /\ lock' = Free
  /\ UNCHANGED <<child, ledgerVars>>

(* SIGKILL, of the shell alone or of its child, too. *)
Kill(s) ==
  /\ suite[s].at \notin {"idle", "over"}
  /\ suite' = [suite EXCEPT ![s].at = "over", ![s].verdict = "killed"]
  /\ \E left \in {"none", child[s]} :
       /\ child' = [child EXCEPT ![s] = left]
       /\ lock' = LockHeldBy(s, left)
       /\ spoiled' = (spoiled \/ (Writer(s) /\ left = "none"))
  /\ UNCHANGED <<rows, torn, runs>>

ShellStep(s) ==
  \/ Skip(s) \/ StartStep(s) \/ Record(s) \/ Judge(s) \/ Finish(s)
  \/ Heed(s) \/ NoteInFlight(s) \/ Release(s)

ChildStep(s) == StepEnds(s) \/ EndWrite(s)

EvalNext ==
  \/ \E s \in Suites : \/ Acquire(s) \/ Refused(s)
                       \/ ShellStep(s) \/ ChildStep(s)
                       \/ Signal(s) \/ Kill(s) \/ WriterKilled(s)
  \/ OtherUser

EvalSpec == EvalInit /\ [][EvalNext]_evalVars

(* Processes are scheduled, and every step's command ends. *)
FairEvalSpec ==
  EvalSpec /\ \A s \in Suites : WF_evalVars(ShellStep(s)) /\ WF_evalVars(ChildStep(s))

-----------------------------------------------------------------------------
(* A step, or a write of the ledger, only ever runs under the queue lock,     *)
(* even when its suite has been killed: no two suites, and no suite and       *)
(* benchmark of the MCP server, overlap.                                      *)
StepsHoldLock == \A s \in Suites : child[s] # "none" => lock = s

(* A suite that exits with 0 has every step of its plan behind it: each ended *)
(* with exit code 0 since the ledger was new, in this suite or one it resumes.*)
OkMeansDone ==
  \A s \in Suites :
    suite[s].at = "exiting" /\ suite[s].verdict = "ok" =>
      \A k \in Plan(s) : \E r \in runs : r.step = k /\ r.end = "ok"

(* "completed steps (exit_code=0) are skipped" (the usage text): a resumed    *)
(* suite does not run a step again for which a row with exit code 0 was       *)
(* written, unless a write of the ledger was cut off since.                   *)
CompletedNotRerun ==
  [][\A s \in Resumes :
       /\ suite[s].at = "ready" /\ suite[s].try = 1 /\ suite'[s].at = "running"
       /\ ~spoiled
       => \A r \in runs : r.step = Current(s) => ~r.shown]_evalVars

(* A suite that ended by itself or by a signal leaves a row for each step it  *)
(* started, also for one it was interrupted in.                               *)
EveryExecutionRecorded ==
  \A s \in Suites :
    /\ suite[s].at = "over" /\ suite[s].verdict # "killed"
    /\ ~torn /\ ~spoiled
    => \A r \in runs : r.by = s =>
         \E w \in rows : w.by = s /\ w.step = r.step /\ w.try = r.try

(* A suite that holds the lock gives it back, whatever its steps, signals and *)
(* kills do: retries of a partial step end, and a killed suite holds it only  *)
(* as long as its child lives.                                                *)
LockReturned == \A s \in Suites : lock = s ~> lock # s
=============================================================================
