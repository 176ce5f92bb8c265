------------------------------ MODULE E2ESweep ------------------------------
(* The end-to-end sweep of core/benchmark/e2e_sweep.py: one run that goes    *)
(* through its stages, writes a checkpoint after each step and is carried on *)
(* by another process when the first one dies, under a watcher that looks at *)
(* the files the run leaves and starts that process.                         *)
EXTENDS Integers, Sequences, SequencesExt

CONSTANTS
  Enabled,              \* the stages asked for, a duplicate fabric stage left out
  Plans,                \* [units : per bucket, its chapters and labs in order,
                        \*  twoGpus : gpu_count >= 2]
  OnPoolThread,         \* the first orchestrator is a job of the MCP server
  MaxResumes,           \* max_auto_resumes
  MaxFaults,            \* bound: deaths, signals and exceptions
  Results,              \* the results of units and stages that are looked at
  Windows               \* the short windows that faults may hit, see Harmless

Order == <<"tier1", "full_sweep", "cluster", "fabric">>
Stages == Range(Order)
Buckets == <<"single_gpu", "multi_gpu">>

ASSUME SweepAssumption ==
  /\ Enabled \subseteq Stages
  /\ \A p \in Plans : p.twoGpus \in BOOLEAN /\ \A b \in Range(Buckets) :
       /\ p.units[b] \in Seq(Range(p.units[b])) /\ IsInjective(p.units[b])
       /\ "run_start" \notin Range(p.units[b])
  /\ Results \subseteq {"succeeded", "partial", "failed"}
  /\ MaxResumes \in Nat /\ MaxFaults \in Nat
  /\ Windows \subseteq {"write", "bucket", "exit"}

(* The first orchestrator and the resumes, by their process.                 *)
Orchs == 1..(MaxResumes + 1)

VARIABLES
  plan,                 \* the frozen plan, the same for all processes
  orch,                 \* per process, its control and its copy of the run
  checkpoint,           \* what checkpoint.json held when it was last complete
  torn,                 \* it is absent or being rewritten
  published,            \* what summary.json and progress.json say
  child,                \* events of the child runs: <<bucket, index, unit>>
  stageLog,             \* the last stage_finished event of each stage
  watcher,              \* the watcher's control, reading and resume count
  faults                \* faults so far

sweepVars == <<plan, orch, checkpoint, torn, published, child, stageLog, watcher, faults>>

Verdicts == {"succeeded", "partial", "failed"}
Final == Verdicts \cup {"aborted", "skipped", "skipped_duplicate"}
Done == {"succeeded", "skipped_duplicate"}
Writing == {"truncate", "write", "publish"}
Gone == {"new", "dead", "stuck"}

FreshRun == [state |-> "running", resumable |-> FALSE, by |-> 1,
             status |-> [s \in Stages |-> IF s \in Enabled THEN "planned" ELSE "skipped"],
             attempts |-> [s \in Stages |-> <<>>]]

Idle == [at |-> "new", then |-> "new", pos |-> 1, bucket |-> 1,
         outcomes |-> {}, todo |-> <<>>, results |-> {}, run |-> FreshRun]

Dead == [Idle EXCEPT !.at = "dead"]

Unseen == [state |-> "none", by |-> 1, resumable |-> FALSE]

SweepInit ==
  /\ plan \in Plans
  /\ orch = [o \in Orchs |-> IF o = 1 THEN [Idle EXCEPT !.at = "start"] ELSE Idle]
  /\ checkpoint = FreshRun
  /\ torn = TRUE
  /\ published = Unseen
  /\ child = {}
  /\ stageLog = [s \in Stages |-> "planned"]
  /\ watcher = [at |-> "off", seen |-> Unseen, count |-> 0]
  /\ faults = 0

-----------------------------------------------------------------------------
(* Attempts and verdicts                                                     *)

NewAttempt(lane, index, status) ==
  [lane |-> lane, index |-> index, status |-> status, done |-> {}]

(* The attempts at a lane, by their place. *)
InLane(attempts, lane) == {i \in DOMAIN attempts : attempts[i].lane = lane}

(* A plausible slip: the unit of any event counts. *)
EndedByAnyEvent(a) == {e[3] : e \in {x \in child : x[1] = a.lane /\ x[2] = a.index}}

(* The units a child run has ended, read from its event file. *)
Units == UNION {Range(plan.units[b]) : b \in Range(Buckets)}
EndedBy(a) == {u \in Units : <<a.lane, a.index, u>> \in child}

(* A plausible slip: the progress of the attempt is not read. *)
AbortWithoutProgress(a) == [a EXCEPT !.status = "aborted"]

(* An attempt is aborted with the units that its child run had ended. *)
AbortAttempt(a) == [a EXCEPT !.status = "aborted", !.done = EndedBy(a)]

Settled(attempts) ==
  [i \in DOMAIN attempts |->
     IF attempts[i].status = "running" THEN AbortAttempt(attempts[i]) ELSE attempts[i]]

FirstOpen(attempts, lane) ==
  LET ended == UNION {attempts[i].done : i \in InLane(attempts, lane)}
      open == {i \in DOMAIN plan.units[lane] : plan.units[lane][i] \notin ended}
  IN  Min(open \cup {Len(plan.units[lane]) + 1})

From(lane, first) == SubSeq(plan.units[lane], first, Len(plan.units[lane]))

(* A bucket goes on at its first unit that no attempt ended. *)
Remaining(attempts, lane) == From(lane, FirstOpen(attempts, lane))

(* Child runs into an attempt, and bucket outcomes into the stage: both       *)
(* combinations of the code give this on the statuses modelled.               *)
Worst(statuses) ==
  IF "aborted" \in statuses THEN "aborted"
  ELSE IF "failed" \in statuses THEN "failed"
  ELSE IF "partial" \in statuses THEN "partial"
  ELSE "succeeded"

-----------------------------------------------------------------------------
(* Writing the state down.  The checkpoint is rewritten in place; summary,   *)
(* report, manifest and progress follow.                                     *)

(* Process o makes r its run and writes it before it goes on at label next.  *)
Saving(o, r, next) ==
  [orch[o] EXCEPT !.at = "truncate", !.then = next, !.run = r]

Truncate(o) ==
  /\ orch[o].at = "truncate"
  /\ torn' = TRUE
  /\ orch' = [orch EXCEPT ![o].at = "write"]
  /\ UNCHANGED <<plan, checkpoint, published, child, stageLog, watcher, faults>>

WriteCheckpoint(o) ==
  /\ orch[o].at = "write"
  /\ checkpoint' = orch[o].run
  /\ torn' = FALSE
  /\ orch' = [orch EXCEPT ![o].at = "publish"]
  /\ UNCHANGED <<plan, published, child, stageLog, watcher, faults>>

Publish(o) ==
  /\ orch[o].at = "publish"
  /\ published' = [state |-> orch[o].run.state, by |-> o,
                   resumable |-> orch[o].run.resumable]
  /\ orch' = [orch EXCEPT ![o] =
       IF orch[o].then = "dead" THEN Dead
       ELSE [orch[o] EXCEPT !.at = orch[o].then, !.then = "new"]]
  /\ UNCHANGED <<plan, checkpoint, torn, child, stageLog, watcher, faults>>

-----------------------------------------------------------------------------
(* Starting and resuming                                                     *)

(* os.kill(pid, 0) finds the process, which for a pool thread is the server. *)
Alive(o) == orch[o].at \notin {"new", "dead"}

Begin(o) ==
  /\ orch[o].at = "start"
  /\ orch' = [orch EXCEPT ![o] = Saving(o, orch[o].run, "arm")]
  /\ UNCHANGED <<plan, checkpoint, torn, published, child, stageLog, watcher, faults>>

(* Without a readable checkpoint a resume knows of tier1 what its last event *)
(* says, and of the full sweep the first child run of the first bucket.      *)
FirstChild == NewAttempt("single_gpu", 0, "aborted")

FirstChildSeen ==
  \E u \in Range(plan.units["single_gpu"]) \cup {"run_start"} : <<"single_gpu", 0, u>> \in child

RecoveredFrom(sweep) ==
  [FreshRun EXCEPT
     !.status = [s \in Stages |->
        CASE s = "full_sweep" /\ FirstChildSeen -> sweep.status
          [] s \in {"tier1", "full_sweep"} /\ stageLog[s] # "planned" -> stageLog[s]
          [] OTHER -> FreshRun.status[s]],
     !.attempts = [s \in Stages |->
        CASE s = "full_sweep" /\ FirstChildSeen -> <<sweep>>
          [] s = "tier1" /\ stageLog[s] # "planned" -> <<NewAttempt("tier1", 0, stageLog[s])>>
          [] OTHER -> <<>>]]

(* A plausible slip: a child run that left events is taken for a finished one. *)
RecoveredFinished ==
  RecoveredFrom([AbortAttempt(FirstChild) EXCEPT !.status = "succeeded"])

Recovered == RecoveredFrom(AbortAttempt(FirstChild))

(* A resume aborts the attempts that are still marked running.  A stage that *)
(* is marked running takes the status of its last attempt, if there was such *)
(* an attempt or the run's process is gone.                                  *)
Normalised(r, stale) ==
  LET settled(s) == Settled(r.attempts[s])
      changed(s) == settled(s) # r.attempts[s] \/ stale
  IN  [r EXCEPT
         !.attempts = [s \in Stages |-> settled(s)],
         !.status = [s \in Stages |->
            IF r.status[s] = "running" /\ changed(s) /\ settled(s) # <<>>
            THEN Last(settled(s)).status ELSE r.status[s]]]

Resume(o) ==
  /\ orch[o].at = "load"
  /\ "exit" \notin Windows => \A p \in Orchs \ {o} : orch[p].at \in Gone
  /\ LET stored == IF torn THEN Recovered ELSE checkpoint
         stale == ~torn /\ stored.state = "running" /\ ~Alive(stored.by)
     IN  orch' = [orch EXCEPT ![o] =
           Saving(o, [Normalised(stored, stale) EXCEPT
                        !.state = "running", !.resumable = FALSE, !.by = o], "arm")]
  /\ UNCHANGED <<plan, checkpoint, torn, published, child, stageLog, watcher, faults>>

(* The first process launches the watcher; those it starts are supervised.   *)
Arm(o) ==
  /\ orch[o].at = "arm"
  /\ IF o = 1
     THEN /\ orch' = [orch EXCEPT ![o] = Saving(o, orch[o].run, "signals")]
          /\ watcher' = [watcher EXCEPT !.at = "idle"]
     ELSE /\ orch' = [orch EXCEPT ![o].at = "signals"]
          /\ UNCHANGED watcher
  /\ UNCHANGED <<plan, checkpoint, torn, published, child, stageLog, faults>>

(* signal.signal raises in any thread but the main one; the exception ends   *)
(* the job, the server that ran it lives on.                                 *)
Handlers(o) ==
  /\ orch[o].at = "signals"
  /\ orch' = [orch EXCEPT ![o].at = IF OnPoolThread /\ o = 1 THEN "stuck" ELSE "next"]
  /\ UNCHANGED <<plan, checkpoint, torn, published, child, stageLog, watcher, faults>>

-----------------------------------------------------------------------------
(* Stages                                                                    *)

Stage(o) == Order[orch[o].pos]

Finishing(o, r) == [Saving(o, r, "next") EXCEPT !.pos = @ + 1]

SkipStage(o) ==
  /\ orch[o].at = "next" /\ orch[o].pos <= Len(Order)
  /\ Stage(o) \notin Enabled \/ orch[o].run.status[Stage(o)] \in Done
  /\ orch' = [orch EXCEPT ![o].pos = @ + 1]
  /\ UNCHANGED <<plan, checkpoint, torn, published, child, stageLog, watcher, faults>>

StartStage(o) ==
  /\ orch[o].at = "next" /\ orch[o].pos <= Len(Order)
  /\ Stage(o) \in Enabled /\ orch[o].run.status[Stage(o)] \notin Done
  /\ LET r == [orch[o].run EXCEPT !.status[Stage(o)] = "running"]
         next == NewAttempt(Stage(o), Len(r.attempts[Stage(o)]), "running")
     IN  orch' = [orch EXCEPT ![o] =
           IF Stage(o) = "full_sweep"
           THEN [Saving(o, r, "bucket") EXCEPT !.bucket = 1, !.outcomes = {}]
           ELSE Saving(o, [r EXCEPT !.attempts[Stage(o)] = Append(@, next)], "invoke")]
  /\ UNCHANGED <<plan, checkpoint, torn, published, child, stageLog, watcher, faults>>

(* tier1, cluster or fabric comes back with a result.                        *)
StageReturns(o, verdict) ==
  /\ orch[o].at = "invoke"
  /\ LET s == Stage(o)
         n == Len(orch[o].run.attempts[s])
     IN  /\ orch' = [orch EXCEPT ![o] = Finishing(o,
              [orch[o].run EXCEPT !.status[s] = verdict, !.attempts[s][n].status = verdict])]
         /\ stageLog' = [stageLog EXCEPT ![s] = verdict]
  /\ UNCHANGED <<plan, checkpoint, torn, published, child, watcher, faults>>

-----------------------------------------------------------------------------
(* The full sweep                                                            *)

Lane(o) == Buckets[orch[o].bucket]
Sweep(o) == orch[o].run.attempts["full_sweep"]

(* The bucket is over with this outcome, without a new attempt.              *)
Passed(o, outcomes) ==
  [orch[o] EXCEPT !.bucket = @ + 1, !.outcomes = @ \cup outcomes]

EmptyBucket(o) ==
  /\ orch[o].at = "bucket" /\ orch[o].bucket <= Len(Buckets)
  /\ plan.units[Lane(o)] = <<>>
  /\ orch' = [orch EXCEPT ![o] = Passed(o, {})]
  /\ UNCHANGED <<plan, checkpoint, torn, published, child, stageLog, watcher, faults>>

(* A plausible slip: the devices of the host are not counted. *)
NeverGated(lane) == FALSE

Gated(lane) == lane = "multi_gpu" /\ ~plan.twoGpus

(* What the host cannot run is recorded once and makes the stage partial.    *)
GatedBucket(o) ==
  /\ orch[o].at = "bucket" /\ orch[o].bucket <= Len(Buckets)
  /\ plan.units[Lane(o)] # <<>> /\ Gated(Lane(o))
  /\ LET passed == Passed(o, {"partial"})
         skipped == NewAttempt(Lane(o), 0, "skipped")
     IN  orch' = [orch EXCEPT ![o] =
           IF InLane(Sweep(o), Lane(o)) # {} THEN passed
           ELSE [passed EXCEPT !.at = "truncate", !.then = "bucket",
                               !.run.attempts["full_sweep"] = Append(@, skipped)]]
  /\ UNCHANGED <<plan, checkpoint, torn, published, child, stageLog, watcher, faults>>

(* A bucket whose units have all ended takes the status of its last attempt. *)
EndedBucket(o) ==
  /\ orch[o].at = "bucket" /\ orch[o].bucket <= Len(Buckets)
  /\ plan.units[Lane(o)] # <<>> /\ ~Gated(Lane(o))
  /\ Remaining(Sweep(o), Lane(o)) = <<>>
  /\ LET last == Sweep(o)[Max(InLane(Sweep(o), Lane(o)))].status
     IN  orch' = [orch EXCEPT ![o] =
           Passed(o, {IF last = "skipped" THEN "partial" ELSE last})]
  /\ UNCHANGED <<plan, checkpoint, torn, published, child, stageLog, watcher, faults>>

StartBucket(o) ==
  /\ orch[o].at = "bucket" /\ orch[o].bucket <= Len(Buckets)
  /\ ~Gated(Lane(o))
  /\ LET todo == Remaining(Sweep(o), Lane(o))
         attempt == NewAttempt(Lane(o), Cardinality(InLane(Sweep(o), Lane(o))), "running")
     IN  /\ todo # <<>>
         /\ orch' = [orch EXCEPT ![o] =
              [Saving(o, [orch[o].run EXCEPT
                            !.attempts["full_sweep"] = Append(@, attempt)], "lock")
                 EXCEPT !.todo = todo, !.results = {}]]
  /\ UNCHANGED <<plan, checkpoint, torn, published, child, stageLog, watcher, faults>>

(* With queue.runner.lock the child run starts its event file.               *)
StartChild(o) ==
  /\ orch[o].at = "lock"
  /\ child' = child \cup {<<Lane(o), Last(Sweep(o)).index, "run_start">>}
  /\ orch' = [orch EXCEPT ![o].at = "units"]
  /\ UNCHANGED <<plan, checkpoint, torn, published, stageLog, watcher, faults>>

(* A chapter or lab ends; its worst benchmark counts.                        *)
EndUnit(o, result) ==
  /\ orch[o].at = "units" /\ orch[o].todo # <<>>
  /\ child' = child \cup {<<Lane(o), Last(Sweep(o)).index, Head(orch[o].todo)>>}
  /\ orch' = [orch EXCEPT ![o].todo = Tail(@), ![o].results = @ \cup {result}]
  /\ UNCHANGED <<plan, checkpoint, torn, published, stageLog, watcher, faults>>

(* The child run returns: an error before its first unit, or its results,    *)
(* which count as failed when a report is missing.                           *)
BucketReturns(o, verdict) ==
  /\ orch[o].at = "units"
  /\ orch[o].todo = <<>> \/ orch[o].results = {}
  /\ \/ verdict = "failed"
     \/ orch[o].todo = <<>> /\ verdict = Worst(orch[o].results)
  /\ LET n == Len(Sweep(o))
         ended == [Sweep(o)[n] EXCEPT !.status = verdict, !.done = EndedBy(Sweep(o)[n])]
         r == [orch[o].run EXCEPT !.attempts["full_sweep"][n] = ended]
     IN  orch' = [orch EXCEPT ![o] =
           [Saving(o, r, "bucket") EXCEPT !.bucket = @ + 1,
              !.outcomes = @ \cup {verdict}, !.results = {}, !.todo = <<>>]]
  /\ UNCHANGED <<plan, checkpoint, torn, published, child, stageLog, watcher, faults>>

FinishFullSweep(o) ==
  /\ orch[o].at = "bucket" /\ orch[o].bucket > Len(Buckets)
  /\ LET verdict == IF orch[o].outcomes = {} THEN "failed" ELSE Worst(orch[o].outcomes)
     IN  /\ orch' = [orch EXCEPT ![o] =
              [Finishing(o, [orch[o].run EXCEPT !.status["full_sweep"] = verdict])
                 EXCEPT !.outcomes = {}]]
         /\ stageLog' = [stageLog EXCEPT !["full_sweep"] = verdict]
  /\ UNCHANGED <<plan, checkpoint, torn, published, child, watcher, faults>>

-----------------------------------------------------------------------------
(* The end of an orchestrator                                                *)

Complete(o) ==
  /\ orch[o].at = "next" /\ orch[o].pos > Len(Order)
  /\ orch' = [orch EXCEPT ![o] = Saving(o, [orch[o].run EXCEPT
                !.state = "completed", !.resumable = FALSE], "dead")]
  /\ UNCHANGED <<plan, checkpoint, torn, published, child, stageLog, watcher, faults>>

Label(o) == IF orch[o].at \in Writing THEN orch[o].then ELSE orch[o].at
InStage(o) == Label(o) \in {"invoke", "bucket", "lock", "units"}

(* A signal, a lock timeout or any other exception inside the try: the stage *)
(* and its running attempt are aborted, and the run can be resumed.          *)
Abort(o) ==
  /\ faults < MaxFaults
  /\ \/ InStage(o) \/ Label(o) = "next"
     \/ /\ Label(o) = "dead" /\ orch[o].at \in Writing
        /\ orch[o].run.state = "completed"
  /\ LET r == [orch[o].run EXCEPT !.state = "aborted", !.resumable = TRUE]
         s == Stage(o)
     IN  IF InStage(o)
         THEN /\ orch' = [orch EXCEPT ![o] = Saving(o,
                   [r EXCEPT !.status[s] = "aborted", !.attempts[s] = Settled(@)], "finish")]
              /\ stageLog' = [stageLog EXCEPT ![s] = "aborted"]
         ELSE /\ orch' = [orch EXCEPT ![o] = [@ EXCEPT !.at = "finish", !.run = r]]
              /\ UNCHANGED stageLog
  /\ faults' = faults + 1
  /\ UNCHANGED <<plan, checkpoint, torn, published, child, watcher>>

(* A plausible slip: the flag is cleared as for a completed run. *)
FinishUnresumable(o) ==
  /\ orch[o].at = "finish"
  /\ orch' = [orch EXCEPT ![o] =
       Saving(o, [orch[o].run EXCEPT !.resumable = FALSE], "dead")]
  /\ UNCHANGED <<plan, checkpoint, torn, published, child, stageLog, watcher, faults>>

(* The last write, after the handlers are restored. *)
Finish(o) ==
  /\ orch[o].at = "finish"
  /\ orch' = [orch EXCEPT ![o] = Saving(o, orch[o].run, "dead")]
  /\ UNCHANGED <<plan, checkpoint, torn, published, child, stageLog, watcher, faults>>

(* Between the end of a bucket and the record of what follows it, the        *)
(* checkpoint shows a stage that runs and whose last attempt succeeded.      *)
BetweenBuckets ==
  /\ ~torn /\ checkpoint.status["full_sweep"] = "running"
  /\ checkpoint.attempts["full_sweep"] # <<>>
  /\ Last(checkpoint.attempts["full_sweep"]).status = "succeeded"

(* The windows that are milliseconds wide: inside one write of the state,    *)
(* and between two buckets.  (The third, "exit", is in Resume.)              *)
Harmless(o) ==
  /\ "write" \notin Windows => ~torn /\ orch[o].at # "publish"
  /\ "bucket" \notin Windows => ~BetweenBuckets

(* SIGKILL, the out-of-memory killer, a reboot, a second signal while the    *)
(* first is handled, or the sys.exit of a child run that fails its preflight. *)
Kill(o) ==
  /\ orch[o].at \notin Gone /\ faults < MaxFaults /\ Harmless(o)
  /\ orch' = [orch EXCEPT ![o] = Dead]
  /\ faults' = faults + 1
  /\ UNCHANGED <<plan, checkpoint, torn, published, child, stageLog, watcher>>

-----------------------------------------------------------------------------
(* Status and watcher                                                        *)

(* What the status looks at: the progress file says in which state and under *)
(* which process the run is, the checkpoint, or the summary if it cannot be  *)
(* read, whether it may be resumed.                                          *)
View == [published EXCEPT !.resumable = IF torn THEN @ ELSE checkpoint.resumable]

(* A plausible slip: a run marked running is taken at its word. *)
OfferedOnAbort(view) == view.state = "aborted" /\ view.resumable

(* running_stale or aborted_resume_available *)
Offered(view) ==
  \/ view.state = "running" /\ ~Alive(view.by)
  \/ view.state = "aborted" /\ view.resumable

WatcherReads ==
  /\ watcher.at = "idle"
  /\ watcher' = [watcher EXCEPT !.at = "judge", !.seen = View]
  /\ UNCHANGED <<plan, orch, checkpoint, torn, published, child, stageLog, faults>>

(* The files were read before the process is looked for. *)
WatcherJudges ==
  /\ watcher.at = "judge"
  /\ IF Offered(watcher.seen) /\ watcher.count < MaxResumes
     THEN /\ watcher' = [watcher EXCEPT !.at = "wait", !.count = @ + 1, !.seen = Unseen]
          /\ orch' = [orch EXCEPT ![watcher.count + 2].at = "load"]
     ELSE /\ watcher' = [watcher EXCEPT !.seen = Unseen, !.at =
               IF watcher.seen.state = "completed" THEN "done"
               ELSE IF Offered(watcher.seen) THEN "exhausted" ELSE "idle"]
          /\ UNCHANGED orch
  /\ UNCHANGED <<plan, checkpoint, torn, published, child, stageLog, faults>>

WatcherReturns ==
  /\ watcher.at = "wait" /\ orch[watcher.count + 1].at = "dead"
  /\ watcher' = [watcher EXCEPT !.at = "idle"]
  /\ UNCHANGED <<plan, orch, checkpoint, torn, published, child, stageLog, faults>>

-----------------------------------------------------------------------------
OrchStep(o) ==
  \/ Truncate(o) \/ WriteCheckpoint(o) \/ Publish(o)
  \/ Begin(o) \/ Resume(o) \/ Arm(o) \/ Handlers(o)
  \/ SkipStage(o) \/ StartStage(o) \/ \E v \in Results : StageReturns(o, v)
  \/ EmptyBucket(o) \/ GatedBucket(o) \/ EndedBucket(o) \/ StartBucket(o) \/ StartChild(o)
  \/ \E v \in Results : EndUnit(o, v)
  \/ \E v \in Verdicts : BucketReturns(o, v)
  \/ FinishFullSweep(o) \/ Complete(o) \/ Finish(o)

WatcherStep == WatcherReads \/ WatcherJudges \/ WatcherReturns

SweepNext ==
  \/ \E o \in Orchs : OrchStep(o) \/ Abort(o) \/ Kill(o)
  \/ WatcherStep

SweepSpec == SweepInit /\ [][SweepNext]_sweepVars

(* Child runs have timeouts and every process makes progress.                *)
FairSweepSpec ==
  SweepSpec /\ WF_sweepVars(WatcherStep) /\ \A o \in Orchs : WF_sweepVars(OrchStep(o))

-----------------------------------------------------------------------------
(* Properties                                                                *)

Attempts == [lane : Stages \cup Range(Buckets), index : Nat, status : Final \cup {"running"},
             done : SUBSET Units]

Runs == [state : {"running", "completed", "aborted"}, resumable : BOOLEAN, by : Orchs,
         status : [Stages -> Final \cup {"planned", "running"}],
         attempts : [Stages -> Seq(Attempts)]]

Labels == {"start", "load", "arm", "signals", "next", "invoke", "bucket", "lock", "units",
           "finish"} \cup Writing \cup Gone

Controls == [at : Labels, then : Labels, pos : Nat \ {0}, bucket : Nat \ {0},
             outcomes : SUBSET (Final \cup {"running"}), todo : Seq(Units),
             results : SUBSET Results, run : Runs]

Views == [state : {"none", "running", "completed", "aborted"}, by : Orchs, resumable : BOOLEAN]

(* Type invariant of the variables of run_benchmark_e2e_sweep and its files. *)
SweepTypeOK ==
  /\ plan \in Plans
  /\ orch \in [Orchs -> Controls]
  /\ checkpoint \in Runs /\ torn \in BOOLEAN
  /\ published \in Views
  /\ stageLog \in [Stages -> Final \cup {"planned"}]
  /\ watcher \in [at : {"off", "idle", "judge", "wait", "done", "exhausted"}, seen : Views,
                  count : 0..MaxResumes]
  /\ faults \in 0..MaxFaults

AllGone == \A o \in Orchs : orch[o].at \in {"new", "dead"}

(* Some child run has ended unit u of bucket b; all of them.                 *)
Ran(b, u) == \E e \in child : e[1] = b /\ e[3] = u
Covered(b) == \A u \in Range(plan.units[b]) : Ran(b, u)

(* A completed run reports its full sweep as succeeded or partial only when  *)
(* every unit of every bucket was run to its end by some child run, or, for  *)
(* work that the host cannot run, as partial: kills, aborts and resumes never *)
(* make a verdict that covers more than was measured (_finish_stage).        *)
VerdictCoversPlan ==
  ~torn /\ checkpoint.state = "completed" =>
    \A b \in Range(Buckets) :
      \/ checkpoint.status["full_sweep"] \notin {"succeeded", "partial"}
      \/ Covered(b)
      \/ Gated(b) /\ checkpoint.status["full_sweep"] = "partial"

(* A unit that some child run ended is not run again by a resume: no death   *)
(* loses what the event files say (_mark_attempt_aborted and                 *)
(* _remaining_units_after_completed_units).                                  *)
EndedUnitsNotRerun ==
  [][\A e \in child' \ child : e[3] # "run_start" =>
       \A f \in child : f[1] = e[1] => f[3] # e[3]]_sweepVars

(* The refinement of SweepPromise: what the event files say was run, and     *)
(* what a readable checkpoint of a completed run says of its full sweep.     *)
EndedUnits ==
  [b \in Range(Buckets) |-> {<<e[2], e[3]>> : e \in {x \in child : x[1] = b /\ x[3] # "run_start"}}]

Verdict ==
  IF ~torn /\ checkpoint.state = "completed" THEN checkpoint.status["full_sweep"] ELSE "none"

Promise == INSTANCE SweepPromise
             WITH Lanes <- Range(Buckets), runs <- EndedUnits, verdict <- Verdict

(* The orchestrators, their files and their watcher keep the promise of a    *)
(* sweep: units run once and in order, never beside a verdict that stands,   *)
(* and a verdict that all the child runs together have earned                *)
(* (run_benchmark_e2e_sweep, _run_full_sweep_stage).                         *)
SweepKeepsPromise == Promise!PromiseSpec

(* When nobody works on a run that has begun and is not completed, its       *)
(* status offers to resume it (inspect_benchmark_e2e_sweep_run).             *)
ResumeOffered ==
  AllGone /\ published.state \notin {"none", "completed"} => Offered(View)

(* A run whose status says that a live process runs it has a process that    *)
(* works on it (running_live in inspect_benchmark_e2e_sweep_run).            *)
RunningHasRunner ==
  published.state = "running" /\ Alive(published.by) =>
    \E o \in Orchs : orch[o].at \notin Gone

(* Under a watcher a run completes at last, if it does not fail more often   *)
(* than the watcher may resume it.  (The watcher may take up a run again that *)
(* completed while it was looking, so nothing is said of the time after.)    *)
SupervisedRunCompletes ==
  MaxFaults <= MaxResumes /\ <>(watcher.at # "off") => <>(published.state = "completed")
=============================================================================
