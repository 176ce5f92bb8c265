------------------------------ MODULE JobStore ------------------------------
(* The in-memory job registry of the MCP server, core/jobs/job_store.py:     *)
(* a dict of job records guarded by one lock, a thread pool that executes    *)
(* the queued runners, and a TTL cleanup that every caller runs before it    *)
(* queues or polls.  A step of this module is what the code does between     *)
(* two lock operations; the clock is read before the lock is taken, as in    *)
(* the code, so a caller may act on a reading that is old by then.           *)
(*                                                                           *)
(* A record is an object that the runner's closure holds (record.update),    *)
(* not the entry under its id: records are references here, and store maps   *)
(* a job id to the reference it names at present.                            *)
EXTENDS Naturals, Sequences, FiniteSets

CONSTANTS
  Jobs,           \* job ids
  Refs,           \* record objects: one for each accepted queue_job call
  Callers,        \* threads that call queue_job or poll
  Workers,        \* threads of the ThreadPoolExecutor
  NoRef,          \* "no record" or "no job"
  MaxEntries,     \* AISP_MCP_JOB_MAX_ENTRIES
  TTL,            \* AISP_MCP_JOB_TTL_SECONDS
  Interval,       \* AISP_MCP_JOB_CLEANUP_INTERVAL_SECONDS
  MaxTime         \* bound: the clock stops here

ASSUME JobStoreAssumption ==
  /\ NoRef \notin Refs \cup Jobs
  /\ IsFiniteSet(Jobs)
  /\ MaxEntries \in Nat \ {0}
  /\ TTL \in Nat /\ Interval \in Nat /\ MaxTime \in Nat

VARIABLES
  now,            \* time.time(), assumed not to step back
  lastCleanup,    \* _last_cleanup_ts
  store,          \* _store: job id -> reference
  rec,            \* the record objects
  workQueue,      \* the executor's FIFO of submitted runners
  worker,         \* what each pool thread executes
  caller          \* where each calling thread is in queue_job or job_status

jobVars == <<now, lastCleanup, store, rec, workQueue, worker, caller>>

Live == {"queued", "running"}
Terminal == {"completed", "error"}
Notes == {"none", "waiting", "via queue"}

Record == [job : Jobs \cup {NoRef}, status : {"unused"} \cup Live \cup Terminal,
           note : Notes, submitted : Nat, finished : Nat]
WorkerState == [pc : {"idle", "run", "finish"}, ref : Refs \cup {NoRef},
                outcome : Terminal, at : Nat]
CallerState == [pc : {"idle", "cleanup", "insert", "submit", "poll"},
                op : {"queue", "poll"}, job : Jobs \cup {NoRef}, at : Nat,
                ref : Refs \cup {NoRef}]

(* Type correctness of the registry, its pool and its callers. *)
JobTypeOK ==
  /\ now \in Nat /\ lastCleanup \in Nat
  /\ store \in [Jobs -> Refs \cup {NoRef}]
  /\ rec \in [Refs -> Record]
  /\ workQueue \in Seq(Refs)
  /\ worker \in [Workers -> WorkerState]
  /\ caller \in [Callers -> CallerState]

Entries == {j \in Jobs : store[j] # NoRef}

Unused == [job |-> NoRef, status |-> "unused", note |-> "none",
           submitted |-> 0, finished |-> 0]
IdleWorker == [pc |-> "idle", ref |-> NoRef, outcome |-> "completed", at |-> 0]
IdleCaller == [pc |-> "idle", op |-> "poll", job |-> NoRef, at |-> 0, ref |-> NoRef]

(* The store is empty and _last_cleanup_ts is 0.0, far behind the clock. *)
JobInit ==
  /\ now = Interval /\ lastCleanup = 0
  /\ store = [j \in Jobs |-> NoRef]
  /\ rec = [r \in Refs |-> Unused]
  /\ workQueue = <<>>
  /\ worker = [w \in Workers |-> IdleWorker]
  /\ caller = [c \in Callers |-> IdleCaller]

Tick ==
  /\ now < MaxTime
  /\ now' = now + 1
  /\ UNCHANGED <<lastCleanup, store, rec, workQueue, worker, caller>>

-----------------------------------------------------------------------------
(* cleanup()                                                                 *)

Due(at) == at >= lastCleanup + Interval

(* queue_job and job_status both begin with cleanup(), whose first interval  *)
(* check is made before the lock is taken.                                   *)
BeginCall(c, op, j) ==
  /\ caller[c].pc = "idle"
  /\ caller' = [caller EXCEPT ![c] =
       [pc |-> IF Due(now) THEN "cleanup"
               ELSE IF op = "queue" THEN "insert" ELSE "poll",
        op |-> op, job |-> j, at |-> now, ref |-> NoRef]]
  /\ UNCHANGED <<now, lastCleanup, store, rec, workQueue, worker>>

Done(j) == rec[store[j]].status \in Terminal
(* A plausible slip: the age is counted from submission. *)
AgedFromSubmission(j) == rec[store[j]].submitted
FinishedAt(j) == rec[store[j]].finished

(* A plausible slip: the status filter is lost. *)
ExpiredAnyStatus(at) == {j \in Entries : at > FinishedAt(j) + TTL}

Expired(at) == {j \in Entries : Done(j) /\ at > FinishedAt(j) + TTL}

(* The sets of finished entries the overflow loop may pop: the oldest ones,  *)
(* never more than it takes to be back at MaxEntries.  queue_job refuses at   *)
(* MaxEntries, so the loop finds nothing to do as long as StoreBounded holds. *)
Overflow(kept) ==
  LET finished == {j \in kept : Done(j)}
  IN {V \in SUBSET finished :
        /\ \A v \in V, u \in finished \ V : FinishedAt(v) <= FinishedAt(u)
        /\ V = {} \/ Cardinality(kept \ V) >= MaxEntries
        /\ V = finished \/ Cardinality(kept \ V) <= MaxEntries}

Evict(at) ==
  \E V \in Overflow(Entries \ Expired(at)) :
    store' = [j \in Jobs |-> IF j \in Expired(at) \cup V THEN NoRef ELSE store[j]]

(* The locked part: the interval is checked again, now against what other    *)
(* callers did meanwhile.                                                    *)
CleanupLocked(c) ==
  /\ caller[c].pc = "cleanup"
  /\ IF Due(caller[c].at)
     THEN lastCleanup' = caller[c].at /\ Evict(caller[c].at)
     ELSE UNCHANGED <<lastCleanup, store>>
  /\ caller' = [caller EXCEPT ![c].pc = IF caller[c].op = "queue" THEN "insert" ELSE "poll",
                              ![c].at = now]
  /\ UNCHANGED <<now, rec, workQueue, worker>>

-----------------------------------------------------------------------------
(* queue_job() after the cleanup                                             *)

(* A plausible slip: one entry too many. *)
RefusedLate(c) == Cardinality(Entries) > MaxEntries \/ caller[c].job \in Entries

Refused(c) == Cardinality(Entries) >= MaxEntries \/ caller[c].job \in Entries

Refuse(c) ==
  /\ caller[c].pc = "insert"
  /\ Refused(c)
  /\ caller' = [caller EXCEPT ![c] = IdleCaller]
  /\ UNCHANGED <<now, lastCleanup, store, rec, workQueue, worker>>

(* Capacity, duplicate check and insertion are one critical section. *)
Insert(c) ==
  /\ caller[c].pc = "insert"
  /\ ~Refused(c)
  /\ \E r \in Refs :
       /\ rec[r].status = "unused"
       /\ rec' = [rec EXCEPT ![r] = [job |-> caller[c].job, status |-> "queued",
                                     note |-> "none", submitted |-> caller[c].at,
                                     finished |-> 0]]
       /\ store' = [store EXCEPT ![caller[c].job] = r]
       /\ caller' = [caller EXCEPT ![c].pc = "submit", ![c].ref = r]
  /\ UNCHANGED <<now, lastCleanup, workQueue, worker>>

(* A plausible slip: the runner is never handed to the pool. *)
SubmitForgotten(c) ==
  /\ caller[c].pc = "submit"
  /\ caller' = [caller EXCEPT ![c] = IdleCaller]
  /\ UNCHANGED <<now, lastCleanup, store, rec, workQueue, worker>>

(* executor.submit, outside the lock; the caller then has its ticket. *)
Submit(c) ==
  /\ caller[c].pc = "submit"
  /\ workQueue' = Append(workQueue, caller[c].ref)
  /\ caller' = [caller EXCEPT ![c] = IdleCaller]
  /\ UNCHANGED <<now, lastCleanup, store, rec, worker>>

(* job_status after the cleanup: get_status copies the record under the lock. *)
Status(j) == IF store[j] = NoRef THEN "not_found" ELSE rec[store[j]].status

Poll(c) ==
  /\ caller[c].pc = "poll"
  /\ caller' = [caller EXCEPT ![c] = IdleCaller]
  /\ UNCHANGED <<now, lastCleanup, store, rec, workQueue, worker>>

-----------------------------------------------------------------------------
(* _runner() on a pool thread                                                *)

(* Plausible slips: an unknown status name; a runner left in the queue. *)
StartJobMisnamed(w) ==
  /\ worker[w].pc = "idle"
  /\ workQueue # <<>>
  /\ rec' = [rec EXCEPT ![Head(workQueue)].status = "started"]
  /\ worker' = [worker EXCEPT ![w].pc = "run", ![w].ref = Head(workQueue)]
  /\ workQueue' = Tail(workQueue)
  /\ UNCHANGED <<now, lastCleanup, store, caller>>

StartJobAgain(w) ==
  /\ worker[w].pc = "idle"
  /\ workQueue # <<>>
  /\ rec' = [rec EXCEPT ![Head(workQueue)].status = "running"]
  /\ worker' = [worker EXCEPT ![w].pc = "run", ![w].ref = Head(workQueue)]
  /\ UNCHANGED <<now, lastCleanup, store, workQueue, caller>>

StartJob(w) ==
  /\ worker[w].pc = "idle"
  /\ workQueue # <<>>
  /\ LET r == Head(workQueue)
     IN /\ rec' = [rec EXCEPT ![r].status = "running"]
        /\ worker' = [worker EXCEPT ![w].pc = "run", ![w].ref = r]
  /\ workQueue' = Tail(workQueue)
  /\ UNCHANGED <<now, lastCleanup, store, caller>>

(* runner() returned or raised; finished_at is read before the lock. *)
RunnerReturns(w, outcome) ==
  /\ worker[w].pc = "run"
  /\ worker' = [worker EXCEPT ![w].pc = "finish", ![w].outcome = outcome, ![w].at = now]
  /\ UNCHANGED <<now, lastCleanup, store, rec, workQueue, caller>>

FinishJob(w) ==
  /\ worker[w].pc = "finish"
  /\ rec' = [rec EXCEPT ![worker[w].ref].status = worker[w].outcome,
                        ![worker[w].ref].finished = worker[w].at]
  /\ worker' = [worker EXCEPT ![w] = IdleWorker]
  /\ UNCHANGED <<now, lastCleanup, store, workQueue, caller>>

(* update_job(): by id, and silently nothing when the id is gone.  Its only   *)
(* callers are the runners themselves, while they run.                       *)
UpdateJob(w, status, note) ==
  /\ worker[w].pc = "run"
  /\ LET own == store[rec[worker[w].ref].job]
     IN rec' = [r \in Refs |-> IF r = own
                               THEN [rec[r] EXCEPT !.status = status, !.note = note]
                               ELSE rec[r]]
  /\ UNCHANGED <<now, lastCleanup, store, workQueue, worker, caller>>

-----------------------------------------------------------------------------

JobNext ==
  \/ Tick
  \/ \E c \in Callers :
       \/ \E op \in {"queue", "poll"}, j \in Jobs : BeginCall(c, op, j)
       \/ CleanupLocked(c) \/ Refuse(c) \/ Insert(c) \/ Submit(c) \/ Poll(c)
  \/ \E w \in Workers :
       \/ StartJob(w)
       \/ \E outcome \in Terminal : RunnerReturns(w, outcome)
       \/ UpdateJob(w, "queued", "waiting") \/ UpdateJob(w, "running", "via queue")
       \/ FinishJob(w)

JobFairness ==
  /\ \A c \in Callers : WF_jobVars(Submit(c))
  /\ WF_jobVars(\E w \in Workers : StartJob(w))
  /\ \A w \in Workers :
       WF_jobVars(\E outcome \in Terminal : RunnerReturns(w, outcome)) /\ WF_jobVars(FinishJob(w))

JobSpec == JobInit /\ [][JobNext]_jobVars

FairJobSpec == JobSpec /\ JobFairness

-----------------------------------------------------------------------------
(* Properties                                                                *)

(* A job that was accepted and is not finished is in the store under its id: *)
(* no cleanup, id reuse or concurrent submission makes job_status answer     *)
(* not_found, or another job's state, for work that is still to be done.     *)
LiveJobTracked ==
  \A r \in Refs : rec[r].status \in Live => store[rec[r].job] = r

(* The store never holds more than MaxEntries records, however many callers  *)
(* pass their cleanup before any of them inserts.                            *)
StoreBounded == Cardinality(Entries) <= MaxEntries

(* A record leaves the store only after it finished, and not before TTL      *)
(* seconds have passed since: a cleanup that acts on an old clock reading    *)
(* can only be late.                                                         *)
RetentionHonoured ==
  [][\A j \in Jobs :
       store[j] # NoRef /\ store'[j] # store[j] =>
         /\ rec[store[j]].status \in Terminal
         /\ now > rec[store[j]].finished + TTL]_jobVars

(* The outcome a poll may have reported is final: no thread writes the       *)
(* status of a record that is already completed or error.                    *)
OutcomeFinal ==
  [][\A r \in Refs : rec[r].status \in Terminal => rec'[r].status = rec[r].status]_jobVars

(* The refinement of JobPromise: a record that waits, that a pool thread has *)
(* in hand, that is finished and in the store, or that was evicted.          *)
InHand(r) == \E w \in Workers : worker[w].pc # "idle" /\ worker[w].ref = r

LifeOf(r) ==
  CASE rec[r].status = "unused" -> "unborn"
    [] rec[r].status \in Live -> IF InHand(r) THEN "started" ELSE "accepted"
    [] OTHER -> IF store[rec[r].job] = r THEN "ended" ELSE "forgotten"

Life == [r \in Refs |-> LifeOf(r)]

Registry == INSTANCE JobPromise
              WITH phase <- Life, name <- [r \in Refs |-> rec[r].job],
                   ended <- [r \in Refs |-> rec[r].finished], NoName <- NoRef

(* The registry's threads, its two-step cleanup and the pool act as one      *)
(* atomic registry: ids are unique among the jobs that a poll can find,      *)
(* there is room for each accepted one, each is started once and ends once,  *)
(* and it is found until its retention is over (queue_job, cleanup, _runner). *)
JobsAsPromised == Registry!PromiseSpec

(* Every accepted job reaches a terminal status: no record stays queued or   *)
(* running because its runner was not handed to the pool or its thread was   *)
(* not given back.                                                           *)
EveryJobFinishes ==
  \A r \in Refs : rec[r].status = "queued" ~> rec[r].status \in Terminal
=============================================================================
