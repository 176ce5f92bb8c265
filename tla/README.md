# Formal models of the AI performance engineering harness

TLA+ models of the parts of this repository that are concurrent or have to
survive a failure: the job registry of the MCP server, the queue that runs one
benchmark or profile at a time on a host, the asynchronous tool calls that
put the two together, the end-to-end sweep with its checkpoint, resumes and
watcher, the MCP client with the server process it talks to, the cluster
evaluation suite with its ledger and lock, and the three-stage asyncio pipeline
of the concurrency labs. TLC checks the models on small instances, TLAPS proves
the most important properties for every value of their constants.

Paths below are relative to `src/code/`. Line numbers are those of the commit
the models were written from; `PROJECT.json` maps every definition to its lines.

## 1. Inventory of the system

The repository is a book's worth of GPU benchmarks (`ch01` to `ch20`, `labs`)
and the machinery that runs, compares and serves them. The machinery:

| component | state it keeps | operations | interacts with |
|---|---|---|---|
| job registry, `core/jobs/job_store.py` | dict of records, last cleanup time, thread pool | `queue_job`, `cleanup`, `_runner`, `update_job`, `get_status`, `list_jobs` | called by every asynchronous MCP tool and the e2e handler |
| queue runner, `mcp/mcp_server.py` 1605-2117 | `_QUEUE_LOCK` per server, flock on `artifacts/parallel_runs/queue.runner.lock` per host, retry counter, overlap event | `_run_with_queue`, `_queue_runner_lock`, `_wait_for_idle`, `_monitor_overlap` | other servers (flock, ps), sweeps (flock, ps), benchmarks started by hand (ps), job registry (`update_job`) |
| asynchronous tools and `job_status`, `mcp/mcp_server.py` 1579-1603, 2728-3018, 10550-10660 | run id, run directory, progress file | `run_benchmarks(async)`, `job_status` | job registry, queue runner, progress recorder |
| e2e sweep, `core/benchmark/e2e_sweep.py` | checkpoint, summary, attempts per stage and bucket, watcher status | `run_benchmark_e2e_sweep`, resume, inspect, watcher, launch | queue lock, benchmark runner (event files), cluster scripts, job registry |
| MCP stdio transport, `mcp/mcp_server.py` 11150-11491 | the id of the line at hand | read, dispatch, answer, one line at a time | MCP client (pipes), every tool |
| MCP client, `mcp/mcp_client.py` | next id, pending requests with their futures, response queue, server process, three threads per session | `_send_request`, `start`, `stop`, reader, handler and cleanup loops | stdio transport; its callers' threads |
| benchmark runner, `core/harness/run_benchmarks.py`, `core/benchmark/bench_commands.py` | results of one run | `bench run` | payload of the queue |
| benchmark harness, `core/harness/benchmark_harness.py`, `isolated_runner.py` | one measurement | subprocess isolation, timing | benchmark runner |
| run ids, progress, manifest, expectations, quarantine (`core/benchmark`, `core/harness/progress.py`) | files of one run | read, write | benchmark runner, `job_status`, sweep |
| cluster evaluation suite, `cluster/scripts/run_cluster_eval_suite.sh` | flock on the same `queue.runner.lock`, ledger `<run_id>_suite_steps.json`, the step in flight | `run_step`, `run_required_step`, resume, signal and exit traps | its steps (child processes, the health suite among them), MCP server and sweep (flock) |
| labs/python_concurrency, `all_in_one_pipeline.py` and shorter runners | key sets, three bounded queues, results, stop event | producer, stage workers A, B and C, `run_pipeline` | none |
| API, CLI, dashboard | none of their own | forwarding | all of the above |

What is hard here, and so what the properties are for (`PROJECT.json`,
`hazards`, has each at its line):

* clocks and snapshots that are read before a lock is taken and used under it;
* two locks of different scope, seven ways out of the call that holds both, and
  servers that are killed while their payload process goes on;
* a host-wide exclusion that rests half on a flock and half on what `ps` shows;
* a wait for an idle host while holding the lock that the busy process waits for;
* a status that three parties write (pool thread, queue runner, progress file)
  and one function combines from readings of different moments;
* a sweep that must survive its own death: a checkpoint, a progress file and the
  event files of child runs, written at different moments and read together by
  a resume and by a watcher;
* a client whose threads survive the session they belong to, with one table of
  requests and one response queue for all sessions;
* a shell script that is killed or signalled between a step, its ledger row and
  the flag that says the row is written, with a lock its children inherit;
* cancellation at a deadline, which hits every task of a pipeline wherever it
  is, with ownership of keys to give back.

What makes each component correct:

* **job registry**: an accepted job stays findable until it is finished and its
  retention is over; the store is bounded; an outcome is final; every accepted
  job ends.
* **queue runner**: payloads run alone; locks are released on every path;
  retries are bounded; every request is answered; nobody is refused without a
  benchmark that runs.
* **asynchronous tools**: what a client is told agrees with what happened and
  never goes back.
* **e2e sweep**: no bucket is run twice or lost over a crash and a resume; the
  final status covers every attempt; a status that says running has a process.
* **client and stdio transport**: a caller gets the answer to its own request or
  an error; no request stays registered; what reached a server is answered.
* **evaluation suite**: steps run under the queue lock; every execution leaves a
  row; a resume repeats nothing that is completed and its verdict is earned; the
  lock comes back.
* **pipeline**: each row gets one status, each key is applied once, a key is
  free when nobody works on it, and the run returns.

## 2. Modules

```
SerialQueue          what the queue promises (abstract)
   ^ refinement
QueueRunner          mcp_server.py: _run_with_queue and its neighbours
   ^ EXTENDS              ^ EXTENDS
QueueRunnerProofs    McpJobs = JobStore + QueueRunner + job_status
                          v EXTENDS        (McpJobsProofs EXTENDS all three
JobStoreProofs  -->  JobStore        core/jobs/job_store.py     and both parts' proofs)
                          v refinement
                     JobPromise      what the registry promises (abstract)

SweepPromise         what a sweep promises of its full sweep (abstract)
   ^ refinement
E2ESweep  <--  E2ESweepProofs        core/benchmark/e2e_sweep.py

DedupePromise        what an idempotent runner promises (abstract)
   ^ refinement          ^ EXTENDS
AllInOne             DedupePromiseProofs
   ^ EXTENDS             labs/python_concurrency/all_in_one_pipeline.py
AllInOneProofs

RequestPromise       what client and server promise (abstract)
   ^ refinement
McpServed  <--  McpStdioProofs
   ^ history of what the servers took up
McpStdio             mcp/mcp_client.py and run_stdio

EvalSuite <--  EvalSuiteProofs       cluster/scripts/run_cluster_eval_suite.sh
```

The modules `MC...` give the constants their values.

### JobStore

One action per critical section of `_lock`, and one for what a thread reads
before it.

| code | model |
|---|---|
| `_store`, record dicts | `store` (id to record object), `rec` (the objects). The closure of `_runner` holds the object, `update_job` looks it up by id; the model keeps the two apart |
| `_last_cleanup_ts`, `time.time()` | `lastCleanup`, `now` (does not step back, stops at `MaxTime`) |
| `ThreadPoolExecutor` | `workQueue` (FIFO), `worker` (what each thread executes) |
| a call of `queue_job` or `job_status` | `caller`: `BeginCall` reads the clock and makes the first interval check, `CleanupLocked` is the locked part, then `Refuse`, `Insert` and `Submit`, or `Poll` |
| `_runner` | `StartJob`, `RunnerReturns` (reads `finished_at`), `FinishJob` |
| `update_job` | `UpdateJob`, called by the runner that executes |

The age test keeps the code's strictness (`>`); the overflow loop removes the
oldest finished records, ties in any order, never more than needed. The store
starts with `lastCleanup` a whole interval behind, as 0.0 is behind the epoch.

### JobPromise

The promise, without locks, clock readings, a cleanup or a pool: a job is accepted under
an id that no known job has and while there is room, it is started once and ends once,
and it is forgotten only when it ended and its retention is over. `Life` maps a record to it by its
status, its entry and the pool thread that has it in hand (`InHand`): `Insert` is
`Accept`, `StartJob` is `Start`, `FinishJob` is `End`, a cleanup that evicts is `Forget`; a
first interval check, a refusal, a submit, a poll and a note change nothing.

### QueueRunner

One request is one call of `_run_with_queue` with its own program counter:

    idle -> queue -> flock -> gate -> ready -> running -> settle -> release -> unlock -> done
                       |        |               |           |  ^
                       |        +--> release    +-> release |  +-- back to gate (overlap retry)
                       +--> unlock (timeout, no lock file)  +-> release

| code | model |
|---|---|
| `_QUEUE_LOCK`, the flock | `queueLock[server]`, `runnerLock` |
| `_snapshot_processes`, `_active_run_processes`, descendants of the server ignored | `Visible(s)`: other servers' payloads, orphaned payloads, sweeps from start to end, foreign benchmarks |
| `_wait_for_idle` | `IdleGate`: one round of the loop; `PsFails` lets it open without looking |
| `_monitor_overlap` | `MonitorSees`: any number of snapshots, none included, the last one possibly after the payload ended |
| exit code of the payload, exceptions | `PayloadEnds`, `PayloadRaises` |
| verdict and retry counter | `Settle` |
| `kill -9` of a server | `CrashServer`: threads and locks go, payload stays (`orphans`, or `hidden` if `Leftovers` and the filter does not recognise what stays) |
| `_benchmark_queue_lock` of e2e sweeps | `SweepStarts`, `SweepPollsLock`, `SweepEndsStage`, `SweepExits` |

Timeouts are choices that are enabled while the code would still wait: the model
has no duration, so a timeout may come at any time, and `LockTimeout` and
`IdleTimeout` say whether it is configured. The queue's script and log files are
left out; nothing reads them back.

### SerialQueue

The promise, without servers, locks, gates or retries: a request is admitted
alone, launches only while it is admitted and no payload is alive, and launches
nothing after its answer or its server's death.

### McpJobs

`JobStore` and `QueueRunner` side by side; a record and the request that
executes it share a name. `EnterQueue` and `ContinueRequest` carry the record
updates that `_run_with_queue` makes (`queued` before the locks, `running` after
them), `WriteProgress` the progress file of a payload that runs, `CopyRecord` and
`ReportStatus` the two readings of `job_status`, `FreshRunId` the choice of a
run id. A client may pass a run id of its own (`GivenIds`), which `CallRunBenchmarks` takes
as it is; `OtherIds` are the run ids of other programs, an earlier server, the command line or a
second server, whose files appear before the first call or at any later time (`OtherRun`). A run id
stands for its run directory, and the directory appears with its progress file. Assumed: nobody
deletes a run directory while the server lives.
The composition has one server and no server death: the registry is in
memory and dies with it.

### E2ESweep

One run: the process that starts it, those that resume it, the files between
them and the watcher that starts the resumes.

| code | model |
|---|---|
| the local variables of `run_benchmark_e2e_sweep` | `orch[o]`: where the process is (`at`), its copy of the run (`run`: run state, stage statuses, attempts, pid) and the loops' variables |
| `checkpoint.json`; absent or half written | `checkpoint`; `torn` |
| `summary.json`, `progress.json` | `published` (written right after the checkpoint, in one step) |
| event files of the child runs, `chapter_end` | `child`, a set of (bucket, attempt index, unit) |
| `stage_finished` in `events.jsonl` | `stageLog` |
| `_persist_state` | `Truncate`, `WriteCheckpoint`, `Publish`; `Saving` says where the process goes on |
| start, resume | `Begin`, `Resume` with `Normalised` (stale attempts) and `Recovered` (no readable checkpoint), `Arm`, `Handlers` |
| `_start_stage`, `_finish_stage`, tier1, cluster, fabric | `SkipStage`, `StartStage`, `StageReturns` |
| the bucket loop | `EmptyBucket`, `GatedBucket`, `EndedBucket`, `StartBucket`, `StartChild`, `EndUnit`, `BucketReturns`, `FinishFullSweep` |
| end of the run | `Complete`; `Abort` (any exception or signal inside the `try`), then `Finish` |
| SIGKILL, out of memory, a second signal, `sys.exit` of a child's preflight | `Kill` |
| `inspect_benchmark_e2e_sweep_run` | `View`, `Offered`, `Alive` |
| `watch_benchmark_e2e_sweep_foreground` | `WatcherReads`, `WatcherJudges` (the pid is looked up after the files were read), `WatcherReturns` |

`Windows` says which faults of a few milliseconds' width an instance contains:
`"write"`, a kill inside one `_persist_state`; `"bucket"`, a kill between the
write that ends a bucket and the next one; `"exit"`, a resume that loads the
state while an orchestrator that published its abort still has its last write to
do. They are apart because the code does lose work in them (section 6), and the
properties that fail there hold everywhere else.

Assumed: the targets of the repository do not change between resumes, none is named like the
event type `run_start`, units are
numbered by bucket in frozen order (the child runs them in the order of its
targets), a GPU is present, the watcher does not die and nobody resumes by hand
beside a live process. A lock that times out is an `Abort`. The mirror thread writes
the same state once more and is left out. A fabric stage that duplicates the
cluster stage is planned as `skipped_duplicate` and never started, so it is
outside `Enabled`.

### SweepPromise

The promise, without processes, stages, files or a watcher: a unit is run to its end by one
attempt only, after all units before it in its bucket, where the host can run it, and while no
verdict stands; a verdict is reported only when the units that were run have earned it,
and it is withdrawn before the run goes on. `EndedUnits` (the event files) and `Verdict` (a
readable checkpoint of a completed run) map `E2ESweep` to it; a write of the checkpoint is
`Report`, `Reopen` or nothing, an `EndUnit` is `RunUnit`, every other step is nothing.

### DedupePromise and AllInOne

`DedupePromise` is the contract: an item is claimed by one owner, suppressed only
beside an owner of the same key or an applied effect, and ends once. `AllInOne`
is the pipeline; its owners are the rows held by a worker or waiting in
`queue_a_to_b` or `queue_b_to_c`.

| code | model |
|---|---|
| the event loop | one step is what one task does between two suspensions. Nothing awaits under `dedupe_lock`, so the decision of 387-413 is one step with the `get` |
| `input_queue`, `queue_a_to_b`, `queue_b_to_c` | `inQ`, `abQ`, `bcQ`, sequences of rows with `None` for a sentinel |
| a worker task | `task[w]`: in `get()`, before an attempt (backoff, rate limiter, semaphore), in the call, in the `put`, or over |
| attempts, `stop_event` | `Admit`, `FetchReturns`, `TransformReturns`, `WriteReturns`, `AttemptFails` |
| `results`, key sets | `result`, `inProgress`, `completed`; the failing statuses are one, `"failed"` |
| `_normal_shutdown` | `ProducerDone`, `Join`, `EndStageB`, `EndStageC`, `NormalEnd` |
| deadline | `Expire` (`wait_for` cancels `_normal_shutdown` and the task it awaits), `StopAll`, then `CancelledA` or `Dropped` for each worker, `StoppedEnd` |
| `asyncio.wait_for` before Python 3.12 | `swallows`: a call that is over when the cancellation arrives returns, and the cancellation is lost |
| drains, reconciliation, `clear()` | `Reconcile`, in one step: nothing suspends there |

### McpStdio

| code | model |
|---|---|
| `_next_id`, `_pending_requests`, futures | `nextId` (with its wrap), `pending` (id to call), `thread[t].got` |
| `_send_request` | `Call`, `Track`, `Write` or `BrokenPipe`, `Return` or `Timeout`; `Raise` is what both exception handlers do |
| `_cleanup_stale_requests` | `CleanupStaleRequests`: any set of pending requests may be the stale one |
| `start`, `stop` | `StartClient` (process, threads, `initialize` as a call of `Main`), `StopClient`, `StopClears`, `StopTerminates` |
| reader and handler threads of each session | `reader`, `handlers`: sets of sessions, since no thread is joined. A reader has its own process; all handlers share `responses` and the code that takes from it, so `Handle` does not name one |
| pipes | `stdin`, `stdout`; a full stdin (`InRoom` lines) blocks a writer |
| `run_stdio` | `Serve`, `GetsStuck` (stderr is a pipe nobody reads), `Dies` |

`calls` numbers the requests of a behaviour, so that an answer can be told from that
to another request with the same id.

### RequestPromise and McpServed

`RequestPromise` is the promise of client and servers together, without ids, pipes, the response
queue, sessions or their threads: a request is executed at most once, also after its caller
has left, and its caller is told once, an error or the answer, and the answer only
after the execution. `McpServed` is `McpStdio` with a history variable, `served`, that counts for
each call how often a server took its line from stdin (`TakenUp`); no action reads it. `Call` and
`StartClient` are `Ask`; `Serve` and `GetsStuck` are `Execute`; a response that completes
a request is `Answer`; a cleanup and a stop are `Fail`, of any number of callers at
once; `BrokenPipe`, `Return` and `Timeout` are `Leave`; every other step is nothing.

### EvalSuite

| code | model |
|---|---|
| one invocation of the script | `suite[s]`: before the lock, between steps, with a step started, with its row to be judged, in the exit trap, over |
| the foreground child | `child[s]`: a step's command or the python process that writes the row. It may outlive a killed shell |
| the flock | `lock`: taken by `Acquire`, free after `Release` (`flock -u`) or when the dead suite's child, which inherited the file, is gone (`LockHeldBy`, `ChildGone`) |
| ledger | `rows`, `torn`: the file is emptied when it is opened for writing, and a ledger that does not parse reads as the empty list (`StartWrite`, `EndWrite`) |
| `run_step`, `run_required_step` | `Skip`, `StartStep`, `StepEnds`, `Record`, `Judge` with `Retry` |
| traps | `Signal` sets a flag; `Heed` acts on it when there is no foreground child, as bash does; `NoteInFlight`, `Release` |
| `kill -9` | `Kill`, with or without the child; `WriterKilled` |
| MCP server, sweep | `OtherUser` of the lock |

`runs` and `spoiled` are history: what really ran and ended how since the ledger was new,
and whether a write was cut off. No action reads them.

Each module holds, beside its definitions, "plausible slips": variants of a
definition as a slip would leave the code. `PROJECT.json` pairs each property
with the slip that breaks it.

## 3. What is model-checked

| run | question | bounds | result |
|---|---|---|---|
| `job_store` | Does a cleanup on an old clock reading, a full store or a reused id lose or change a job, does every accepted job end, is JobPromise implemented? | 2 ids, 2 records, 2 callers, 1 pool thread, 1 place, TTL 0, interval 1, time 1..2 | holds |
| `queue_safety` | Do payloads run alone, are locks given back, are retries bounded, is SerialQueue implemented? | 3 requests of 2 servers, 1 sweep, 1 foreign benchmark, 1 retry | holds |
| `queue_liveness` | Is every request answered, and what may run beside a payload when leftovers go unrecognised? | the same without the foreign benchmark, with leftovers | holds |
| `mcp_jobs` | Does a reported status mean what it says, and does it ever go back? | 2 jobs with one label in one second, a run id that clients may pass and another program uses, 1 client, 2 pool threads, 1 foreign benchmark, no sweep, no retry, 2 places | holds |
| `mcp_same_run_id` | Does "running" mean that the job itself has left the queue? | 2 jobs with one label, no passed run ids, no other program | violated, see 6 |
| `e2e_sweep` | Does a run that is killed or aborted anywhere complete without running anything twice, is SweepPromise implemented, and so its verdict earned? | 3 hosts (2 + 1 units; 1 unit and a bucket the host cannot run; 1 unit and an empty bucket), full sweep and cluster stage, 2 faults, 2 resumes, no window | holds |
| `e2e_torn` | Does the verdict still cover the plan when writes are torn and resumes race with aborts? | the same hosts, tier1 and full sweep, 1 fault, 1 resume, windows `write` and `exit` | holds |
| `e2e_pool_thread` | Does "running" mean that something runs, when the MCP server runs the sweep itself? | 1 fault, 1 resume | violated, see 6 |
| `all_in_one` | Does the pipeline keep the idempotency contract, lose no row and return? | 4 rows (keys 1, 1, 2, 1), 2 + 2 + 1 workers, queues of one place, 1 retry, semaphores of 1, deadline at any time | holds |
| `all_in_one_deadline` | Does the run end once its deadline has passed, on every Python? | as `all_in_one` | violated, see 6 |
| `mcp_stdio` | Does a caller get its own answer, is nothing left registered, does an answer arrive, is RequestPromise implemented? | 2 callers and `Main`, 2 sessions, 3 calls, ids 3, 4, 1, a stdin of 2 lines | holds |
| `eval_suite` | Do steps run under the lock, does the ledger tell the truth, does a resume repeat or skip too much, does the lock come back? | a fresh suite with the health suite and a resuming one, 3 steps, 1 of them required, 2 attempts, another user of the lock, 1 signal for each suite, kills | holds |

Why the bounds are enough. Two ids for one place make an insertion wait for
an eviction and let a full store refuse, and the second record may take the id of
the first, once that is evicted; by time 2 there can be no third insertion, and the theorems
cover longer histories. TTL 0 with a reading that may be a tick old is the smallest
instance in which an old reading and a new one give different verdicts. Two requests of one server contend for
`_QUEUE_LOCK`, the third of another server for the flock; one sweep is enough to
wait, to hold and to pause; one retry is enough to use up the budget and to
come back to the gate. A `ps` that fails is in no run, since with it and leftovers the instance takes too
long: `LeftoversOnly` (section 4) is proved for it as well. `JobPromise` is checked with one
place and proved for any number. The counters `launched` and `retries` are bounded by
the retry limit, which `RetryBudget` shows, so no artificial bound is set. In the
composition one client thread is enough because a report concerns one client; one
run id in `GivenIds` and `OtherIds`, which is also the first that the server builds, lets a job
share it with the other job, with another program, or with neither. The clock stands, so nothing is
evicted there: evictions are in `job_store`, and `ReportsAdvance` has them together with
the reports.
In the sweep, two units let an attempt die between them, two buckets let a run
die between or after them, and two faults let a resumed attempt die again, so
that what is left is computed from several attempts; `Results` leaves out failing
units, since a failure enters through `BucketReturns` in any case.
In the pipeline three rows of one key let a duplicate arrive before, while and after its
twin is in flight, the fourth keeps a worker busy between them, and queues of one
place make the producer and both hand-overs block. In the client two sessions
give leftover threads, and `initialize` and two more calls are enough for an answer that
comes after its request timed out and meets a newer one, or for the lines of two calls
beside each other in a pipe. In the suite one
predecessor with any fate is enough for what a resume can find; three steps let
it stop before, in and after a completed one. `MaxCalls` and `MaxSessions` bound the
behaviours of `McpStdio`; `MaxTime` those of the registry; `Faults` and `MaxResumes`
those of the sweep. The other counters are bounded by the code.
Deadlock is not checked: every system here may come to rest when all requests
are answered and all neighbours are gone.

Properties:

* `LiveJobTracked`, `RetentionHonoured`, `OutcomeFinal`,
  `JobsAsPromised`, which bounds the store too (JobStore);
* `LocksMatchCalls`, `ServedAlone`, `OnlyLeftoversBeside`, `RetryBudget`,
  `ServesSerially` (QueueRunner);
* `CompletedMeansServed`, `RunningMeansRunStarted`, `ReportNeverRegresses` (McpJobs), and
  `RunningMeansAdmitted`, which is violated;
* `VerdictCoversPlan`, `EndedUnitsNotRerun`, `SweepKeepsPromise`, `ResumeOffered`,
  `RunningHasRunner`, `SupervisedRunCompletes` (E2ESweep);
* `PromiseKept`, `KeyAppliedOnce`, `KeyHeldWhileInFlight`, `NormalEndRecordsAll`,
  `RunReturns`, `DeadlineBoundsRun` (AllInOne);
* `OwnAnswer`, `PendingExact`, `AnswersArrive` (McpStdio), `RequestsAsPromised` (McpServed);
* `StepsHoldLock`, `OkMeansDone`, `EveryExecutionRecorded`, `CompletedNotRerun`,
  `LockReturned` (EvalSuite);
* one type invariant for each.

Fairness. `EveryJobFinishes` assumes weak fairness of `Submit` (a caller between
its insertion and `executor.submit` is an ordinary running thread), of the pool
taking work (the executor wakes a thread for each item) and of the runner's
return and final write. `EveryRequestAnswered` assumes weak fairness of each
request's own steps: the polling loops sleep and look again, and a payload ends.
A tool timeout sees to that where there is one; `run_benchmarks` has none unless the client
gives it (2803, 2985-2990), and then the timeout of the benchmark suite ends the payload
(four hours, `bench_commands.py:1248`). A client that turns both off relies on the benchmarks to
end. `_QUEUE_LOCK` has no timeout, so weak fairness would not be enough for
a lock that is taken and released for ever; the finite set of requests makes it
so: each request is served once. Nothing is assumed of sweeps, foreign
benchmarks, leftovers or crashes. With both timeouts disabled (0) the property
is false: the request waits at the gate for a sweep that waits for the flock;
the run has them on. `SupervisedRunCompletes` assumes weak fairness of each
orchestrator's steps (child runs have timeouts for each benchmark, the locks have
one) and of the watcher, which polls in a loop; nothing is assumed of `Abort` and
`Kill`. It says only that a watched run completes once: the watcher may read the
files of a run that completes before it looks for its process, take it for
stale and resume it. `RunReturns` assumes that the loop runs every task that is ready and
that a call returns, which `wait_for` sees to; it assumes nothing of the
deadline, and it is stated for a `wait_for` that passes a cancellation on.
`AnswersArrive` assumes that threads and the server process are scheduled, and no
timeout of the client; it ends its promise where the client is stopped or the
server has died or is stuck. `LockReturned` assumes that the suite's shell runs and
that every step's command ends (the steps of the suite have timeouts of their own,
and a step that never ends does hold the lock for ever); nothing is assumed of
signals, kills and the other user.

## 4. What is proved

`QueueRunnerProofs.tla`, checked by `tlapm`:

* `QueueTypeCorrect`, `LocksCorrect`, `RetryBudgetHolds`: for every set of
  requests, servers, sweeps and foreign benchmarks, every retry limit, and
  whatever `ps` shows, `QueueSpec` implies type correctness,
  `LocksMatchCalls` and `RetryBudget`. The inductive invariant `QueueInv` adds
  to the three how `launched` follows from the program counter and the retry
  counter (`RetryInv`): neither the bound on `launched` nor the meaning of
  "exhausted" is inductive without it.
* `ServesAlone`: under `NothingHidden` (`ps` works and recognises every payload
  process) a payload runs alone. The inductive part is `GateInv`: once a request
  has passed its gate and holds the flock, no other payload or orphan exists.
  It is kept by the flock (nobody else can be admitted), and by the fact that a
  new orphan can only come from a payload, which the request's own is. `NothingHidden` cannot be
  dropped: section 6 says what happens without it.
* `ImplementsSerialQueue`: under the same assumption, every step of the queue
  runner is a step of `SerialQueue` or leaves its variables alone, under the
  mapping `Phase`, `Alive`. The lemma `SerialStep` has one case for each action.
* `LeftoversOnly` (`OnlyLeftoversBeside`) is what is left without any assumption on `ps`: a running
  payload belongs to a request that left nothing behind, no sweep holds the flock, and what
  else runs belongs to requests that are over or about to return, so nobody will clean it
  up or wait for it. The flock keeps sweeps and other admitted requests away; `LeftInv` adds that
  a request with leftovers has failed and is on its way out, so it is never rerun beside its
  own remains.

`JobStoreProofs.tla`:

* `JobTypeCorrect`, `LiveJobsFound`, `StoreIsBounded`, `RetentionIsHonoured` and
  `OutcomesAreFinal` are the safety properties of the run `job_store`, for every
  number of ids, callers and pool threads, every capacity, retention and
  cleanup interval, and a clock that runs on. (The run has the bound, `StoreBounded`, as
  the room that `JobPromise` asks for.) The inductive invariant `JobInv`
  adds two parts. `OwnershipInv`: an unfinished record that is to be worked on is in
  exactly one hand, that of the caller that inserted it, the executor's queue or one pool
  thread; without it a second runner of the same record could write after its
  outcome. `NamesInv`: a call's clock reading is never ahead of the clock, which
  is why an old reading can only make a cleanup late. `StoreBounded` is needed for
  `RetentionHonoured` as well: the overflow loop ignores the retention, and it
  is the bound that keeps it from ever finding something to do.
* `KeepsJobPromise` (`JobsAsPromised`): the registry implements `JobPromise`. The lemma
  `RegistryStep` has one case for each action and rests on `JobInv` and `FiledInv`: an entry is
  filed under its record's id (so the ids that the promise says are in use are those of the
  store, `NamesAreEntries`, and the capacity test under the lock is the promise's room),
  and a runner's `finished_at`, read before the lock, is not ahead of the clock. `OwnershipInv`
  is what makes "in hand" and so `Start` happen once for each record.

`DedupePromiseProofs.tla` and `AllInOneProofs.tla`:

* `PromiseAppliesOnce`: whatever implements `DedupePromise` applies each key at most once.
* `PipeTypeCorrect`, `KeysHeldExactly`, `PipelineKeepsPromise`, `KeysAppliedOnce`: for
  every number of rows, keys, workers, queue places and retries, with deadline and
  cancellations, and for both kinds of `wait_for`. The inductive invariant
  (`PipeInvariant`) says in which one place a row is at any moment (not yet
  produced, in one queue, with one worker, or over), that rows with one key are not in
  flight together, and that `completed` is the set of keys written. The last
  two are what `Suppressed` looks at, the first keeps a row from being
  recorded twice. `KeysAppliedOnce` follows from the refinement and
  `PromiseAppliesOnce`.
* `NormalPathRecordsAll` (`NormalEndRecordsAll`): as long as no deadline has passed, every
  row that was produced has a status, is in the input queue or is in flight, and a queue
  that was joined stays empty, since the tasks that fill it are over (`NormalInv`). When the
  last stage has ended there is no place left for a row without a status.

`McpJobsProofs.tla`: the composition, for every number of jobs, callers, pool threads and
sweeps.

* `ServerIsItsParts`: `McpSpec` implies `JobSpec` and `QueueSpec`. Every theorem about a
  part holds in the server, and `JobInv` and `QueueInv` are available without a proof of
  their own.
* `McpTypeCorrect`, `CompletedIsEarned` (`CompletedMeansServed`), `RunningHasStarted`
  (`RunningMeansRunStarted`). The invariant adds to those of the parts that a job id
  is used by one record (`UuidInv`), that a record, the pool thread that works on it and its
  request are in step (`WorkInv`: "completed" is only in the record or on its way there when
  the request was served; a run directory that no other program uses was written by a request
  that has passed the locks), and that copies and reports say what was true of the request, or of
  its run directory, and stays true (`ToldInv`, `RunningInv`), since a copy may be told long
  after it was made.
* `ReportsAdvance` (`ReportNeverRegresses`): what a client is told of a job only advances, from
  queued through running to an outcome and at last to not found. A report is a copy that was
  made under the lock and is told after it, while the record moves on and may be evicted, so
  the invariant `AdvanceInv` speaks of what only grows: the jobs that have `Begun`, that have
  `Ended`, that are `Gone`. A note agrees with the status it was written with (`NoteInv`), a copy
  is not behind what its client was told before (`CopyInv`), and what was told rests on one of the
  sets (`ReportInv`). That a record keeps its outcome is `OutcomeFinal` of the registry.
* `RunningHasStarted` assumes nothing of run ids: clients may pass any, and share them with
  each other and with other programs. It says that a run under the job's id has begun, not
  that the job's own has: that is `RunningMeansAdmitted`, and it is false (section 6).

`McpStdioProofs.tla`: `StdioTypeCorrect`, `AnswersAreOwn` and `RegistrationExact`, for
every number of callers, sessions and ids, under the assumption `MaxCalls <= IdCount`: a
behaviour that used up all 2^31 - 1 ids could meet an id whose request still
waits. The invariant says that every line in a pipe, every queued response and every
registered request carries a call under the id that call was given, and that
calls and ids go together one to one; an answer under an id is then an answer to its
call.

`KeepsRequestPromise` (`RequestsAsPromised`), under the same assumption: `McpServed`
implements `RequestPromise`. `ServedInv` follows a call's line on its way: it is still to be written
(`Unsent`), or it stands in exactly one place of one server's stdin (`Queued`), or a server took it up,
and only then can there be a response (`Answered`). Each of the first two excludes the others,
so the line that a server takes up next was not taken up before; a line that is lost with its
process never comes back. That a response completes at most the request it belongs to
is `StdioInv`.

`EvalSuiteProofs.tla`: `SuiteTypeCorrect`, `StepsUnderLock`, `OkVerdictSound`,
`ExecutionsRecorded`, `ResumeSkipsCompleted`, for every number of suites and steps
and every retry limit. `EvalInv` adds to the properties: a suite between start and
end holds the lock, so at most one is (`LockInv`), what the shell's place says about its
child and its flags (`ShellInv`), that an execution in the history belongs to a step
the suite has passed or is at (`RunsInv`), that a passed step without a failure has a
successful execution (`DoneInv`), and how rows and executions correspond
(`LedgerInv`). That the current step exists uses the least element of a
set of naturals (`FirstStep`, from `WellFoundedInduction`).

`E2ESweepProofs.tla`, for every plan, number of resumes and number of faults:

* `SweepTypeCorrect` and `VerdictSound` (`VerdictCoversPlan`), under `"bucket" \notin Windows`: no
  fault falls between two buckets. Kills inside a write of the state are included, the recovery
  from the event files, and a resume beside a first process that has not written its last
  files. The invariant `SweepInv` says of every copy of the run, in memory or on disk, that its
  attempts count only units that some child run ended and that a stage that says succeeded has
  the whole plan behind it (`Sound`); where a process is in its stages (`Placed`); and that each
  bucket it has passed is covered, failed or beyond the host, and that of the bucket at hand every
  unit has run or is still to do (`Counted`). A resume would spoil it by loading a checkpoint between
  two buckets, and `OverlapInv` says that it never does: such a checkpoint is about to be
  replaced by the process that wrote it (`Open`), and that is a resume as soon as one
  has begun (`OvertakenInv`), since the first process, when the watcher starts the next, is gone or
  has published its abort and only leaves (`AloneInv`, `Leaving`), with a copy that is not in between;
  the resumes wait for each other (`TurnInv`).
* `ResumeOffer` (`ResumeOffered`), for `Windows = {}`. `ResumeInv`: one process is active;
  its copy says running inside the stages, and so does the checkpoint, and aborted after an
  exception; a checkpoint that
  forbids a resume under a progress file that says aborted is seen only while a process is
  about to publish.
* `EndedNotRerun` (`EndedUnitsNotRerun`), for `Windows = {}`. `RerunInv`: the attempts, in the
  active process and in the checkpoint, account for every event of every child run (by their
  list of units, or by still running under the event's index); the units of a bucket that ran are
  a prefix of its plan; and what a child run has still to do is exactly the rest. Dropping any
  one of the three breaks a step: the first is what a resume computes from, the second makes the
  first open unit the right place to go on, the third ties the process to the two.
* `KeepsPromise` (`SweepKeepsPromise`), for `Windows = {}`: `E2ESweep` implements
  `SweepPromise`. The three invariants together give the step: `SweepInv` that the bucket at hand is
  one the host can run and that a completed copy has a verdict that covers the plan, `ResumeInv` that
  the checkpoint says running while a unit ends and is being rewritten when a verdict is
  reported, `RerunInv` that the unit is the first of its bucket that no attempt ended.

The assumptions on `Windows` cannot be dropped: section 6 says what happens in the windows.

Not proved, and why: liveness (`EveryJobFinishes`, `EveryRequestAnswered`, `RunReturns`,
`AnswersArrive`, `LockReturned`, `SupervisedRunCompletes`) stays with TLC, since fairness
and `ENABLED` are out of the prover's reach.

## 5. What is not modelled

* Measurement itself: the harness, the timing, the validity checks, the GPU
  code of the chapters and labs. Numeric and hardware-bound.
* Report parsing, comparison, expectations, LLM prompts: pure functions.
* Duration: a timeout may fire at any time after a wait begins.
* Two runners of one job store process with different settings, and a clock
  that steps back: `time.time()` is assumed monotonic.
* `ttl_seconds=0` and the like: the constructor's `or` turns an explicit 0
  into the default; the constants here are the values in force.
* `handle_message`'s request tracking in the stdio server: the loop is sequential, so it
  never holds more than the id at hand. Lines that do not parse.
* The other runners of `labs/python_concurrency`: one stage each, with mechanisms the
  three-stage pipeline has, too. Latencies, counters and random failures of the pipeline: any
  call may fail at any attempt.
* The measurements and the hundred steps of the cluster plan, the preflight before the
  lock, and the health suite beyond its lock.
* The benchmark runner, harness, command line, dashboard and most of the other 2000 files
  of the repository are sequential programs around measurements; the share of lines that
  the models cover is small for that reason.
* A sweep that runs synchronously inside an MCP server's own process, whose
  children that server's gate would ignore as descendants.

## 6. Divergences found while modelling

* The queue, found with TLC (the bounds of `queue_safety` with `Leftovers = TRUE` and the
  invariant `NoConcurrentPayloads` of `QueueRunner`): the docstring of
  `_queue_runner_lock` (1713-1716) says servers cannot run payloads concurrently. A tool timeout kills the direct child only, and a
  killed server kills nothing; what they leave may run under a command line that
  `_is_active_run_command` does not list, and the next request passes the gate.
* The queue, found with TLC (`queue_safety` with the action property
  `RefusedOnlyWhenBusy`): a request is refused "while other bench/profiling processes are
  active" (2025-2028) because of a sweep that waits for the flock the request holds.
* `mcp_same_run_id`: two asynchronous `run_benchmarks` calls with one label in one second
  share a run id, because the directory that `build_run_id` looks for is created by the payload. The
  waiting job is reported running, against the tool text "'queued' → Waiting for the MCP queue
  runner to start" (10559). A label is the profile and the single target, or the profile and the
  number of targets (`artifact_manager.py:60-62`), so two different lists of one length will do.
* A `run_id` that the client passes (2528-2531) is used as it is (2728-2730). TLC finds
  `RunningMeansAdmitted` violated with labels that differ as well (one job, one id in `GivenIds`
  and `OtherIds`): where the run directory holds a progress file of an earlier run, which may be one
  of an earlier server, the job is reported running (10643-10644) while it waits for the queue, or
  before a pool thread has taken it. `RunningMeansRunStarted` is what holds.
* `e2e_pool_thread`: `benchmark_e2e_sweep(async=true)` runs the sweep on a pool thread,
  where `signal.signal` (`e2e_sweep.py:4002`) raises after "running" was written with
  the server's pid. The job fails, no stage starts, and the status stays
  `running_live` while the server lives, so no watcher takes it up.
* Windows of the sweep, found with TLC and left out of the passing runs:
  * with `Windows = {"bucket"}`, `VerdictCoversPlan` is violated. A stage marked running
    takes the status of its last attempt (`_compute_stage_status_from_attempts`,
    2688), which is "succeeded" right after the first bucket; the resume then skips
    the stage and its second bucket, and the run is reported succeeded, against
    `FULL_SWEEP.md:95`, "do not force `succeeded` when the correct result is
    `partial`".
  * with `Windows = {"write"}`, `EndedUnitsNotRerun` is violated: the recovery from
    events (2912) knows the first child run of the first bucket only. `ResumeOffered`
    is violated too: a resume killed between its first checkpoint (not resumable)
    and its progress file, which still says aborted, is `aborted_terminal`, and the
    watcher watches it for ever.
  * with `Windows = {"exit"}`, the late writes of an aborted first process go over those of the
    resume. Its progress file says aborted beside the resume's checkpoint, which is not resumable:
    if the resume is killed then, nothing is offered (`ResumeOffered` is violated). Its checkpoint
    lacks the resume's attempts: if the resume is killed then, the next one runs their units again
    (`EndedUnitsNotRerun` is violated, with two resumes).
* The sweep, by reading and visible in the state space: a run killed after its last
  `chapter_end` and before its attempt is recorded resumes with nothing left, takes
  over "aborted" as its verdict and completes; a completed run is not offered for a
  resume (`mcp_server.py:313`: "auto-resumes stale or aborted runs"). The failures of an
  aborted attempt are not in the verdict of the stage that a later attempt completes.
* `all_in_one_deadline`: `FOLLOWUP_QUESTION_BANK.md:74` says "global timeout bounds whole
  batch lifetime". A worker whose call is over in the very step in which the deadline
  cancels it goes on, on Python 3.11 and older (the repository's CI uses 3.11): `wait_for` returns
  the result and drops the cancellation. The worker reaches `get()` on a queue that
  nobody fills any more, and the `gather` of 1019 waits for it without a timeout.
* `SCENARIO_QA.md:150` of the labs says that `deduped` means the "side effect was already
  applied for that key". TLC finds `DedupedMeansApplied` of `AllInOne` violated: a duplicate is
  suppressed beside an owner that fails later. The comment at 387-390 of the
  pipeline says as much.
* The evaluation suite, by reading and in the model: the health suite takes the queue lock
  without looking at `AISP_CLUSTER_SUITE_QUEUE_LOCK_HELD` and finds it held by the suite that
  runs it; it exits with 3, so an evaluation suite with `--health-suite` never exits with 0. With
  `PARTIAL_RESUME_MAX_ATTEMPTS=1` a partial step is not resumed at all. A TERM during the
  write of a row leaves a second row, "interrupted", for the same execution; a step that
  ended with 0 under a pending TERM is recorded with 143 and run again. A ledger cut off in
  a write reads as empty, and the next row replaces its history.
* The evaluation suite, by reading: steps that derive artifacts from others (scorecard,
  manifest, validation) are skipped by a resume although steps before them ran again. A
  suite that is refused the lock has emptied the lock file, the holder's
  metadata, by opening it.
* The MCP client, by reading and in the model: a request that looked at `_running` before
  `stop()` and is registered after it waits for its whole timeout, unless its write finds the
  pipe broken. The server's stderr is a pipe that nobody reads: full, it blocks the server, and
  then a full stdin blocks a caller in `write`, which has no timeout.
* The MCP client, by reading: "Automatic reconnection" (line 8 of the module) is not
  implemented, and a `with` block whose `initialize` times out leaves the process and
  the threads behind.
* The stdio server, by reading: "prevent duplicate processing" (11156) never takes effect,
  since an id is completed before the next line is read: a request sent again is executed
  again. A JSON line that is not an object raises before the check that looks for it
  (11287, 11293).
* Not a run, by reading: the log line `proceeding_anyway=true`
  (`mcp_server.py:1924`) and the comment at 2042-2043 describe a bypass of the idle
  timeout; `_run_with_queue` returns a failure at 2031 instead, and the branch at
  2041-2047 is never taken. The model follows the code.

## 7. Plan

Done: `JobStore` with `JobPromise`, `QueueRunner` with `SerialQueue`, `McpJobs`, `E2ESweep` with `SweepPromise`, `AllInOne` with
`DedupePromise`, `McpStdio` with `RequestPromise`, `EvalSuite`, and the proofs of them.

Next, in this order:

1. `E2ESweep`: the mirror thread's concurrent write, a resume by hand beside a live
   process.
2. One host: `QueueRunner`, `E2ESweep` and `EvalSuite` over the one `queue.runner.lock` they
   share, instead of a stand-in for the others in each.
3. `Quarantine`: the read-modify-write of the quarantine file by concurrent benchmark runs.
