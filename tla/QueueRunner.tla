---------------------------- MODULE QueueRunner -----------------------------
(* The bench/profiling queue runner of mcp/mcp_server.py (_run_with_queue),  *)
(* shared by every MCP server process of the host, beside the e2e sweeps of  *)
(* core/benchmark/e2e_sweep.py that take the same lock file and the          *)
(* benchmarks people start by hand, which take no lock at all.               *)
(*                                                                           *)
(* A request is one call of _run_with_queue on its own thread: it takes the  *)
(* server's _QUEUE_LOCK, then the flock on queue.runner.lock, then waits     *)
(* until ps shows no foreign benchmark, runs its payload under a monitor,    *)
(* and runs it again when the monitor saw another benchmark meanwhile.       *)
EXTENDS Naturals, FiniteSets

CONSTANTS
  Threads,        \* calls of _run_with_queue
  Servers,        \* MCP server processes
  ServerOf,       \* [Threads -> Servers]
  Sweeps,         \* "bench run-e2e" processes
  Foreign,        \* benchmarks started outside the queue
  NoThread,       \* "nobody holds the lock"
  MaxRetries,     \* AISP_MCP_QUEUE_MAX_OVERLAP_RETRIES
  LockTimeout,    \* AISP_MCP_QUEUE_RUNNER_LOCK_TIMEOUT_SEC > 0
  IdleTimeout,    \* AISP_MCP_QUEUE_IDLE_TIMEOUT_SEC > 0
  PsFails,        \* ps may fail, and then shows nothing
  Leftovers       \* a killed process may leave others that ps does not recognise

ASSUME QueueAssumption ==
  /\ ServerOf \in [Threads -> Servers]
  /\ NoThread \notin Threads \cup Sweeps
  /\ Threads \cap Sweeps = {}
  /\ MaxRetries \in Nat
  /\ {LockTimeout, IdleTimeout, PsFails, Leftovers} \subseteq BOOLEAN

VARIABLES
  pc,             \* where each request is in _run_with_queue
  queueLock,      \* _QUEUE_LOCK of each server
  runnerLock,     \* who holds the flock on queue.runner.lock
  retries,        \* retries of each request
  launched,       \* how often its payload was started (history)
  overlap,        \* overlap_event of its latest attempt
  result,         \* exit_code of its latest attempt: "ok" is 0
  answer,         \* how the call ended
  orphans,        \* payloads that outlived their server
  hidden,         \* whose leftovers run on under a name ps does not recognise
  sweep,          \* state of each e2e sweep process
  foreign         \* state of each foreign benchmark

queueVars == <<pc, queueLock, runnerLock, retries, launched, overlap, result,
               answer, orphans, hidden, sweep, foreign>>

(* Program points: holding the flock, and holding _QUEUE_LOCK. *)
Admitted == {"gate", "ready", "running", "settle", "release"}
InQueue == Admitted \cup {"flock", "unlock"}
Over == {"done", "dead"}

Answers == {"clean", "overlapFailed", "exhausted", "idleTimeout", "lockTimeout",
            "unavailable", "raised"}

(* Type correctness of the requests, the locks and the processes. *)
QueueTypeOK ==
  /\ pc \in [Threads -> {"idle", "queue"} \cup InQueue \cup Over]
  /\ queueLock \in [Servers -> Threads \cup {NoThread}]
  /\ runnerLock \in Threads \cup Sweeps \cup {NoThread}
  /\ retries \in [Threads -> 0..(MaxRetries + 1)]
  /\ launched \in [Threads -> Nat]
  /\ overlap \in [Threads -> BOOLEAN]
  /\ result \in [Threads -> {"none", "ok", "failed"}]
  /\ answer \in [Threads -> Answers \cup {"none"}]
  /\ orphans \subseteq Threads
  /\ hidden \subseteq Threads \cup Sweeps
  /\ sweep \in [Sweeps -> {"off", "wait", "hold", "pause", "gone"}]
  /\ foreign \in [Foreign -> {"off", "on", "gone"}]

QueueInit ==
  /\ pc = [t \in Threads |-> "idle"]
  /\ queueLock = [s \in Servers |-> NoThread]
  /\ runnerLock = NoThread
  /\ retries = [t \in Threads |-> 0]
  /\ launched = [t \in Threads |-> 0]
  /\ overlap = [t \in Threads |-> FALSE]
  /\ result = [t \in Threads |-> "none"]
  /\ answer = [t \in Threads |-> "none"]
  /\ orphans = {} /\ hidden = {}
  /\ sweep = [x \in Sweeps |-> "off"]
  /\ foreign = [f \in Foreign |-> "off"]

Goto(t, label) == pc' = [pc EXCEPT ![t] = label]

(* The call ends with a; what it still holds is released on the way out. *)
Return(t, a, label) ==
  /\ answer' = [answer EXCEPT ![t] = a]
  /\ Goto(t, label)

locks == <<queueLock, runnerLock>>
attempt == <<retries, launched, overlap, result>>
processes == <<orphans, hidden, sweep, foreign>>

-----------------------------------------------------------------------------
(* The two locks                                                             *)

(* update_job(status="queued") and the wait for the server's own lock, which *)
(* has no timeout.                                                           *)
Enter(t) ==
  /\ pc[t] = "idle"
  /\ \/ Goto(t, "queue") /\ UNCHANGED answer
     \/ Return(t, "unavailable", "done")       \* _ensure_queue_artifacts
  /\ UNCHANGED <<locks, attempt, processes>>

TakeQueueLock(t) ==
  /\ pc[t] = "queue"
  /\ queueLock[ServerOf[t]] = NoThread
  /\ queueLock' = [queueLock EXCEPT ![ServerOf[t]] = t]
  /\ Goto(t, "flock")
  /\ UNCHANGED <<runnerLock, attempt, answer, processes>>

(* One round of the LOCK_NB polling loop; the elapsed time is looked at only *)
(* after a failed attempt to lock.                                           *)
PollRunnerLock(t) ==
  /\ pc[t] = "flock"
  /\ \/ /\ runnerLock = NoThread
        /\ runnerLock' = t
        /\ Goto(t, "gate") /\ UNCHANGED answer
     \/ /\ runnerLock # NoThread /\ LockTimeout
        /\ Return(t, "lockTimeout", "unlock")
        /\ UNCHANGED runnerLock
  /\ UNCHANGED <<queueLock, attempt, processes>>

(* A plausible slip: the exception leaves _QUEUE_LOCK locked. *)
RunnerLockUnavailableLocked(t) ==
  /\ pc[t] = "flock"
  /\ Return(t, "unavailable", "done")
  /\ UNCHANGED <<locks, attempt, processes>>

(* The lock file cannot be created: the call raises under _QUEUE_LOCK.       *)
RunnerLockUnavailable(t) ==
  /\ pc[t] = "flock"
  /\ Return(t, "unavailable", "unlock")
  /\ UNCHANGED <<locks, attempt, processes>>

(* The finally of _queue_runner_lock, then the end of with _QUEUE_LOCK.      *)
Release(t) ==
  /\ pc[t] = "release"
  /\ runnerLock' = NoThread
  /\ Goto(t, "unlock")
  /\ UNCHANGED <<queueLock, attempt, answer, processes>>

(* A plausible slip: the server's lock is not given back. *)
UnlockForgotten(t) ==
  /\ pc[t] = "unlock"
  /\ Goto(t, "done")
  /\ UNCHANGED <<locks, attempt, answer, processes>>

Unlock(t) ==
  /\ pc[t] = "unlock"
  /\ queueLock' = [queueLock EXCEPT ![ServerOf[t]] = NoThread]
  /\ Goto(t, "done")
  /\ UNCHANGED <<runnerLock, attempt, answer, processes>>

-----------------------------------------------------------------------------
(* The idle gate, the payload and the monitor                                *)

Payloads == {t \in Threads : pc[t] = "running"}

(* A plausible slip: processes without a server are not looked at. *)
VisibleOwned(s) ==
  \/ \E t \in Payloads : ServerOf[t] # s
  \/ \E x \in Sweeps : sweep[x] \in {"wait", "hold", "pause"}
  \/ \E f \in Foreign : foreign[f] = "on"

(* What _active_run_processes finds in a snapshot taken by server s: its own *)
(* descendants are ignored, and a sweep counts from its start to its end,    *)
(* whether it benchmarks or waits for the lock.                              *)
Visible(s) ==
  \/ \E t \in Payloads : ServerOf[t] # s
  \/ orphans # {}
  \/ \E x \in Sweeps : sweep[x] \in {"wait", "hold", "pause"}
  \/ \E f \in Foreign : foreign[f] = "on"

(* A plausible slip, and what the timeout's log line says: proceed anyway. *)
IdleGateAnyway(t) ==
  /\ pc[t] = "gate"
  /\ ~Visible(ServerOf[t]) \/ PsFails \/ IdleTimeout
  /\ Goto(t, "ready")
  /\ UNCHANGED <<locks, attempt, answer, processes>>

(* One round of _wait_for_idle. *)
IdleGate(t) ==
  /\ pc[t] = "gate"
  /\ \/ /\ ~Visible(ServerOf[t]) \/ PsFails
        /\ Goto(t, "ready") /\ UNCHANGED answer
     \/ /\ Visible(ServerOf[t]) /\ IdleTimeout
        /\ Return(t, "idleTimeout", "release")
  /\ UNCHANGED <<locks, attempt, processes>>

(* A new overlap_event and monitor, then runner(). *)
StartPayload(t) ==
  /\ pc[t] = "ready"
  /\ launched' = [launched EXCEPT ![t] = @ + 1]
  /\ overlap' = [overlap EXCEPT ![t] = FALSE]
  /\ Goto(t, "running")
  /\ UNCHANGED <<locks, retries, result, answer, processes>>

(* A snapshot of the monitor.  The last one may begin before stop_event is   *)
(* set and be evaluated after the payload is gone; there may be none at all. *)
MonitorSees(t) ==
  /\ pc[t] \in {"running", "settle"}
  /\ ~overlap[t]
  /\ Visible(ServerOf[t])
  /\ overlap' = [overlap EXCEPT ![t] = TRUE]
  /\ UNCHANGED <<pc, locks, retries, launched, result, answer, processes>>

(* A plausible slip: an exit code that nobody maps. *)
PayloadEndsUnmapped(t, code) ==
  /\ pc[t] = "running"
  /\ result' = [result EXCEPT ![t] = "unknown"]
  /\ Goto(t, "settle")
  /\ UNCHANGED <<locks, retries, launched, overlap, answer, processes>>

(* runner() returns.  On a tool timeout subprocess.run kills its direct      *)
(* child only, and the result has no exit code.                              *)
PayloadEnds(t, code) ==
  /\ pc[t] = "running"
  /\ result' = [result EXCEPT ![t] = code]
  /\ \/ UNCHANGED hidden
     \/ Leftovers /\ code = "failed" /\ hidden' = hidden \cup {t}
  /\ Goto(t, "settle")
  /\ UNCHANGED <<locks, retries, launched, overlap, answer, orphans, sweep, foreign>>

PayloadRaises(t) ==
  /\ pc[t] = "running"
  /\ Return(t, "raised", "release")
  /\ UNCHANGED <<locks, attempt, processes>>

(* A plausible slip: the limit is compared before the retry is counted. *)
SettleLate(t) ==
  /\ pc[t] = "settle"
  /\ \/ /\ ~overlap[t]
        /\ Return(t, "clean", "release")
        /\ UNCHANGED retries
     \/ /\ overlap[t] /\ result[t] # "ok"
        /\ Return(t, "overlapFailed", "release")
        /\ UNCHANGED retries
     \/ /\ overlap[t] /\ result[t] = "ok"
        /\ retries' = [retries EXCEPT ![t] = @ + 1]
        /\ \/ retries[t] > MaxRetries /\ Return(t, "exhausted", "release")
           \/ retries[t] <= MaxRetries /\ Goto(t, "gate") /\ UNCHANGED answer
  /\ UNCHANGED <<locks, launched, overlap, result, processes>>

(* A plausible slip: an overlapped failure is rerun too. *)
SettleAnyResult(t) ==
  /\ pc[t] = "settle"
  /\ \/ /\ ~overlap[t]
        /\ Return(t, "clean", "release")
        /\ UNCHANGED retries
     \/ /\ overlap[t]
        /\ retries' = [retries EXCEPT ![t] = @ + 1]
        /\ \/ retries[t] + 1 > MaxRetries /\ Return(t, "exhausted", "release")
           \/ retries[t] + 1 <= MaxRetries /\ Goto(t, "gate") /\ UNCHANGED answer
  /\ UNCHANGED <<locks, launched, overlap, result, processes>>

(* monitor.join(), then the verdict: only an overlapped success is rerun.    *)
Settle(t) ==
  /\ pc[t] = "settle"
  /\ \/ /\ ~overlap[t]
        /\ Return(t, "clean", "release")
        /\ UNCHANGED retries
     \/ /\ overlap[t] /\ result[t] # "ok"
        /\ Return(t, "overlapFailed", "release")
        /\ UNCHANGED retries
     \/ /\ overlap[t] /\ result[t] = "ok"
        /\ retries' = [retries EXCEPT ![t] = @ + 1]
        /\ \/ retries[t] + 1 > MaxRetries /\ Return(t, "exhausted", "release")
           \/ retries[t] + 1 <= MaxRetries /\ Goto(t, "gate") /\ UNCHANGED answer
  /\ UNCHANGED <<locks, launched, overlap, result, processes>>

-----------------------------------------------------------------------------
(* The other processes of the host                                           *)

(* A server process is killed: its threads and their locks are gone, the     *)
(* payload process is not.                                                   *)
CrashServer(s) ==
  LET mine == {t \in Threads : ServerOf[t] = s}
      left == mine \cap Payloads
  IN /\ \E t \in mine : pc[t] \notin Over
     /\ pc' = [t \in Threads |-> IF t \in mine /\ pc[t] # "done" THEN "dead" ELSE pc[t]]
     /\ queueLock' = [queueLock EXCEPT ![s] = NoThread]
     /\ runnerLock' = IF runnerLock \in mine THEN NoThread ELSE runnerLock
     /\ \/ orphans' = orphans \cup left /\ UNCHANGED hidden
        \/ Leftovers /\ hidden' = hidden \cup left /\ UNCHANGED orphans
     /\ UNCHANGED <<attempt, answer, sweep, foreign>>

LeftoverEnds(p) ==
  /\ p \in orphans \cup hidden
  /\ orphans' = orphans \ {p}
  /\ hidden' = hidden \ {p}
  /\ UNCHANGED <<pc, locks, attempt, answer, sweep, foreign>>

(* An e2e sweep takes the flock for each tier1 and full-sweep stage, without *)
(* idle gate, _QUEUE_LOCK or monitor; between them it runs the stages that   *)
(* take no lock ("pause").                                                   *)
SweepStarts(x) ==
  /\ sweep[x] \in {"off", "pause"}
  /\ sweep' = [sweep EXCEPT ![x] = "wait"]
  /\ UNCHANGED <<pc, locks, attempt, answer, orphans, hidden, foreign>>

SweepPollsLock(x) ==
  /\ sweep[x] = "wait"
  /\ \/ /\ runnerLock = NoThread
        /\ runnerLock' = x
        /\ sweep' = [sweep EXCEPT ![x] = "hold"]
     \/ /\ runnerLock # NoThread /\ LockTimeout
        /\ sweep' = [sweep EXCEPT ![x] = "gone"]
        /\ UNCHANGED runnerLock
  /\ UNCHANGED <<pc, queueLock, attempt, answer, orphans, hidden, foreign>>

SweepEndsStage(x) ==
  /\ sweep[x] = "hold"
  /\ runnerLock' = NoThread
  /\ sweep' = [sweep EXCEPT ![x] = "pause"]
  /\ UNCHANGED <<pc, queueLock, attempt, answer, orphans, hidden, foreign>>

(* It finishes between two locked stages, or is killed anywhere. *)
SweepExits(x) ==
  /\ sweep[x] \in {"wait", "hold", "pause"}
  /\ sweep' = [sweep EXCEPT ![x] = "gone"]
  /\ runnerLock' = IF runnerLock = x THEN NoThread ELSE runnerLock
  /\ \/ UNCHANGED hidden
     \/ Leftovers /\ hidden' = hidden \cup {x}
  /\ UNCHANGED <<pc, queueLock, attempt, answer, orphans, foreign>>

(* Somebody runs "aisp bench run", nsys or ncu by hand. *)
ForeignSteps(f) ==
  /\ \/ foreign[f] = "off" /\ foreign' = [foreign EXCEPT ![f] = "on"]
     \/ foreign[f] = "on" /\ foreign' = [foreign EXCEPT ![f] = "gone"]
  /\ UNCHANGED <<pc, locks, attempt, answer, orphans, hidden, sweep>>

-----------------------------------------------------------------------------

RequestStep(t) ==
  \/ TakeQueueLock(t) \/ PollRunnerLock(t) \/ RunnerLockUnavailable(t)
  \/ IdleGate(t) \/ StartPayload(t)
  \/ \E code \in {"ok", "failed"} : PayloadEnds(t, code)
  \/ PayloadRaises(t) \/ Settle(t) \/ Release(t) \/ Unlock(t)

QueueNext ==
  \/ \E t \in Threads : Enter(t) \/ RequestStep(t) \/ MonitorSees(t)
  \/ \E s \in Servers : CrashServer(s)
  \/ \E p \in Threads \cup Sweeps : LeftoverEnds(p)
  \/ \E x \in Sweeps :
       SweepStarts(x) \/ SweepPollsLock(x) \/ SweepEndsStage(x) \/ SweepExits(x)
  \/ \E f \in Foreign : ForeignSteps(f)

QueueSpec == QueueInit /\ [][QueueNext]_queueVars

(* Every polling loop and every payload with its timeout makes progress;     *)
(* nothing is assumed of sweeps, of foreign benchmarks or of leftovers.      *)
FairQueueSpec == QueueSpec /\ \A t \in Threads : WF_queueVars(RequestStep(t))

-----------------------------------------------------------------------------
(* Properties                                                                *)

(* A lock is held exactly by the request that is between its acquisition and *)
(* its release, on every path out of the call and after a crash, and the     *)
(* flock only under the server's own lock.                                   *)
LocksMatchCalls ==
  /\ \A t \in Threads :
       /\ runnerLock = t <=> pc[t] \in Admitted
       /\ queueLock[ServerOf[t]] = t <=> pc[t] \in InQueue
  /\ \A x \in Sweeps : runnerLock = x <=> sweep[x] = "hold"

(* While a request's payload runs, no payload of another server, no payload  *)
(* a killed server left behind and no locked stage of a sweep runs.          *)
ServedAlone ==
  \A t \in Payloads :
    /\ Payloads = {t}
    /\ orphans \cup hidden = {}
    /\ \A x \in Sweeps : sweep[x] # "hold"

(* Whatever ps shows and whatever is left behind: the only other payload     *)
(* processes beside a request's payload are leftovers of requests that       *)
(* launch nothing more, never the request's own earlier attempt or that of a *)
(* request still to be served, and no sweep is inside a locked stage.        *)
OnlyLeftoversBeside ==
  \A t \in Payloads :
    /\ t \notin orphans \cup hidden
    /\ \A u \in ((Payloads \cup orphans \cup hidden) \cap Threads) \ {t} :
         pc[u] \in {"unlock"} \cup Over
    /\ \A x \in Sweeps : sweep[x] # "hold"

(* The docstring's promise about the servers alone: payloads never run       *)
(* concurrently, leftovers of an earlier one included.                       *)
NoConcurrentPayloads ==
  \A t \in Payloads : (Payloads \cup orphans \cup hidden) \cap Threads = {t}

(* Overlap costs at most MaxRetries reruns, and the call reports them as     *)
(* used up only after it made all of them, each of which ended well.         *)
RetryBudget ==
  \A t \in Threads :
    /\ launched[t] <= MaxRetries + 1
    /\ answer[t] = "exhausted" => launched[t] = MaxRetries + 1 /\ result[t] = "ok"

(* What the promise of SerialQueue is about: a request is admitted as long   *)
(* as it holds the flock, and alive is every payload process there is.       *)
PhaseAt(label) ==
  IF label \in Admitted THEN "admitted"
  ELSE IF label \in {"unlock", "done"} THEN "answered"
  ELSE IF label = "dead" THEN "dead" ELSE "waiting"

Phase == [t \in Threads |-> PhaseAt(pc[t])]
Alive == Payloads \cup orphans \cup (hidden \cap Threads)

Serial == INSTANCE SerialQueue WITH phase <- Phase, alive <- Alive

(* The runner implements that promise. *)
ServesSerially == Serial!SerialSpec

(* Every call comes to an end: the locks and the idle gate of one request    *)
(* never block another for ever.                                             *)
EveryRequestAnswered ==
  \A t \in Threads : pc[t] = "queue" ~> pc[t] \in Over

(* A request is refused at the gate only because a benchmark is running.     *)
RefusedOnlyWhenBusy ==
  [][\A t \in Threads :
       pc[t] = "gate" /\ pc'[t] = "release" =>
         \/ Payloads \cup orphans # {}
         \/ \E x \in Sweeps : sweep[x] \in {"hold", "pause"}
         \/ \E f \in Foreign : foreign[f] = "on"]_queueVars
=============================================================================
