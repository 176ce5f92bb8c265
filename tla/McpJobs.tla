------------------------------ MODULE McpJobs -------------------------------
(* Asynchronous run_benchmarks calls of one MCP server: the tool queues a    *)
(* job (JobStore) whose runner is a call of _run_with_queue (QueueRunner);   *)
(* the runner writes its phase back into the job's record, and job_status    *)
(* combines a copy of the record with the progress file of the run.          *)
(* A record and the request that executes it share one name: Threads = Refs. *)
EXTENDS JobStore, QueueRunner

CONSTANTS
  LabelOf,              \* [Jobs -> what targets and profile give the run id]
  GivenIds,             \* run ids that clients pass as run_id
  OtherIds              \* run ids of other programs: earlier servers, the CLI

VARIABLES
  runId,                \* the run id of each job
  artifacts,            \* run ids whose directory and progress file exist
  view,                 \* the record copy job_status works on, per caller
  reported              \* the status last returned to each caller

mcpOnly == <<runId, artifacts, view, reported>>
mcpVars == <<jobVars, queueVars, mcpOnly>>

(* job_status ranks as an observer sees a job advance. *)
Rank == [none |-> 0, queued |-> 1, running |-> 2, completed |-> 3, error |-> 3,
         not_found |-> 4]

RunIds == [label : {LabelOf[j] : j \in Jobs}, at : Nat, n : Nat] \cup GivenIds \cup OtherIds
Views == [job : Jobs, status : Live \cup Terminal \cup {"not_found"}, note : Notes]

ASSUME McpAssumption == Threads = Refs /\ NoRef \notin RunIds \cup Views

(* Type correctness of what the server adds to its two parts. *)
McpTypeOK ==
  /\ runId \in [Jobs -> RunIds \cup {NoRef}]
  /\ artifacts \subseteq RunIds
  /\ view \in [Callers -> Views \cup {NoRef}]
  /\ reported \in [Callers -> [Jobs -> DOMAIN Rank]]

McpInit ==
  /\ JobInit /\ QueueInit
  /\ runId = [j \in Jobs |-> NoRef]
  /\ artifacts = {}
  /\ view = [c \in Callers |-> NoRef]
  /\ reported = [c \in Callers |-> [j \in Jobs |-> "none"]]

-----------------------------------------------------------------------------
(* The tool calls                                                            *)

(* build_run_id: the second, the label, and the first suffix under which no  *)
(* run directory exists yet.                                                 *)
FreshRunId(label) ==
  LET candidate(n) == [label |-> label, at |-> now, n |-> n]
      taken == {n \in 1..Cardinality(artifacts) : candidate(n) \in artifacts}
  IN candidate(CHOOSE n \in 1..(Cardinality(artifacts) + 1) :
                 n \notin taken /\ 1..(n - 1) \subseteq taken)

(* run_benchmarks(async=true): the job id is a new uuid; a run_id that the   *)
(* client passes is taken as it is, whatever its directory holds.            *)
CallRunBenchmarks(c, j) ==
  /\ view[c] = NoRef
  /\ runId[j] = NoRef
  /\ BeginCall(c, "queue", j)
  /\ \E id \in GivenIds \cup {FreshRunId(LabelOf[j])} : runId' = [runId EXCEPT ![j] = id]
  /\ UNCHANGED <<queueVars, artifacts, view, reported>>

CallJobStatus(c, j) ==
  /\ view[c] = NoRef
  /\ \E r \in Refs : rec[r].job = j
  /\ BeginCall(c, "poll", j)
  /\ UNCHANGED <<queueVars, mcpOnly>>

ContinueCall(c) ==
  /\ CleanupLocked(c) \/ Refuse(c) \/ Insert(c) \/ Submit(c)
  /\ UNCHANGED <<queueVars, mcpOnly>>

CopyRecord(c) ==
  /\ Poll(c)
  /\ LET j == caller[c].job
     IN view' = [view EXCEPT ![c] =
          [job |-> j, status |-> Status(j),
           note |-> IF store[j] = NoRef THEN "none" ELSE rec[store[j]].note]]
  /\ UNCHANGED <<queueVars, runId, artifacts, reported>>

(* Plausible slips: a status nobody knows; the raw status is returned. *)
EffectiveMisnamed(v, hasProgress) ==
  IF v.status = "queued" /\ ~hasProgress THEN "pending" ELSE v.status

EffectiveRaw(v, hasProgress) == v.status

(* The effective status, from the copy and from the progress file as it is   *)
(* by then.  run_benchmarks is a queue-managed tool.                         *)
Effective(v, hasProgress) ==
  IF /\ v.status = "running"
     /\ v.note = "waiting" \/ (~hasProgress /\ v.note # "via queue")
  THEN "queued"
  ELSE IF v.status = "queued" /\ hasProgress THEN "running" ELSE v.status

ReportStatus(c) ==
  /\ view[c] # NoRef
  /\ LET v == view[c]
     IN reported' = [reported EXCEPT ![c][v.job] = Effective(v, runId[v.job] \in artifacts)]
  /\ view' = [view EXCEPT ![c] = NoRef]
  /\ UNCHANGED <<jobVars, queueVars, runId, artifacts>>

-----------------------------------------------------------------------------
(* The pool threads                                                          *)

StartTool(w) == StartJob(w) /\ UNCHANGED <<queueVars, mcpOnly>>

(* A plausible slip: the record says running before the locks are taken. *)
EnterQueueRunning(w) ==
  /\ worker[w].pc = "run"
  /\ Enter(worker[w].ref)
  /\ IF pc'[worker[w].ref] = "queue" THEN UpdateJob(w, "running", "via queue")
                                     ELSE UNCHANGED jobVars
  /\ UNCHANGED mcpOnly

(* The tool reaches _run_with_queue, which records that it waits. *)
EnterQueue(w) ==
  /\ worker[w].pc = "run"
  /\ Enter(worker[w].ref)
  /\ IF pc'[worker[w].ref] = "queue" THEN UpdateJob(w, "queued", "waiting")
                                     ELSE UNCHANGED jobVars
  /\ UNCHANGED mcpOnly

(* The request goes on; once it has the flock it records that it runs. *)
ContinueRequest(w) ==
  /\ worker[w].pc = "run"
  /\ LET r == worker[w].ref
     IN /\ RequestStep(r)
        /\ IF pc[r] = "flock" /\ pc'[r] = "gate" THEN UpdateJob(w, "running", "via queue")
                                                 ELSE UNCHANGED jobVars
  /\ UNCHANGED mcpOnly

(* The payload creates the run directory and its progress file. *)
WriteProgress(r) ==
  /\ pc[r] = "running"
  /\ artifacts' = artifacts \cup {runId[rec[r].job]}
  /\ UNCHANGED <<jobVars, queueVars, runId, view, reported>>

(* The tool returns or raises, after a failed preflight, after the queue     *)
(* runner's answer, or in the post-processing of a good result.              *)
(* A plausible slip: the exit code is not looked at. *)
ServedAnyExit(r) == pc[r] = "done" /\ answer[r] \in {"clean", "exhausted"}

Served(r) == pc[r] = "done" /\ answer[r] \in {"clean", "exhausted"} /\ result[r] = "ok"

ToolReturns(w) ==
  /\ worker[w].pc = "run"
  /\ pc[worker[w].ref] \in {"idle", "done"}
  /\ \/ Served(worker[w].ref) /\ RunnerReturns(w, "completed")
     \/ RunnerReturns(w, "error")
  /\ UNCHANGED <<queueVars, mcpOnly>>

FinishTool(w) == FinishJob(w) /\ UNCHANGED <<queueVars, mcpOnly>>

(* Another program writes into a run directory of its own, before the        *)
(* server's first call or at any time after it.                              *)
OtherRun ==
  /\ \E id \in OtherIds : artifacts' = artifacts \cup {id}
  /\ UNCHANGED <<jobVars, queueVars, runId, view, reported>>

(* The clock, and the processes the server shares the host with. *)
Environment ==
  /\ \/ Tick /\ UNCHANGED queueVars
     \/ /\ \/ \E r \in Refs : MonitorSees(r)
           \/ \E x \in Sweeps :
                SweepStarts(x) \/ SweepPollsLock(x) \/ SweepEndsStage(x) \/ SweepExits(x)
           \/ \E f \in Foreign : ForeignSteps(f)
        /\ UNCHANGED jobVars
  /\ UNCHANGED mcpOnly

-----------------------------------------------------------------------------

PoolStep(w) ==
  StartTool(w) \/ EnterQueue(w) \/ ContinueRequest(w) \/ ToolReturns(w) \/ FinishTool(w)

McpNext ==
  \/ \E c \in Callers :
       \/ \E j \in Jobs : CallRunBenchmarks(c, j) \/ CallJobStatus(c, j)
       \/ ContinueCall(c) \/ CopyRecord(c) \/ ReportStatus(c)
  \/ \E w \in Workers : PoolStep(w)
  \/ \E r \in Refs : WriteProgress(r)
  \/ OtherRun
  \/ Environment

McpSpec == McpInit /\ [][McpNext]_mcpVars

-----------------------------------------------------------------------------
(* Properties                                                                *)

(* What one client is told of a job never goes back, although the record     *)
(* itself goes from running to queued and to running again.                  *)
ReportNeverRegresses ==
  [][\A c \in Callers, j \in Jobs :
       Rank[reported'[c][j]] >= Rank[reported[c][j]]]_mcpVars

(* A job is reported completed only after its payload ran under the queue's  *)
(* locks and ended with exit code 0.                                         *)
CompletedMeansServed ==
  \A c \in Callers, r \in Refs :
    rec[r].job # NoRef /\ reported[c][rec[r].job] = "completed" =>
      result[r] = "ok" /\ launched[r] > 0 /\ answer[r] \in {"clean", "exhausted"}

Past == Admitted \cup {"unlock", "done"}

(* A client is told that a job runs only when its own request has passed the *)
(* queue: queued means waiting for the queue runner (job_status).  False for *)
(* a run id that somebody else uses.                                         *)
RunningMeansAdmitted ==
  \A c \in Callers, r \in Refs :
    rec[r].job # NoRef /\ reported[c][rec[r].job] = "running" => pc[r] \in Past

(* What holds of job_status for every run id: a client is told that a job    *)
(* runs only when a request with its run id, which is its own if no other    *)
(* job has that id, has passed the queue, or when the run directory is one   *)
(* that another program uses and has written to.                             *)
RunningMeansRunStarted ==
  \A c \in Callers, r \in Refs :
    rec[r].job # NoRef /\ reported[c][rec[r].job] = "running" =>
      \/ runId[rec[r].job] \in OtherIds \cap artifacts
      \/ \E q \in Refs :
           rec[q].job # NoRef /\ runId[rec[q].job] = runId[rec[r].job] /\ pc[q] \in Past
=============================================================================
