---------------------------- MODULE McpJobsProofs ----------------------------
(* Proofs about the composed server, for any number of jobs, callers, pool   *)
(* threads, sweeps and foreign processes: it is a behaviour of each of its   *)
(* two parts, so that what is proved of them holds in it, and what a client  *)
(* is told of a job agrees with what the request of that job has done.       *)
EXTENDS McpJobs, JobStoreProofs, QueueRunnerProofs, WellFoundedInduction

-----------------------------------------------------------------------------
(* The run id *)

(* Among the candidates of build_run_id there is a first free one: of the    *)
(* sets 1..n that end in a free n, one is minimal.                           *)
LEMMA LeastOutside ==
  ASSUME NEW k \in Nat, NEW T \in SUBSET (1..k)
  PROVE  \E n \in 1..(k + 1) : n \notin T /\ 1..(n - 1) \subseteq T
<1> DEFINE S == 1..(k + 1)
           Free == {n \in S : n \notin T}
           Starts == {1..n : n \in Free}
<1>1. IsFiniteSet(S)
  BY FS_Interval
<1>2. IsWellFoundedOn(StrictSubsetOrdering(S), SUBSET S)
  BY <1>1, FS_StrictSubsetOrderingWellFounded, FS_FiniteSubsetsOfFinite
<1>3. Starts \subseteq SUBSET S /\ Starts # {}
  BY k + 1 \in Free
<1>4. \E x \in Starts : \A y \in Starts : <<y, x>> \notin StrictSubsetOrdering(S)
  <2> DEFINE R == StrictSubsetOrdering(S)
             All == SUBSET S
  <2> HIDE DEF R, All, Starts
  <2>1. IsWellFoundedOn(R, All) /\ Starts \subseteq All /\ Starts # {}
    BY <1>2, <1>3 DEF R, All
  <2>2. \E x \in Starts : \A y \in Starts : <<y, x>> \notin R
    BY <2>1, WFMin
  <2> QED BY <2>2 DEF R
<1>5. PICK n \in Free : \A m \in Free : <<1..m, 1..n>> \notin StrictSubsetOrdering(S)
  BY <1>4
<1>6. ASSUME NEW m \in 1..(n - 1), m \notin T PROVE FALSE
  <2>1. m \in Free /\ 1..m \subseteq 1..n /\ 1..m # 1..n
    BY <1>6, n \in 1..n /\ n \notin 1..m
  <2>2. 1..m \in SUBSET S /\ 1..n \in SUBSET S
    BY <2>1
  <2> QED BY <1>5, <2>1, <2>2 DEF StrictSubsetOrdering
<1> QED BY <1>6, <1>5

-----------------------------------------------------------------------------
(* The two parts *)

(* Every step of the server is a step of the registry or leaves it alone,    *)
(* and a step of the queue runner or leaves that alone.                      *)
LEMMA StepOfParts ==
  ASSUME JobInv, [McpNext]_mcpVars
  PROVE  [JobNext]_jobVars /\ [QueueNext]_queueVars
<1> USE McpAssumption DEF processes
<1>1. ASSUME NEW c \in Callers, NEW j \in Jobs, CallRunBenchmarks(c, j) \/ CallJobStatus(c, j)
      PROVE  [JobNext]_jobVars /\ UNCHANGED queueVars
  BY <1>1 DEF CallRunBenchmarks, CallJobStatus, JobNext
<1>2. ASSUME NEW c \in Callers, ContinueCall(c) \/ CopyRecord(c) \/ ReportStatus(c)
      PROVE  [JobNext]_jobVars /\ UNCHANGED queueVars
  BY <1>2 DEF ContinueCall, CopyRecord, ReportStatus, JobNext
<1>3. ASSUME NEW w \in Workers, StartTool(w) \/ ToolReturns(w) \/ FinishTool(w)
      PROVE  [JobNext]_jobVars /\ UNCHANGED queueVars
  BY <1>3 DEF StartTool, ToolReturns, FinishTool, JobNext, Terminal
<1>4. ASSUME NEW w \in Workers, EnterQueue(w) \/ ContinueRequest(w)
      PROVE  [JobNext]_jobVars /\ [QueueNext]_queueVars
  <2>1. worker[w].ref \in Threads
    BY <1>4 DEF EnterQueue, ContinueRequest, JobInv, OwnershipInv, Busy
  <2>2. [QueueNext]_queueVars
    BY <1>4, <2>1 DEF EnterQueue, ContinueRequest, QueueNext
  <2>3. [JobNext]_jobVars
    BY <1>4 DEF EnterQueue, ContinueRequest, JobNext
  <2> QED BY <2>2, <2>3
<1>5. ASSUME NEW r \in Refs, WriteProgress(r) PROVE UNCHANGED <<jobVars, queueVars>>
  BY <1>5 DEF WriteProgress
<1>6. CASE Environment
  BY <1>6 DEF Environment, JobNext, QueueNext
<1>7. CASE OtherRun \/ UNCHANGED mcpVars
  BY <1>7 DEF OtherRun, mcpVars
<1> QED BY <1>1, <1>2, <1>3, <1>4, <1>5, <1>6, <1>7 DEF McpNext, PoolStep

(* The invariants of both parts hold in the composition. *)
LEMMA PartsInvariant == McpSpec => [](JobInv /\ QueueInv)
<1>1. McpInit => JobInv /\ QueueInv
  BY JobInitInv, QueueInitInv DEF McpInit
<1>2. JobInv /\ QueueInv /\ [McpNext]_mcpVars => (JobInv /\ QueueInv)'
  <2>1. JobInv /\ [JobNext]_jobVars => JobInv'
    BY JobTypeStep, OwnershipStep, NamesStep, TrackedStep, BoundStep DEF JobInv
  <2>2. QueueInv /\ [QueueNext]_queueVars => QueueInv'
    BY TypeStep, LocksStep, RetryStep DEF QueueInv
  <2> QED BY <2>1, <2>2, StepOfParts
<1> QED BY <1>1, <1>2, PTL DEF McpSpec

(* A server that handles run_benchmarks and job_status calls behaves as a    *)
(* job registry and as a queue runner: every theorem about either part, its  *)
(* exclusion and retention among them, holds of the composed server.         *)
THEOREM ServerIsItsParts == McpSpec => JobSpec /\ QueueSpec
<1>1. McpInit => JobInit /\ QueueInit
  BY DEF McpInit
<1>2. JobInv /\ QueueInv /\ [McpNext]_mcpVars => [JobNext]_jobVars /\ [QueueNext]_queueVars
  BY StepOfParts
<1> QED BY <1>1, <1>2, PartsInvariant, PTL DEF McpSpec, JobSpec, QueueSpec

-----------------------------------------------------------------------------
(* What the client is told *)

Asking(c) == caller[c].pc = "insert" \/ (caller[c].pc = "cleanup" /\ caller[c].op = "queue")

(* The request of job j was served; has passed the queue's locks.            *)
ServedRefs == {r \in Refs : Served(r)}
Vouched(j) == \E r \in ServedRefs : rec[r].job = j /\ launched[r] > 0
Passed(j) == \E r \in Refs : rec[r].job = j /\ pc[r] \in Past

(* A job id is used by one call and one record.                              *)
UuidInv ==
  /\ \A r \in Refs : rec[r].job # NoRef => runId[rec[r].job] # NoRef
  /\ \A r, q \in Refs : rec[r].job # NoRef /\ rec[r].job = rec[q].job => r = q
  /\ \A r \in Refs : rec[r].status = "unused" => rec[r].job = NoRef /\ rec[r].note = "none"
  /\ \A c \in Callers : Asking(c) =>
       runId[caller[c].job] # NoRef /\ \A r \in Refs : rec[r].job # caller[c].job
  /\ \A c, d \in Callers : Asking(c) /\ Asking(d) /\ caller[c].job = caller[d].job => c = d
  /\ \A j \in Jobs : store[j] # NoRef => rec[store[j]].job = j

(* Record, thread and request of one job are in step.                        *)
WorkInv ==
  /\ \A r \in Refs : pc[r] # "idle" => rec[r].job # NoRef
  /\ \A r \in Refs : rec[r].note = "via queue" => pc[r] \in Past
  /\ \A r \in Refs : result[r] # "none" => launched[r] > 0
  /\ \A r \in Refs : rec[r].status = "completed" => r \in ServedRefs
  /\ \A w \in Workers :
       worker[w].pc = "finish" /\ worker[w].outcome = "completed" => worker[w].ref \in ServedRefs
  /\ \A a \in artifacts \ OtherIds : \E r \in Refs :
       rec[r].job # NoRef /\ a = runId[rec[r].job] /\ pc[r] \in Past

(* What was copied or told is true of the request, and stays true.           *)
ToldInv ==
  /\ \A c \in Callers : view[c] # NoRef =>
       /\ view[c].status = "completed" => Vouched(view[c].job)
       /\ view[c].status = "running" /\ view[c].note = "via queue" => Passed(view[c].job)
  /\ \A c \in Callers, j \in Jobs : reported[c][j] = "completed" => Vouched(j)

RunningInv ==
  \A c \in Callers, j \in Jobs :
    reported[c][j] = "running" => Passed(j) \/ runId[j] \in artifacts

McpInv == McpTypeOK /\ IsFiniteSet(artifacts) /\ UuidInv /\ WorkInv
Parts == JobInv /\ QueueInv

(* The steps of one request: it never goes back before the queue's locks,    *)
(* what it was served with stands, and a result comes from a launch.         *)
LEMMA RequestFrame ==
  ASSUME QueueInv, NEW t \in Threads, Enter(t) \/ RequestStep(t)
  PROVE  /\ \A u \in Threads \ {t} :
              pc'[u] = pc[u] /\ result'[u] = result[u] /\ launched'[u] = launched[u]
                /\ answer'[u] = answer[u]
         /\ pc[t] # "done" /\ pc'[t] # "idle"
         /\ pc[t] \in Past => pc'[t] \in Past
         /\ launched'[t] >= launched[t]
         /\ result'[t] = result[t] \/ launched[t] > 0
<1> USE DEF QueueInv, QueueTypeOK, Past, Admitted, Goto, Return, locks, attempt, processes
<1>1. CASE Enter(t)
  BY <1>1 DEF Enter
<1>2. CASE TakeQueueLock(t) \/ PollRunnerLock(t) \/ RunnerLockUnavailable(t)
  BY <1>2 DEF TakeQueueLock, PollRunnerLock, RunnerLockUnavailable
<1>3. CASE IdleGate(t) \/ StartPayload(t)
  BY <1>3 DEF IdleGate, StartPayload
<1>4. CASE \E code \in {"ok", "failed"} : PayloadEnds(t, code)
  <2>1. launched[t] > 0
    BY <1>4 DEF PayloadEnds, RetryInv
  <2> QED BY <1>4, <2>1 DEF PayloadEnds
<1>5. CASE PayloadRaises(t) \/ Settle(t) \/ Release(t) \/ Unlock(t)
  BY <1>5 DEF PayloadRaises, Settle, Release, Unlock
<1> QED BY <1>1, <1>2, <1>3, <1>4, <1>5 DEF RequestStep

(* What any step of the server leaves standing. *)
LEMMA Lasting ==
  ASSUME Parts, McpInv, [McpNext]_mcpVars
  PROVE  /\ \A r \in Refs : rec[r].job # NoRef => rec'[r].job = rec[r].job
         /\ \A r \in Refs : pc[r] # "idle" => pc'[r] # "idle"
         /\ \A r \in Refs : pc[r] \in Past => pc'[r] \in Past
         /\ \A r \in Refs : Served(r) => Served(r)'
         /\ \A r \in Refs : result'[r] # "none" => launched'[r] > 0
         /\ \A r \in Refs : launched[r] > 0 => launched'[r] > 0
         /\ \A j \in Jobs : runId[j] # NoRef => runId'[j] = runId[j]
<1> USE McpAssumption DEF Parts
<1>1. /\ JobTypeOK /\ OwnershipInv /\ NamesInv /\ LiveJobTracked
      /\ launched \in [Refs -> Nat] /\ pc \in [Refs -> {"idle", "queue"} \cup InQueue \cup Over]
      /\ runId \in [Jobs -> RunIds \cup {NoRef}]
      /\ \A r \in Refs : result[r] # "none" => launched[r] > 0
  BY DEF JobInv, QueueInv, QueueTypeOK, McpInv, McpTypeOK, WorkInv
<1>2. ASSUME UNCHANGED <<pc, result, launched, answer>>
      PROVE  /\ \A r \in Refs : pc[r] # "idle" => pc'[r] # "idle"
             /\ \A r \in Refs : pc[r] \in Past => pc'[r] \in Past
             /\ \A r \in Refs : Served(r) => Served(r)'
             /\ \A r \in Refs : result'[r] # "none" => launched'[r] > 0
             /\ \A r \in Refs : launched[r] > 0 => launched'[r] > 0
  BY <1>1, <1>2 DEF Served
<1>3. ASSUME NEW w \in Workers, EnterQueue(w) \/ ContinueRequest(w)
      PROVE  /\ \A r \in Refs : pc[r] # "idle" => pc'[r] # "idle"
             /\ \A r \in Refs : pc[r] \in Past => pc'[r] \in Past
             /\ \A r \in Refs : Served(r) => Served(r)'
             /\ \A r \in Refs : result'[r] # "none" => launched'[r] > 0
             /\ \A r \in Refs : launched[r] > 0 => launched'[r] > 0
  <2>1. PICK t \in Threads : t = worker[w].ref /\ (Enter(t) \/ RequestStep(t))
    BY <1>1, <1>3 DEF EnterQueue, ContinueRequest, OwnershipInv, Busy
  <2>2. \A u \in Refs : u # t =>
          pc'[u] = pc[u] /\ result'[u] = result[u] /\ launched'[u] = launched[u]
            /\ answer'[u] = answer[u]
    BY <2>1, RequestFrame
  <2>3. /\ pc[t] # "done" /\ pc'[t] # "idle"
        /\ pc[t] \in Past => pc'[t] \in Past
        /\ launched'[t] >= launched[t]
        /\ result'[t] = result[t] \/ launched[t] > 0
    BY <2>1, RequestFrame
  <2>4. launched'[t] \in Nat /\ launched[t] \in Nat
    <3>1. QueueInv'
      BY StepOfParts, TypeStep, LocksStep, RetryStep DEF QueueInv
    <3> QED BY <2>1, <3>1 DEF QueueInv, QueueTypeOK
  <2>5. \A r \in Refs : Served(r) => Served(r)'
    BY <2>2, <2>3 DEF Served
  <2> QED BY <1>1, <2>2, <2>3, <2>4, <2>5
<1>4. ASSUME NEW w \in Workers, NEW status \in Live, NEW note \in Notes, UpdateJob(w, status, note)
      PROVE  \A r \in Refs : rec'[r].job = rec[r].job
  BY <1>1, <1>4, UpdateFacts
<1>5. ASSUME NEW c \in Callers, NEW j \in Jobs, CallRunBenchmarks(c, j) \/ CallJobStatus(c, j)
      PROVE  /\ UNCHANGED <<rec, pc, result, launched, answer>>
             /\ \A i \in Jobs : runId[i] # NoRef => runId'[i] = runId[i]
  BY <1>1, <1>5 DEF CallRunBenchmarks, CallJobStatus, BeginCall, queueVars, mcpOnly
<1>6. ASSUME NEW c \in Callers, ContinueCall(c) \/ CopyRecord(c) \/ ReportStatus(c)
      PROVE  /\ UNCHANGED <<runId, pc, result, launched, answer>>
             /\ \A r \in Refs : rec[r].job # NoRef => rec'[r].job = rec[r].job
  <2>1. UNCHANGED <<runId, pc, result, launched, answer>>
    BY <1>6 DEF ContinueCall, CopyRecord, ReportStatus, queueVars, mcpOnly
  <2>2. CASE Insert(c)
    BY <2>1, <1>1, <2>2 DEF Insert, McpInv, UuidInv, JobTypeOK
  <2>3. CASE ~Insert(c)
    BY <2>1, <1>6, <2>3 DEF ContinueCall, CopyRecord, ReportStatus, CleanupLocked, Refuse, Submit, Poll,
       jobVars
  <2> QED BY <2>1, <2>2, <2>3
<1>7. ASSUME NEW w \in Workers, StartTool(w) \/ ToolReturns(w) \/ FinishTool(w)
      PROVE  /\ UNCHANGED <<runId, pc, result, launched, answer>>
             /\ \A r \in Refs : rec'[r].job = rec[r].job
  <2>1. UNCHANGED <<runId, pc, result, launched, answer>>
    BY <1>7 DEF StartTool, ToolReturns, FinishTool, queueVars, mcpOnly
  <2>2. CASE StartTool(w)
    BY <2>1, <1>1, <2>2 DEF StartTool, StartJob, JobTypeOK, Record
  <2>3. CASE ToolReturns(w)
    BY <2>1, <2>3 DEF ToolReturns, RunnerReturns
  <2>4. CASE FinishTool(w)
    BY <2>1, <1>1, <2>4 DEF FinishTool, FinishJob, JobTypeOK, Record
  <2> QED BY <1>7, <2>1, <2>2, <2>3, <2>4
<1>8. ASSUME NEW w \in Workers, EnterQueue(w) \/ ContinueRequest(w)
      PROVE  UNCHANGED runId /\ \A r \in Refs : rec'[r].job = rec[r].job
  <2>1. \/ UNCHANGED rec
        \/ UpdateJob(w, "queued", "waiting") \/ UpdateJob(w, "running", "via queue")
    BY <1>8 DEF EnterQueue, ContinueRequest, jobVars
  <2>2. UNCHANGED runId
    BY <1>8 DEF EnterQueue, ContinueRequest, mcpOnly
  <2> QED BY <1>4, <2>1, <2>2 DEF Live, Notes
<1>9. ASSUME NEW r \in Refs, WriteProgress(r) PROVE UNCHANGED <<rec, runId, pc, result, launched, answer>>
  BY <1>9 DEF WriteProgress, jobVars, queueVars
<1>10. ASSUME Environment PROVE UNCHANGED <<rec, runId, pc, result, launched, answer>>
  BY <1>10 DEF Environment, Tick, jobVars, queueVars, mcpOnly, MonitorSees, SweepStarts,
     SweepPollsLock, SweepEndsStage, SweepExits, ForeignSteps, locks, attempt, processes
<1>11. ASSUME OtherRun \/ UNCHANGED mcpVars
       PROVE  UNCHANGED <<rec, runId, pc, result, launched, answer>>
  BY <1>11 DEF OtherRun, mcpVars, jobVars, queueVars, mcpOnly
<1> QED BY <1>2, <1>3, <1>5, <1>6, <1>7, <1>8, <1>9, <1>10, <1>11 DEF McpNext, PoolStep

(* build_run_id finds a run id. *)
LEMMA FreshRunIdFacts ==
  ASSUME Parts, McpInv, NEW j \in Jobs
  PROVE  FreshRunId(LabelOf[j]) \in RunIds
<1> DEFINE k == Cardinality(artifacts)
           candidate(n) == [label |-> LabelOf[j], at |-> now, n |-> n]
           taken == {n \in 1..k : candidate(n) \in artifacts}
           n0 == CHOOSE n \in 1..(k + 1) : n \notin taken /\ 1..(n - 1) \subseteq taken
<1>1. k \in Nat /\ now \in Nat
  BY FS_CardinalityType DEF McpInv, Parts, JobInv, JobTypeOK
<1>2. n0 \in Nat
  <2>1. \E n \in 1..(k + 1) : n \notin taken /\ 1..(n - 1) \subseteq taken
    BY <1>1, LeastOutside
  <2> HIDE DEF taken
  <2> QED BY <1>1, <2>1
<1>3. FreshRunId(LabelOf[j]) = candidate(n0)
  BY DEF FreshRunId
<1> HIDE DEF n0
<1> QED BY <1>1, <1>2, <1>3 DEF RunIds

(* What a status poll copies is the state of a record of that job.           *)
LEMMA StatusFacts ==
  ASSUME Parts, McpInv, NEW j \in Jobs
  PROVE  /\ Status(j) \in Live \cup Terminal \cup {"not_found"}
         /\ store[j] # NoRef =>
              /\ store[j] \in Refs /\ rec[store[j]].job = j /\ rec[store[j]].note \in Notes
              /\ Status(j) = rec[store[j]].status
<1>1. JobTypeOK /\ NoRef \notin Jobs
  BY JobStoreAssumption DEF Parts, JobInv
<1> QED BY <1>1 DEF JobTypeOK, Record, Status, McpInv, UuidInv

(* Types of what the server adds. *)
LEMMA McpTypeStep ==
  ASSUME Parts, McpInv, [McpNext]_mcpVars
  PROVE  McpTypeOK' /\ IsFiniteSet(artifacts)'
<1>1. McpTypeOK /\ IsFiniteSet(artifacts) /\ JobTypeOK /\ NamesInv
  BY DEF McpInv, Parts, JobInv
<1>2. ASSUME NEW c \in Callers, NEW j \in Jobs, CallRunBenchmarks(c, j)
      PROVE  McpTypeOK' /\ IsFiniteSet(artifacts)'
  <2>1. PICK id \in GivenIds \cup {FreshRunId(LabelOf[j])} :
          runId' = [runId EXCEPT ![j] = id] /\ UNCHANGED <<artifacts, view, reported>>
    BY <1>2 DEF CallRunBenchmarks
  <2>2. id \in RunIds
    BY <1>1, FreshRunIdFacts DEF RunIds
  <2> QED BY <1>1, <2>1, <2>2 DEF McpTypeOK
<1>3. ASSUME NEW c \in Callers, CopyRecord(c) PROVE McpTypeOK' /\ IsFiniteSet(artifacts)'
  <2> DEFINE j == caller[c].job
             v == [job |-> j, status |-> Status(j),
                   note |-> IF store[j] = NoRef THEN "none" ELSE rec[store[j]].note]
  <2>1. j \in Jobs
    BY <1>1, <1>3 DEF CopyRecord, Poll, NamesInv
  <2>2. v \in Views
    BY <2>1, StatusFacts DEF Views, Notes
  <2>3. view' = [view EXCEPT ![c] = v] /\ UNCHANGED <<runId, artifacts, reported>>
    BY <1>3 DEF CopyRecord
  <2> HIDE DEF v
  <2> QED BY <1>1, <2>2, <2>3 DEF McpTypeOK
<1>4. ASSUME NEW c \in Callers, ReportStatus(c) PROVE McpTypeOK' /\ IsFiniteSet(artifacts)'
  <2>1. view[c] \in Views
    BY <1>1, <1>4 DEF ReportStatus, McpTypeOK
  <2>2. ASSUME NEW b \in BOOLEAN PROVE Effective(view[c], b) \in DOMAIN Rank
    BY <2>1 DEF Views, Effective, Rank, Live, Terminal
  <2>3. view[c].job \in Jobs
    BY <2>1 DEF Views
  <2> DEFINE i == view[c].job
             b == runId[i] \in artifacts
             e == Effective(view[c], b)
             Told == DOMAIN Rank
  <2>4. e \in Told
    BY <2>2, b \in BOOLEAN
  <2>5. e \in Told /\ i \in Jobs /\ reported \in [Callers -> [Jobs -> Told]]
    BY <1>1, <2>3, <2>4 DEF McpTypeOK
  <2>6. reported' = [reported EXCEPT ![c][i] = e]
    BY <1>4 DEF ReportStatus
  <2> HIDE DEF e, Told, i, b
  <2>7. reported' \in [Callers -> [Jobs -> Told]]
    BY <2>5, <2>6
  <2>8. view' \in [Callers -> Views \cup {NoRef}]
    BY <1>1, <1>4 DEF ReportStatus, McpTypeOK
  <2> QED BY <1>1, <1>4, <2>7, <2>8 DEF ReportStatus, McpTypeOK, Told
<1>5. ASSUME NEW r \in Refs, WriteProgress(r) PROVE McpTypeOK' /\ IsFiniteSet(artifacts)'
  <2>1. rec[r].job \in Jobs /\ runId[rec[r].job] # NoRef
    <3>1. rec[r].job # NoRef
      BY <1>5 DEF WriteProgress, McpInv, WorkInv
    <3>2. rec[r].job \in Jobs \cup {NoRef}
      BY <1>1 DEF JobTypeOK, Record
    <3> QED BY <3>1, <3>2 DEF McpInv, UuidInv
  <2>2. runId[rec[r].job] \in RunIds
    BY <1>1, <2>1 DEF McpTypeOK
  <2> QED BY <1>1, <1>5, <2>2, FS_AddElement DEF WriteProgress, McpTypeOK
<1>11. ASSUME OtherRun PROVE McpTypeOK' /\ IsFiniteSet(artifacts)'
  <2>1. PICK id \in RunIds : artifacts' = artifacts \cup {id} /\ UNCHANGED <<runId, view, reported>>
    BY <1>11 DEF OtherRun, RunIds
  <2> QED BY <1>1, <2>1, FS_AddElement DEF McpTypeOK
<1>6. CASE UNCHANGED mcpOnly
  BY <1>1, <1>6 DEF mcpOnly, McpTypeOK
<1>7. ASSUME NEW c \in Callers, NEW j \in Jobs, CallJobStatus(c, j) \/ ContinueCall(c)
      PROVE  UNCHANGED mcpOnly
  BY <1>7 DEF CallJobStatus, ContinueCall
<1>8. ASSUME NEW w \in Workers, PoolStep(w) PROVE UNCHANGED mcpOnly
  BY <1>8 DEF PoolStep, StartTool, EnterQueue, ContinueRequest, ToolReturns, FinishTool
<1>9. Environment \/ UNCHANGED mcpVars => UNCHANGED mcpOnly
  BY DEF Environment, mcpVars
<1>10. ASSUME NEW c \in Callers, ContinueCall(c) PROVE UNCHANGED mcpOnly
  BY <1>10 DEF ContinueCall
<1> QED BY <1>2, <1>3, <1>4, <1>5, <1>6, <1>7, <1>8, <1>9, <1>10, <1>11 DEF McpNext

-----------------------------------------------------------------------------
(* One job, one call, one record *)

LEMMA UuidStep ==
  ASSUME Parts, McpInv, [McpNext]_mcpVars
  PROVE  UuidInv'
<1> USE McpAssumption, JobStoreAssumption
<1>1. /\ JobTypeOK /\ OwnershipInv /\ NamesInv /\ LiveJobTracked
      /\ runId \in [Jobs -> RunIds \cup {NoRef}] /\ UuidInv
  BY DEF McpInv, Parts, JobInv, McpTypeOK
<1>2. ASSUME NEW c \in Callers, NEW j \in Jobs, CallRunBenchmarks(c, j) PROVE UuidInv'
  <2>1. PICK id \in GivenIds \cup {FreshRunId(LabelOf[j])} :
        /\ runId[j] = NoRef /\ runId' = [runId EXCEPT ![j] = id]
        /\ UNCHANGED <<store, rec>>
        /\ caller' = [caller EXCEPT ![c] =
             [pc |-> IF Due(now) THEN "cleanup" ELSE "insert",
              op |-> "queue", job |-> j, at |-> now, ref |-> NoRef]]
    BY <1>2 DEF CallRunBenchmarks, BeginCall
  <2>2. runId'[j] # NoRef
    <3>1. id \in RunIds
      BY FreshRunIdFacts DEF RunIds
    <3> QED BY <1>1, <2>1, <3>1
  <2>3. \A r \in Refs : rec[r].job # j
    BY <1>1, <2>1 DEF UuidInv
  <2>4. \A d \in Callers \ {c} : (Asking(d)' <=> Asking(d)) /\ caller'[d] = caller[d]
    BY <1>1, <2>1 DEF Asking, JobTypeOK
  <2>5. caller'[c].job = j
    BY <1>1, <2>1 DEF JobTypeOK
  <2>6. \A d \in Callers : Asking(d) => caller[d].job # j
    BY <1>1, <2>1 DEF UuidInv
  <2>7. \A i \in Jobs \ {j} : runId'[i] = runId[i]
    BY <1>1, <2>1
  <2>8. \A r \in Refs : rec[r].job # NoRef => rec[r].job \in Jobs
    BY <1>1 DEF JobTypeOK, Record
  <2>9. \A d \in Callers : Asking(d) => caller[d].job \in Jobs
    BY <1>1 DEF Asking, NamesInv
  <2>10. \A r \in Refs : rec[r].job # NoRef => runId'[rec[r].job] # NoRef
    BY <1>1, <2>2, <2>3, <2>7, <2>8 DEF UuidInv
  <2>11. \A d \in Callers : Asking(d)' =>
           runId'[caller'[d].job] # NoRef /\ \A r \in Refs : rec[r].job # caller'[d].job
    BY <1>1, <2>2, <2>3, <2>4, <2>5, <2>6, <2>7, <2>9 DEF UuidInv
  <2>12. \A d, e \in Callers :
           Asking(d)' /\ Asking(e)' /\ caller'[d].job = caller'[e].job => d = e
    BY <1>1, <2>4, <2>5, <2>6 DEF UuidInv
  <2> QED BY <1>1, <2>1, <2>10, <2>11, <2>12 DEF UuidInv
<1>3. ASSUME UNCHANGED <<runId, rec>>,
             \A d \in Callers : Asking(d)' => Asking(d) /\ caller'[d].job = caller[d].job,
             \A j \in Jobs : store'[j] = store[j] \/ store'[j] = NoRef
      PROVE  UuidInv'
  BY <1>1, <1>3 DEF UuidInv
<1>4. ASSUME NEW c \in Callers,
             \/ \E j \in Jobs : BeginCall(c, "poll", j)
             \/ CleanupLocked(c) \/ Refuse(c) \/ Submit(c) \/ Poll(c)
      PROVE  /\ UNCHANGED rec
             /\ \A d \in Callers : Asking(d)' => Asking(d) /\ caller'[d].job = caller[d].job
             /\ \A j \in Jobs : store'[j] = store[j] \/ store'[j] = NoRef
  <2>1. CASE \E j \in Jobs : BeginCall(c, "poll", j)
    BY <1>1, <2>1 DEF BeginCall, Asking, JobTypeOK
  <2>2. CASE CleanupLocked(c)
    <3>1. \A j \in Jobs : store'[j] = store[j] \/ store'[j] = NoRef
      BY <1>1, <2>2 DEF CleanupLocked, Evict, JobTypeOK
    <3> QED BY <1>1, <2>2, <3>1 DEF CleanupLocked, Asking, JobTypeOK, CallerState
  <2>3. CASE Refuse(c) \/ Submit(c) \/ Poll(c)
    BY <1>1, <2>3 DEF Refuse, Submit, Poll, Asking, JobTypeOK, IdleCaller
  <2> QED BY <1>4, <2>1, <2>2, <2>3
<1>5. ASSUME NEW c \in Callers, Insert(c), UNCHANGED runId PROVE UuidInv'
  <2>1. PICK q \in Refs :
          /\ rec[q].status = "unused"
          /\ rec' = [rec EXCEPT ![q] = [job |-> caller[c].job, status |-> "queued",
                                        note |-> "none", submitted |-> caller[c].at,
                                        finished |-> 0]]
          /\ store' = [store EXCEPT ![caller[c].job] = q]
          /\ caller' = [caller EXCEPT ![c].pc = "submit", ![c].ref = q]
    BY <1>5 DEF Insert
  <2>2. Asking(c) /\ ~Asking(c)' /\ caller[c].job \in Jobs
    BY <1>1, <1>5, <2>1 DEF Asking, JobTypeOK, NamesInv, Insert
  <2>3. \A d \in Callers \ {c} : (Asking(d)' <=> Asking(d)) /\ caller'[d] = caller[d]
    BY <1>1, <2>1 DEF Asking, JobTypeOK
  <2>4. /\ rec'[q].job = caller[c].job /\ rec'[q].status = "queued"
        /\ \A r \in Refs \ {q} : rec'[r] = rec[r]
    BY <1>1, <2>1 DEF JobTypeOK
  <2>5. /\ store'[caller[c].job] = q
        /\ \A j \in Jobs \ {caller[c].job} : store'[j] = store[j]
    BY <1>1, <2>1, <2>2 DEF JobTypeOK
  <2>6. rec[q].job = NoRef
    BY <1>1, <2>1 DEF UuidInv
  <2>7. /\ \A r \in Refs : rec'[r].job # NoRef => runId[rec'[r].job] # NoRef
        /\ \A r, s \in Refs : rec'[r].job # NoRef /\ rec'[r].job = rec'[s].job => r = s
        /\ \A r \in Refs : rec'[r].status = "unused" => rec'[r].job = NoRef /\ rec'[r].note = "none"
    BY <1>1, <2>2, <2>4 DEF UuidInv
  <2>8. \A d \in Callers : Asking(d)' =>
          runId[caller'[d].job] # NoRef /\ \A r \in Refs : rec'[r].job # caller'[d].job
    BY <1>1, <2>2, <2>3, <2>4 DEF UuidInv
  <2>9. \A d, e \in Callers :
          Asking(d)' /\ Asking(e)' /\ caller'[d].job = caller'[e].job => d = e
    BY <1>1, <2>2, <2>3 DEF UuidInv
  <2>10. \A j \in Jobs : store'[j] # NoRef => rec'[store'[j]].job = j
    BY <1>1, <2>4, <2>5, <2>6 DEF UuidInv, JobTypeOK
  <2> QED BY <1>1, <1>5, <2>7, <2>8, <2>9, <2>10 DEF UuidInv
<1>6. ASSUME UNCHANGED <<runId, store, caller>>,
             \A r \in Refs : rec'[r].job = rec[r].job,
             \A r \in Refs : rec'[r].status = "unused" => rec'[r] = rec[r]
      PROVE  UuidInv'
  <2>1. \A j \in Jobs : store[j] # NoRef => store[j] \in Refs
    BY <1>1 DEF JobTypeOK
  <2>2. \A d \in Callers : Asking(d)' <=> Asking(d)
    BY <1>6 DEF Asking
  <2> QED BY <1>1, <1>6, <2>1, <2>2 DEF UuidInv
<1>7. ASSUME NEW w \in Workers, PoolStep(w) PROVE UuidInv'
  <2>1. UNCHANGED <<runId, store, caller>>
    BY <1>7 DEF PoolStep, StartTool, EnterQueue, ContinueRequest, ToolReturns, FinishTool,
       StartJob, UpdateJob, RunnerReturns, FinishJob, jobVars, mcpOnly
  <2>2. \/ StartJob(w) \/ FinishJob(w) \/ UNCHANGED rec
        \/ UpdateJob(w, "queued", "waiting") \/ UpdateJob(w, "running", "via queue")
    BY <1>7 DEF PoolStep, StartTool, EnterQueue, ContinueRequest, ToolReturns, FinishTool,
       RunnerReturns, jobVars
  <2>3. CASE StartJob(w) \/ FinishJob(w)
    <3>1. ASSUME NEW q, NEW status \in {"running"} \cup Terminal,
                 \A r \in Refs : r # q => rec'[r] = rec[r],
                 q \in Refs => rec'[q].job = rec[q].job /\ rec'[q].status = status
          PROVE  UuidInv'
      BY <1>6, <2>1, <3>1 DEF Terminal
    <3>2. CASE StartJob(w)
      <4> DEFINE q == Head(workQueue)
      <4>1. rec' = [rec EXCEPT ![q].status = "running"]
        BY <3>2 DEF StartJob
      <4> HIDE DEF q
      <4>2. /\ \A r \in Refs : r # q => rec'[r] = rec[r]
            /\ q \in Refs => rec'[q].job = rec[q].job /\ rec'[q].status = "running"
        BY <1>1, <4>1 DEF JobTypeOK, Record
      <4> QED BY <3>1, <4>2
    <3>3. CASE FinishJob(w)
      <4> DEFINE q == worker[w].ref
                 status == worker[w].outcome
      <4>1. rec' = [rec EXCEPT ![q].status = status, ![q].finished = worker[w].at]
        BY <3>3 DEF FinishJob
      <4>2. status \in Terminal
        BY <1>1 DEF JobTypeOK, WorkerState
      <4> HIDE DEF q, status
      <4>3. /\ \A r \in Refs : r # q => rec'[r] = rec[r]
            /\ q \in Refs => rec'[q].job = rec[q].job /\ rec'[q].status = status
        BY <1>1, <4>1 DEF JobTypeOK, Record
      <4> QED BY <3>1, <4>2, <4>3
    <3> QED BY <2>3, <3>2, <3>3
  <2>4. ASSUME NEW status \in Live, NEW note \in Notes, UpdateJob(w, status, note) PROVE UuidInv'
    BY <1>1, <1>6, <2>1, <2>4, UpdateFacts DEF Live
  <2>5. CASE UNCHANGED rec
    BY <1>6, <2>1, <2>5
  <2> QED BY <2>2, <2>3, <2>4, <2>5 DEF Live, Notes
<1>8. CASE UNCHANGED <<runId, rec, store, caller>>
  BY <1>6, <1>8
<1>9. ASSUME NEW r \in Refs, WriteProgress(r) PROVE UNCHANGED <<runId, rec, store, caller>>
  BY <1>9 DEF WriteProgress, jobVars
<1>10. ASSUME NEW c \in Callers, ReportStatus(c) PROVE UNCHANGED <<runId, rec, store, caller>>
  BY <1>10 DEF ReportStatus, jobVars
<1>11. OtherRun \/ Environment \/ UNCHANGED mcpVars => UNCHANGED <<runId, rec, store, caller>>
  BY DEF OtherRun, Environment, Tick, mcpVars, jobVars, mcpOnly
<1>12. ASSUME NEW c \in Callers, NEW j \in Jobs, CallJobStatus(c, j) PROVE UuidInv'
  BY <1>3, <1>4, <1>12 DEF CallJobStatus, mcpOnly
<1>13. ASSUME NEW c \in Callers, ContinueCall(c) \/ CopyRecord(c) PROVE UuidInv'
  BY <1>3, <1>4, <1>5, <1>13 DEF ContinueCall, CopyRecord, mcpOnly
<1> QED BY <1>2, <1>7, <1>8, <1>9, <1>10, <1>11, <1>12, <1>13 DEF McpNext

-----------------------------------------------------------------------------
(* Record, thread and request *)

LEMMA WorkStep ==
  ASSUME Parts, McpInv, [McpNext]_mcpVars
  PROVE  WorkInv'
<1> USE McpAssumption, JobStoreAssumption
<1>1. /\ JobTypeOK /\ OwnershipInv /\ NamesInv /\ LiveJobTracked /\ WorkInv /\ UuidInv
      /\ artifacts \subseteq RunIds /\ runId \in [Jobs -> RunIds \cup {NoRef}]
  BY DEF McpInv, Parts, JobInv, McpTypeOK
<1>2. /\ \A r \in Refs : rec[r].job # NoRef => rec'[r].job = rec[r].job
      /\ \A r \in Refs : pc[r] \in Past => pc'[r] \in Past
      /\ ServedRefs \subseteq ServedRefs'
      /\ \A r \in Refs : result'[r] # "none" => launched'[r] > 0
      /\ \A j \in Jobs : runId[j] # NoRef => runId'[j] = runId[j]
  BY Lasting DEF ServedRefs
<1>3. \A r \in Refs : rec[r].job # NoRef => rec[r].job \in Jobs
  BY <1>1 DEF JobTypeOK, Record
<1>4. \A a \in artifacts \ OtherIds : \E r \in Refs :
         rec'[r].job # NoRef /\ a = runId'[rec'[r].job] /\ pc'[r] \in Past
  <2> SUFFICES ASSUME NEW a \in artifacts \ OtherIds
               PROVE  \E r \in Refs :
                        rec'[r].job # NoRef /\ a = runId'[rec'[r].job] /\ pc'[r] \in Past
    OBVIOUS
  <2>1. PICK r \in Refs : rec[r].job # NoRef /\ a = runId[rec[r].job] /\ pc[r] \in Past
    BY <1>1 DEF WorkInv
  <2>2. runId[rec[r].job] # NoRef
    BY <1>1, <2>1 DEF UuidInv
  <2> QED BY <1>2, <1>3, <2>1, <2>2
<1>5. ASSUME \A r \in Refs : pc'[r] # "idle" => pc[r] # "idle" \/ rec'[r].job # NoRef,
             \A r \in Refs : rec'[r].note = "via queue" => rec[r].note = "via queue" \/ pc'[r] \in Past,
             \A r \in Refs : rec'[r].status = "completed" => rec[r].status = "completed" \/ r \in ServedRefs',
             \A w \in Workers : worker'[w].pc = "finish" /\ worker'[w].outcome = "completed" =>
                worker'[w] = worker[w] \/ worker'[w].ref \in ServedRefs',
             artifacts' \ OtherIds \subseteq artifacts
      PROVE  WorkInv'
  <2>2. \A r \in Refs : pc'[r] # "idle" => rec'[r].job # NoRef
    BY <1>1, <1>2, <1>5 DEF WorkInv
  <2>3. \A r \in Refs : rec'[r].note = "via queue" => pc'[r] \in Past
    BY <1>1, <1>2, <1>5 DEF WorkInv
  <2>4. \A r \in Refs : rec'[r].status = "completed" => r \in ServedRefs'
    BY <1>1, <1>2, <1>5 DEF WorkInv
  <2>5. \A w \in Workers : worker'[w].pc = "finish" /\ worker'[w].outcome = "completed" =>
          worker'[w].ref \in ServedRefs'
    BY <1>1, <1>2, <1>5 DEF WorkInv
  <2> QED BY <1>2, <1>4, <1>5, <2>2, <2>3, <2>4, <2>5 DEF WorkInv
<1>6. CASE UNCHANGED <<rec, worker, pc, artifacts>>
  BY <1>5, <1>6
<1>7. ASSUME NEW c \in Callers, Insert(c), UNCHANGED <<pc, artifacts>> PROVE WorkInv'
  <2>1. PICK q \in Refs :
          /\ rec[q].status = "unused"
          /\ rec' = [rec EXCEPT ![q] = [job |-> caller[c].job, status |-> "queued",
                                        note |-> "none", submitted |-> caller[c].at,
                                        finished |-> 0]]
    BY <1>7 DEF Insert
  <2>2. /\ rec'[q].status = "queued" /\ rec'[q].note = "none"
        /\ \A r \in Refs \ {q} : rec'[r] = rec[r]
        /\ UNCHANGED worker
    BY <1>1, <1>7, <2>1 DEF JobTypeOK, Insert
  <2> QED BY <1>5, <1>7, <2>2
<1>8. ASSUME NEW c \in Callers, NEW j \in Jobs,
             CallRunBenchmarks(c, j) \/ CallJobStatus(c, j)
      PROVE  WorkInv'
  BY <1>6, <1>8 DEF CallRunBenchmarks, CallJobStatus, BeginCall, queueVars, mcpOnly
<1>9. ASSUME NEW c \in Callers, ContinueCall(c) \/ CopyRecord(c) \/ ReportStatus(c)
      PROVE  WorkInv'
  <2>1. UNCHANGED <<pc, artifacts>>
    BY <1>9 DEF ContinueCall, CopyRecord, ReportStatus, queueVars, mcpOnly
  <2>2. Insert(c) \/ UNCHANGED <<rec, worker>>
    BY <1>9 DEF ContinueCall, CopyRecord, ReportStatus, CleanupLocked, Refuse, Submit, Poll, jobVars
  <2> QED BY <1>6, <1>7, <2>1, <2>2
<1>10. ASSUME NEW w \in Workers, StartTool(w) PROVE WorkInv'
  <2> DEFINE q == Head(workQueue)
  <2>1. /\ rec' = [rec EXCEPT ![q].status = "running"]
        /\ worker' = [worker EXCEPT ![w].pc = "run", ![w].ref = q]
        /\ UNCHANGED <<pc, artifacts>>
    BY <1>10 DEF StartTool, StartJob, queueVars, mcpOnly
  <2> HIDE DEF q
  <2>2. /\ \A r \in Refs : rec'[r].note = rec[r].note
        /\ \A r \in Refs : rec'[r].status = rec[r].status \/ rec'[r].status = "running"
    BY <1>1, <2>1 DEF JobTypeOK, Record
  <2>3. \A v \in Workers : worker'[v] = worker[v] \/ worker'[v].pc = "run"
    BY <1>1, <2>1 DEF JobTypeOK, WorkerState
  <2> QED BY <1>5, <2>1, <2>2, <2>3
<1>11. ASSUME NEW w \in Workers, ToolReturns(w) PROVE WorkInv'
  <2>1. PICK outcome \in Terminal :
          /\ outcome = "completed" => Served(worker[w].ref)
          /\ RunnerReturns(w, outcome) /\ UNCHANGED <<pc, result, answer, artifacts>>
    BY <1>11 DEF ToolReturns, Terminal, queueVars, mcpOnly
  <2>2. /\ worker'[w].outcome = outcome /\ worker'[w].ref = worker[w].ref
        /\ \A v \in Workers \ {w} : worker'[v] = worker[v]
        /\ UNCHANGED rec
    BY <1>1, <2>1 DEF RunnerReturns, JobTypeOK, WorkerState
  <2>3. /\ ServedRefs' = ServedRefs
        /\ worker[w].ref \in Refs
    BY <1>1, <2>1 DEF Served, ServedRefs, RunnerReturns, OwnershipInv, Busy
  <2>4. Served(worker[w].ref) => worker[w].ref \in ServedRefs'
    BY <2>3 DEF ServedRefs
  <2> QED BY <1>5, <2>1, <2>2, <2>4
<1>12. ASSUME NEW w \in Workers, FinishTool(w) PROVE WorkInv'
  <2> DEFINE q == worker[w].ref
             status == worker[w].outcome
  <2>1. /\ rec' = [rec EXCEPT ![q].status = status, ![q].finished = worker[w].at]
        /\ worker[w].pc = "finish"
        /\ worker' = [worker EXCEPT ![w] = IdleWorker]
        /\ UNCHANGED <<pc, artifacts>>
    BY <1>12 DEF FinishTool, FinishJob, queueVars, mcpOnly
  <2>2. q \in Refs /\ (status = "completed" => q \in ServedRefs)
    BY <1>1, <2>1 DEF WorkInv, OwnershipInv, Busy
  <2> HIDE DEF q, status
  <2>3. /\ \A r \in Refs : rec'[r].note = rec[r].note
        /\ \A r \in Refs : r # q => rec'[r].status = rec[r].status
        /\ rec'[q].status = status
    BY <1>1, <2>1, <2>2 DEF JobTypeOK, Record
  <2>4. \A v \in Workers : worker'[v] = worker[v] \/ worker'[v].pc = "idle"
    BY <1>1, <2>1 DEF JobTypeOK, WorkerState, IdleWorker
  <2> QED BY <1>2, <1>5, <2>1, <2>2, <2>3, <2>4
<1>13. ASSUME NEW w \in Workers, EnterQueue(w) \/ ContinueRequest(w) PROVE WorkInv'
  <2> DEFINE t == worker[w].ref
  <2>1. t \in Refs /\ rec[t].status \in Live /\ rec[t].job \in Jobs
    BY <1>1, <1>13 DEF EnterQueue, ContinueRequest, OwnershipInv, Busy, NamesInv
  <2>2. Enter(t) \/ RequestStep(t)
    BY <1>13 DEF EnterQueue, ContinueRequest
  <2>3. \A u \in Refs : u # t => pc'[u] = pc[u]
    BY <2>1, <2>2, RequestFrame DEF Parts
  <2>4. rec[t].job # NoRef /\ UNCHANGED artifacts
    BY <1>13, <2>1 DEF EnterQueue, ContinueRequest, mcpOnly
  <2>5. \A u \in Refs : pc'[u] # "idle" => pc[u] # "idle" \/ rec'[u].job # NoRef
    BY <1>2, <2>1, <2>3, <2>4
  <2>6. \/ UNCHANGED <<rec, worker>>
        \/ UpdateJob(w, "queued", "waiting")
        \/ UpdateJob(w, "running", "via queue") /\ pc'[t] = "gate"
    BY <1>13 DEF EnterQueue, ContinueRequest, jobVars
  <2>7. ASSUME NEW status \in Live, NEW note \in Notes, UpdateJob(w, status, note),
               note = "via queue" => pc'[t] = "gate"
        PROVE  WorkInv'
    <3>1. rec'[t].status = status /\ \A u \in Refs : u # t => rec'[u] = rec[u]
      BY <1>1, <2>7, UpdateFacts
    <3>2. rec'[t].note = note
      <4>1. store[rec[t].job] = t
        BY <1>1, <2>1 DEF LiveJobTracked
      <4>2. rec'[t] = [rec[t] EXCEPT !.status = status, !.note = note]
        BY <2>1, <2>7, <4>1 DEF UpdateJob
      <4> QED BY <1>1, <2>1, <4>2 DEF JobTypeOK, Record
    <3>3. UNCHANGED worker
      BY <2>7 DEF UpdateJob
    <3> QED BY <1>5, <2>4, <2>5, <2>7, <3>1, <3>2, <3>3 DEF Live, Past, Admitted
  <2>8. CASE UNCHANGED <<rec, worker>>
    BY <1>5, <2>4, <2>5, <2>8
  <2> QED BY <2>6, <2>7, <2>8 DEF Live, Notes
<1>14. ASSUME NEW r \in Refs, WriteProgress(r) PROVE WorkInv'
  <2>1. /\ UNCHANGED <<rec, worker, pc, runId, result, launched, answer>>
        /\ artifacts' = artifacts \cup {runId[rec[r].job]}
        /\ pc[r] \in Past /\ rec[r].job # NoRef
    BY <1>1, <1>14 DEF WriteProgress, jobVars, queueVars, Past, Admitted, WorkInv
  <2>2. \A a \in artifacts' \ OtherIds : \E q \in Refs :
          rec[q].job # NoRef /\ a = runId[rec[q].job] /\ pc[q] \in Past
    BY <1>1, <2>1 DEF WorkInv
  <2> QED BY <1>1, <2>1, <2>2 DEF WorkInv, Served, ServedRefs
<1>15. CASE Environment \/ UNCHANGED mcpVars
  <2>1. UNCHANGED <<rec, worker, pc, artifacts>>
    BY <1>15 DEF Environment, Tick, mcpVars, jobVars, queueVars, mcpOnly, MonitorSees, SweepStarts,
       SweepPollsLock, SweepEndsStage, SweepExits, ForeignSteps, locks, attempt, processes
  <2> QED BY <1>6, <2>1
<1>16. CASE OtherRun
  <2>1. UNCHANGED <<rec, worker, pc>> /\ artifacts' \ OtherIds \subseteq artifacts
    BY <1>16 DEF OtherRun, jobVars, queueVars
  <2> QED BY <1>5, <2>1
<1> QED BY <1>8, <1>9, <1>10, <1>11, <1>12, <1>13, <1>14, <1>15, <1>16 DEF McpNext, PoolStep

-----------------------------------------------------------------------------
(* What a client is told *)

(* A status is copied or told only when it is true of the request, and it    *)
(* stays true.                                                               *)
LEMMA ToldStep ==
  ASSUME Parts, McpInv, ToldInv, [McpNext]_mcpVars
  PROVE  ToldInv'
<1> USE McpAssumption, JobStoreAssumption
<1>1. McpTypeOK /\ JobTypeOK /\ NamesInv /\ WorkInv /\ UuidInv
  BY DEF McpInv, Parts, JobInv
<1>2. \A j \in Jobs : (Vouched(j) => Vouched(j)') /\ (Passed(j) => Passed(j)')
  <2> SUFFICES ASSUME NEW j \in Jobs
               PROVE  (Vouched(j) => Vouched(j)') /\ (Passed(j) => Passed(j)')
    OBVIOUS
  <2>1. ASSUME NEW r \in Refs, rec[r].job = j PROVE rec'[r].job = j
    BY <2>1, Lasting
  <2>2. Vouched(j) => Vouched(j)'
    BY <2>1, Lasting DEF Vouched, ServedRefs
  <2>3. Passed(j) => Passed(j)'
    BY <2>1, Lasting DEF Passed
  <2> QED BY <2>2, <2>3
<1>3. \A c \in Callers : view[c] # NoRef => view[c].job \in Jobs
  BY <1>1 DEF McpTypeOK, Views
<1>4. ASSUME \A c \in Callers : view'[c] = view[c] \/ view'[c] = NoRef,
             \A c \in Callers, j \in Jobs :
               reported'[c][j] = "completed" => reported[c][j] = "completed" \/ Vouched(j)
      PROVE  ToldInv'
  <2> DEFINE VouchedJobs == {j \in Jobs : Vouched(j)}
             PassedJobs == {j \in Jobs : Passed(j)}
  <2>1. VouchedJobs \subseteq VouchedJobs' /\ PassedJobs \subseteq PassedJobs'
    BY <1>2
  <2>2. ASSUME NEW c \in Callers, view'[c] # NoRef
        PROVE  /\ view'[c].status = "completed" => view'[c].job \in VouchedJobs
               /\ view'[c].status = "running" /\ view'[c].note = "via queue" =>
                    view'[c].job \in PassedJobs
    <3>1. view'[c] = view[c] /\ view[c] # NoRef /\ view[c].job \in Jobs
      BY <1>3, <1>4, <2>2
    <3> QED BY <3>1 DEF ToldInv
  <2>3. \A c \in Callers : view'[c] # NoRef =>
          /\ view'[c].status = "completed" => view'[c].job \in VouchedJobs'
          /\ view'[c].status = "running" /\ view'[c].note = "via queue" =>
               view'[c].job \in PassedJobs'
    BY <2>1, <2>2
  <2>4. \A c \in Callers, j \in Jobs : reported'[c][j] = "completed" => j \in VouchedJobs'
    <3>1. \A c \in Callers, j \in Jobs : reported'[c][j] = "completed" => j \in VouchedJobs
      BY <1>4 DEF ToldInv
    <3> HIDE DEF VouchedJobs
    <3> QED BY <2>1, <3>1
  <2> QED BY <2>3, <2>4 DEF ToldInv
<1>5. CASE UNCHANGED <<view, reported>>
  BY <1>4, <1>5 DEF ToldInv
<1>6. ASSUME NEW c \in Callers, CopyRecord(c) PROVE ToldInv'
  <2> DEFINE j == caller[c].job
             v == [job |-> j, status |-> Status(j),
                   note |-> IF store[j] = NoRef THEN "none" ELSE rec[store[j]].note]
  <2>1. /\ view' = [view EXCEPT ![c] = v] /\ UNCHANGED reported
        /\ UNCHANGED <<rec, pc, launched, answer, result>>
        /\ j \in Jobs
    BY <1>1, <1>6 DEF CopyRecord, Poll, queueVars, NamesInv
  <2>2. /\ v.status = "completed" => Vouched(j)
        /\ v.status = "running" /\ v.note = "via queue" => Passed(j)
    <3>1. CASE store[j] = NoRef
      BY <3>1 DEF Status
    <3>2. CASE store[j] # NoRef
      <4>1. /\ store[j] \in Refs /\ rec[store[j]].job = j
            /\ v.status = rec[store[j]].status /\ v.note = rec[store[j]].note
        BY <2>1, <3>2, StatusFacts
      <4>2. rec[store[j]].status = "completed" => Served(store[j]) /\ launched[store[j]] > 0
        BY <1>1, <4>1 DEF WorkInv, ServedRefs, Served
      <4>3. rec[store[j]].note = "via queue" => pc[store[j]] \in Past
        BY <1>1, <4>1 DEF WorkInv
      <4> QED BY <4>1, <4>2, <4>3 DEF Vouched, Passed, ServedRefs
    <3> QED BY <3>1, <3>2
  <2>3. v.job = j
    OBVIOUS
  <2>4. view'[c] = v /\ \A d \in Callers \ {c} : view'[d] = view[d]
    BY <1>1, <2>1 DEF McpTypeOK
  <2> HIDE DEF v
  <2>6. ASSUME NEW d \in Callers, view'[d] # NoRef
        PROVE  /\ view'[d].status = "completed" => Vouched(view'[d].job)
               /\ view'[d].status = "running" /\ view'[d].note = "via queue" =>
                    Passed(view'[d].job)
    BY <2>2, <2>3, <2>4, <2>6 DEF ToldInv
  <2>7. \A d \in Callers, i \in Jobs : reported'[d][i] = "completed" => Vouched(i)
    BY <2>1 DEF ToldInv
  <2> DEFINE VouchedJobs == {i \in Jobs : Vouched(i)}
             PassedJobs == {i \in Jobs : Passed(i)}
  <2>8. VouchedJobs' = VouchedJobs /\ PassedJobs' = PassedJobs
    BY <2>1 DEF Vouched, Passed, ServedRefs, Served
  <2>9. \A d \in Callers : view'[d] # NoRef => view'[d].job \in Jobs
    BY <1>3, <2>1, <2>3, <2>4
  <2>10. \A d \in Callers : view'[d] # NoRef =>
           /\ view'[d].status = "completed" => view'[d].job \in VouchedJobs'
           /\ view'[d].status = "running" /\ view'[d].note = "via queue" =>
                view'[d].job \in PassedJobs'
    BY <2>6, <2>8, <2>9
  <2>11. \A d \in Callers, i \in Jobs : reported'[d][i] = "completed" => i \in VouchedJobs'
    BY <2>7, <2>8
  <2> QED BY <2>10, <2>11 DEF ToldInv
<1>7. ASSUME NEW c \in Callers, ReportStatus(c) PROVE ToldInv'
  <2> DEFINE v == view[c]
             e == Effective(v, runId[v.job] \in artifacts)
  <2>1. /\ v # NoRef /\ v.job \in Jobs
        /\ reported' = [reported EXCEPT ![c][v.job] = e]
        /\ view' = [view EXCEPT ![c] = NoRef]
    BY <1>3, <1>7 DEF ReportStatus
  <2>2. e = "completed" => Vouched(v.job)
    BY <2>1 DEF Effective, ToldInv
  <2> HIDE DEF e
  <2>3. \A d \in Callers, i \in Jobs :
          reported'[d][i] = "completed" => reported[d][i] = "completed" \/ Vouched(i)
    BY <1>1, <2>1, <2>2 DEF McpTypeOK
  <2>4. \A d \in Callers : view'[d] = view[d] \/ view'[d] = NoRef
    BY <1>1, <2>1 DEF McpTypeOK
  <2> QED BY <1>4, <2>3, <2>4
<1>8. ASSUME NEW c \in Callers, NEW j \in Jobs, CallRunBenchmarks(c, j) \/ CallJobStatus(c, j)
      PROVE  UNCHANGED <<view, reported>>
  BY <1>8 DEF CallRunBenchmarks, CallJobStatus, mcpOnly
<1>9. ASSUME NEW c \in Callers, ContinueCall(c) PROVE UNCHANGED <<view, reported>>
  BY <1>9 DEF ContinueCall, mcpOnly
<1>10. ASSUME NEW w \in Workers, PoolStep(w) PROVE UNCHANGED <<view, reported>>
  BY <1>10 DEF PoolStep, StartTool, EnterQueue, ContinueRequest, ToolReturns, FinishTool, mcpOnly
<1>11. ASSUME NEW r \in Refs, WriteProgress(r) PROVE UNCHANGED <<view, reported>>
  BY <1>11 DEF WriteProgress
<1>12. OtherRun \/ Environment \/ UNCHANGED mcpVars => UNCHANGED <<view, reported>>
  BY DEF OtherRun, Environment, mcpVars, mcpOnly
<1> QED BY <1>5, <1>6, <1>7, <1>8, <1>9, <1>10, <1>11, <1>12 DEF McpNext

(* What was written into a run directory, and the run id of a job, stay. *)
LEMMA ArtifactsGrow ==
  ASSUME [McpNext]_mcpVars
  PROVE  artifacts \subseteq artifacts'
<1>1. ASSUME NEW c \in Callers, NEW j \in Jobs, CallRunBenchmarks(c, j) \/ CallJobStatus(c, j)
      PROVE  UNCHANGED artifacts
  BY <1>1 DEF CallRunBenchmarks, CallJobStatus, mcpOnly
<1>2. ASSUME NEW c \in Callers, ContinueCall(c) \/ CopyRecord(c) \/ ReportStatus(c)
      PROVE  UNCHANGED artifacts
  BY <1>2 DEF ContinueCall, CopyRecord, ReportStatus, mcpOnly
<1>3. ASSUME NEW w \in Workers, PoolStep(w) PROVE UNCHANGED artifacts
  BY <1>3 DEF PoolStep, StartTool, EnterQueue, ContinueRequest, ToolReturns, FinishTool, mcpOnly
<1>4. ASSUME NEW r \in Refs, WriteProgress(r) PROVE artifacts \subseteq artifacts'
  BY <1>4 DEF WriteProgress
<1>5. OtherRun \/ Environment \/ UNCHANGED mcpVars => artifacts \subseteq artifacts'
  BY DEF OtherRun, Environment, mcpVars, mcpOnly
<1> QED BY <1>1, <1>2, <1>3, <1>4, <1>5 DEF McpNext

(* "running" is told of a job whose request has passed the locks, or whose   *)
(* run directory somebody has written to.                                    *)
LEMMA RunningStep ==
  ASSUME Parts, McpInv, ToldInv, RunningInv, [McpNext]_mcpVars
  PROVE  RunningInv'
<1> USE McpAssumption, JobStoreAssumption
<1> DEFINE Excused == {j \in Jobs : Passed(j) \/ runId[j] \in artifacts}
<1>1. McpTypeOK /\ JobTypeOK /\ NoRef \notin RunIds
  BY DEF McpInv, Parts, JobInv
<1>2. Excused \subseteq Excused'
  <2> SUFFICES ASSUME NEW j \in Excused
               PROVE  Passed(j)' \/ runId'[j] \in artifacts'
    OBVIOUS
  <2>1. CASE Passed(j)
    <3>1. PICK r \in Refs : rec[r].job = j /\ pc[r] \in Past
      BY <2>1 DEF Passed
    <3>2. rec'[r].job = j /\ pc'[r] \in Past
      BY <3>1, Lasting
    <3> QED BY <3>2 DEF Passed
  <2>2. CASE runId[j] \in artifacts
    <3>1. runId[j] # NoRef
      BY <1>1, <2>2 DEF McpTypeOK
    <3> QED BY <2>2, <3>1, Lasting, ArtifactsGrow
  <2> QED BY <2>1, <2>2
<1>3. ASSUME \A d \in Callers, j \in Jobs :
               reported'[d][j] = "running" => reported[d][j] = "running" \/ j \in Excused
      PROVE  RunningInv'
  <2>1. \A d \in Callers, j \in Jobs : reported'[d][j] = "running" => j \in Excused
    BY <1>3 DEF RunningInv
  <2>2. \A d \in Callers, j \in Jobs : reported'[d][j] = "running" => j \in Excused'
    <3> HIDE DEF Excused
    <3> QED BY <1>2, <2>1
  <2> QED BY <2>2 DEF RunningInv
<1>4. ASSUME NEW c \in Callers, ReportStatus(c) PROVE RunningInv'
  <2> DEFINE v == view[c]
             i == v.job
             b == runId[i] \in artifacts
             e == Effective(v, b)
  <2>1. /\ v # NoRef /\ i \in Jobs
        /\ reported' = [reported EXCEPT ![c][i] = e]
    BY <1>1, <1>4 DEF ReportStatus, McpTypeOK, Views
  <2>2. v.status = "running" /\ v.note = "via queue" => Passed(i)
    BY <2>1 DEF ToldInv
  <2>3. e = "running" => b \/ Passed(i)
    <3> HIDE DEF b
    <3> QED BY <2>2 DEF Effective
  <2>4. e = "running" => i \in Excused
    BY <2>1, <2>3
  <2> HIDE DEF e, i, Excused
  <2> QED BY <1>1, <1>3, <2>1, <2>4 DEF McpTypeOK
<1>5. ASSUME UNCHANGED reported PROVE RunningInv'
  BY <1>3, <1>5
<1>6. ASSUME NEW c \in Callers, NEW j \in Jobs, CallRunBenchmarks(c, j) \/ CallJobStatus(c, j)
      PROVE  UNCHANGED reported
  BY <1>6 DEF CallRunBenchmarks, CallJobStatus, mcpOnly
<1>7. ASSUME NEW c \in Callers, ContinueCall(c) \/ CopyRecord(c) PROVE UNCHANGED reported
  BY <1>7 DEF ContinueCall, CopyRecord, mcpOnly
<1>8. ASSUME NEW w \in Workers, PoolStep(w) PROVE UNCHANGED reported
  BY <1>8 DEF PoolStep, StartTool, EnterQueue, ContinueRequest, ToolReturns, FinishTool, mcpOnly
<1>9. ASSUME NEW r \in Refs, WriteProgress(r) PROVE UNCHANGED reported
  BY <1>9 DEF WriteProgress
<1>10. OtherRun \/ Environment \/ UNCHANGED mcpVars => UNCHANGED reported
  BY DEF OtherRun, Environment, mcpVars, mcpOnly
<1> QED BY <1>4, <1>5, <1>6, <1>7, <1>8, <1>9, <1>10 DEF McpNext

(* A server nobody has called yet. *)
LEMMA McpInitInv == McpInit => McpInv /\ ToldInv /\ RunningInv
<1> SUFFICES ASSUME McpInit PROVE McpInv /\ ToldInv /\ RunningInv
  OBVIOUS
<1> USE McpAssumption, JobStoreAssumption
<1>1. JobInit /\ QueueInit
  BY DEF McpInit
<1>2. McpTypeOK /\ IsFiniteSet(artifacts)
  BY FS_EmptySet DEF McpInit, McpTypeOK, Rank
<1>3. UuidInv
  BY <1>1 DEF JobInit, McpInit, UuidInv, Unused, IdleCaller, Asking
<1>4. WorkInv
  <2>1. /\ \A r \in Refs : pc[r] = "idle" /\ result[r] = "none"
        /\ \A r \in Refs : rec[r].note = "none" /\ rec[r].status = "unused"
        /\ \A w \in Workers : worker[w].pc = "idle"
        /\ artifacts = {}
    BY <1>1 DEF JobInit, QueueInit, McpInit, Unused, IdleWorker
  <2> QED BY <2>1 DEF WorkInv
<1>5. ToldInv /\ RunningInv
  BY DEF McpInit, ToldInv, RunningInv
<1> QED BY <1>2, <1>3, <1>4, <1>5 DEF McpInv

(* The inductive invariant of the composition: one record per job id, record *)
(* and request in step, and nothing told that was not so.                    *)
THEOREM McpInvariant == McpSpec => [](Parts /\ McpInv /\ ToldInv)
<1>1. Parts /\ McpInv /\ ToldInv /\ [McpNext]_mcpVars => McpInv' /\ ToldInv'
  BY McpTypeStep, UuidStep, WorkStep, ToldStep DEF McpInv
<1>2. McpInit => McpInv /\ ToldInv
  BY McpInitInv
<1> QED BY <1>1, <1>2, PartsInvariant, PTL DEF McpSpec, Parts

(* Run ids, run directories, record copies and reports keep their types.     *)
THEOREM McpTypeCorrect == McpSpec => []McpTypeOK
<1>1. McpInv => McpTypeOK
  BY DEF McpInv
<1> QED BY <1>1, McpInvariant, PTL

(* job_status says completed only of a job whose own payload ran under the   *)
(* queue's locks and ended with exit code 0.                                 *)
THEOREM CompletedIsEarned == McpSpec => []CompletedMeansServed
<1>1. McpInv /\ ToldInv /\ Parts => CompletedMeansServed
  <2> SUFFICES ASSUME McpInv, ToldInv, Parts, NEW c \in Callers, NEW r \in Refs,
                      rec[r].job # NoRef, reported[c][rec[r].job] = "completed"
               PROVE  result[r] = "ok" /\ launched[r] > 0 /\ answer[r] \in {"clean", "exhausted"}
    BY DEF CompletedMeansServed
  <2>1. rec[r].job \in Jobs
    BY DEF Parts, JobInv, JobTypeOK, Record
  <2>2. PICK q \in Refs : rec[q].job = rec[r].job /\ Served(q) /\ launched[q] > 0
    BY <2>1 DEF ToldInv, Vouched, ServedRefs
  <2>3. q = r
    BY <2>2 DEF McpInv, UuidInv
  <2> QED BY <2>2, <2>3 DEF Served
<1> QED BY <1>1, McpInvariant, PTL

(* job_status says running only of a job with whose run id, passed by the    *)
(* client or built, a request has passed the queue's locks or another        *)
(* program has run: its own request if nobody else uses the id.              *)
THEOREM RunningHasStarted == McpSpec => []RunningMeansRunStarted
<1>1. RunningInv /\ McpInv /\ Parts => RunningMeansRunStarted
  <2> SUFFICES ASSUME RunningInv, McpInv, Parts, NEW c \in Callers, NEW r \in Refs,
                      rec[r].job # NoRef, reported[c][rec[r].job] = "running"
               PROVE  \/ runId[rec[r].job] \in OtherIds \cap artifacts
                      \/ \E q \in Refs : /\ rec[q].job # NoRef
                                        /\ runId[rec[q].job] = runId[rec[r].job]
                                        /\ pc[q] \in Past
    BY DEF RunningMeansRunStarted
  <2>1. rec[r].job \in Jobs
    BY DEF Parts, JobInv, JobTypeOK, Record
  <2>2. CASE Passed(rec[r].job)
    BY <2>2 DEF Passed
  <2>3. CASE runId[rec[r].job] \in artifacts
    BY <2>3 DEF McpInv, WorkInv
  <2> QED BY <2>1, <2>2, <2>3 DEF RunningInv
<1>2. Parts /\ McpInv /\ ToldInv /\ RunningInv /\ [McpNext]_mcpVars => RunningInv'
  BY RunningStep
<1>3. McpInit => RunningInv
  BY McpInitInv
<1> QED BY <1>1, <1>2, <1>3, McpInvariant, PTL DEF McpSpec

-----------------------------------------------------------------------------
(* A report never goes back *)

(* How far the record and the run directory of a job have come, in sets that *)
(* no step makes smaller: the progress file exists, the request was admitted,*)
(* the record is finished, the record was evicted.                           *)
Progressed == {j \in Jobs : runId[j] \in artifacts}
Begun == Progressed \cup {j \in Jobs : \E r \in Refs : rec[r].job = j /\ rec[r].note = "via queue"}
Ended == {j \in Jobs : \E r \in Refs : rec[r].job = j /\ rec[r].status \in Terminal}
Gone == {j \in Jobs : store[j] = NoRef /\ \E r \in Refs : rec[r].job = j}

Polling(c) == caller[c].pc = "poll" \/ (caller[c].pc = "cleanup" /\ caller[c].op = "poll")

(* A note is written by the runner: it agrees with the status that was       *)
(* written along with it, and a record no thread has taken yet has none.     *)
NoteInv ==
  /\ \A r \in Refs : rec[r].note = "waiting" => rec[r].status # "running"
  /\ \A r \in Refs : rec[r].note = "via queue" => rec[r].status # "queued"
  /\ \A r \in Waiting : rec[r].note = "none"
  /\ \A c \in Submitting : rec[caller[c].ref].note = "none"
  /\ \A c \in Callers : Polling(c) => \E r \in Refs : rec[r].job = caller[c].job

(* A copied record v, of a job this client was told the status told of.      *)
Copied(v, told) ==
  /\ v.note = "waiting" => v.status # "running"
  /\ v.note = "via queue" => v.status # "queued" /\ v.job \in Begun
  /\ v.status \in Terminal => v.job \in Ended
  /\ v.status = "not_found" => v.job \in Gone
  /\ told = "running" /\ v.status \in Live => v.note = "via queue" \/ v.job \in Progressed
  /\ told \in Terminal => v.status \in Terminal \cup {"not_found"}
  /\ told = "not_found" => v.status = "not_found"

CopyInv == \A c \in Callers : view[c] # NoRef => Copied(view[c], reported[c][view[c].job])

(* What was told rests on something that stays.                              *)
ReportInv ==
  \A c \in Callers, j \in Jobs :
    /\ reported[c][j] = "running" => j \in Begun \cup Ended
    /\ reported[c][j] \in Terminal => j \in Ended
    /\ reported[c][j] = "not_found" => j \in Gone

AdvanceInv == NoteInv /\ CopyInv /\ ReportInv

(* An admitted record keeps its note: only a request that has not entered    *)
(* the queue is noted as waiting.                                            *)
LEMMA UpdateNotes ==
  ASSUME Parts, NEW w \in Workers, NEW status \in Live, NEW note \in Notes,
         UpdateJob(w, status, note)
  PROVE  /\ worker[w].ref \in Refs \ Waiting
         /\ \A c \in Submitting : caller[c].ref # worker[w].ref
         /\ rec'[worker[w].ref].status = status /\ rec'[worker[w].ref].note = note
         /\ \A q \in Refs : rec'[q].job = rec[q].job
         /\ \A q \in Refs : q # worker[w].ref => rec'[q] = rec[q]
         /\ UNCHANGED <<store, workQueue, caller>>
<1>1. JobTypeOK /\ OwnershipInv /\ NamesInv /\ LiveJobTracked
  BY DEF Parts, JobInv
<1>2. w \in Busy
  BY DEF UpdateJob, Busy
<1>3. /\ worker[w].ref \in Refs \ Waiting /\ rec[worker[w].ref].status \in Live
      /\ \A c \in Submitting : caller[c].ref # worker[w].ref
  BY <1>1, <1>2 DEF OwnershipInv
<1>4. store[rec[worker[w].ref].job] = worker[w].ref
  BY <1>1, <1>3 DEF LiveJobTracked
<1>5. rec'[worker[w].ref] = [rec[worker[w].ref] EXCEPT !.status = status, !.note = note]
  BY <1>3, <1>4 DEF UpdateJob
<1>6. rec'[worker[w].ref].note = note
  BY <1>1, <1>3, <1>5 DEF JobTypeOK, Record
<1>7. /\ rec'[worker[w].ref].status = status
      /\ \A q \in Refs : rec'[q].job = rec[q].job
      /\ \A q \in Refs : q # worker[w].ref => rec'[q] = rec[q]
  BY <1>1, UpdateFacts
<1>8. UNCHANGED <<store, workQueue, caller>>
  BY DEF UpdateJob
<1> QED BY <1>3, <1>6, <1>7, <1>8

(* What a step of the server does to the records, in the registry's terms:   *)
(* nothing, an insertion, a start, an end, or one of the two notes.          *)
LEMMA RecordCases ==
  ASSUME [McpNext]_mcpVars
  PROVE  \/ UNCHANGED <<rec, workQueue>> /\ UNCHANGED store
            /\ (UNCHANGED caller \/ \E c \in Callers : Refuse(c) \/ Poll(c)
                 \/ \E j \in Jobs : BeginCall(c, "queue", j)
                 \/ \E i \in Jobs : BeginCall(c, "poll", i) /\ \E r \in Refs : rec[r].job = i)
         \/ \E c \in Callers : CleanupLocked(c) \/ Insert(c) \/ Submit(c)
         \/ \E w \in Workers :
              \/ StartJob(w) \/ FinishJob(w)
              \/ UpdateJob(w, "queued", "waiting") /\ pc[worker[w].ref] = "idle"
              \/ UpdateJob(w, "running", "via queue")
<1>1. ASSUME NEW c \in Callers, NEW j \in Jobs, CallRunBenchmarks(c, j) \/ CallJobStatus(c, j)
      PROVE  \/ BeginCall(c, "queue", j)
             \/ BeginCall(c, "poll", j) /\ \E r \in Refs : rec[r].job = j
  BY <1>1 DEF CallRunBenchmarks, CallJobStatus
<1>2. ASSUME NEW c \in Callers, NEW op, NEW j, BeginCall(c, op, j) PROVE UNCHANGED <<rec, workQueue, store>>
  BY <1>2 DEF BeginCall
<1>3. ASSUME NEW c \in Callers, Refuse(c) \/ Poll(c) PROVE UNCHANGED <<rec, workQueue, store>>
  BY <1>3 DEF Refuse, Poll
<1>4. ASSUME NEW c \in Callers, ContinueCall(c) \/ CopyRecord(c) \/ ReportStatus(c)
      PROVE  \/ CleanupLocked(c) \/ Refuse(c) \/ Insert(c) \/ Submit(c) \/ Poll(c)
             \/ UNCHANGED <<rec, workQueue, store, caller>>
  BY <1>4 DEF ContinueCall, CopyRecord, ReportStatus, jobVars
<1>5. ASSUME NEW w \in Workers, PoolStep(w)
      PROVE  \/ StartJob(w) \/ FinishJob(w) \/ UNCHANGED <<rec, workQueue, store, caller>>
             \/ UpdateJob(w, "queued", "waiting") /\ pc[worker[w].ref] = "idle"
             \/ UpdateJob(w, "running", "via queue")
  BY <1>5 DEF PoolStep, StartTool, EnterQueue, ContinueRequest, ToolReturns, FinishTool,
     RunnerReturns, Enter, jobVars
<1>6. ASSUME NEW r \in Refs, WriteProgress(r) PROVE UNCHANGED <<rec, workQueue, store, caller>>
  BY <1>6 DEF WriteProgress, jobVars
<1>7. OtherRun \/ Environment \/ UNCHANGED mcpVars => UNCHANGED <<rec, workQueue, store, caller>>
  BY DEF OtherRun, Environment, Tick, mcpVars, jobVars
<1>8. CASE UNCHANGED <<rec, workQueue, store, caller>>
  BY <1>8
<1> QED BY <1>1, <1>2, <1>3, <1>4, <1>5, <1>6, <1>7, <1>8 DEF McpNext

LEMMA NoteStep ==
  ASSUME Parts, McpInv, NoteInv, [McpNext]_mcpVars
  PROVE  NoteInv'
<1> USE McpAssumption, JobStoreAssumption
<1>1. /\ JobTypeOK /\ OwnershipInv /\ NamesInv /\ LiveJobTracked /\ UuidInv /\ WorkInv
      /\ NoRef \notin Jobs
  BY DEF Parts, JobInv, McpInv
<1>2. ASSUME UNCHANGED <<rec, workQueue>>,
             \A c \in Submitting' : c \in Submitting /\ caller'[c].ref = caller[c].ref,
             \A c \in Callers : Polling(c)' =>
               \/ Polling(c) /\ caller'[c].job = caller[c].job
               \/ \E r \in Refs : rec[r].job = caller'[c].job
      PROVE  NoteInv'
  <2>1. Waiting' = Waiting
    BY <1>2 DEF Waiting
  <2> QED BY <1>2, <2>1 DEF NoteInv
<1>3. ASSUME NEW q \in Refs, q \notin Waiting, \A c \in Submitting : caller[c].ref # q,
             \A r \in Refs : rec'[r].job = rec[r].job,
             \A r \in Refs : r # q => rec'[r] = rec[r],
             rec'[q].note = "waiting" => rec'[q].status # "running",
             rec'[q].note = "via queue" => rec'[q].status # "queued",
             UNCHANGED caller, Waiting' \subseteq Waiting
      PROVE  NoteInv'
  <2>1. Submitting' = Submitting /\ \A c \in Callers : Polling(c)' <=> Polling(c)
    BY <1>3 DEF Submitting, Polling
  <2>2. Waiting \subseteq Refs /\ \A c \in Submitting : caller[c].ref \in Refs
    BY <1>1, WaitingRefs DEF OwnershipInv
  <2> QED BY <1>3, <2>1, <2>2 DEF NoteInv
<1>4. CASE UNCHANGED <<rec, workQueue, store, caller>>
  BY <1>2, <1>4 DEF Submitting, Polling, NoteInv
<1>5. ASSUME NEW c \in Callers,
             \/ Refuse(c) \/ Poll(c) \/ \E j \in Jobs : BeginCall(c, "queue", j)
             \/ \E j \in Jobs : BeginCall(c, "poll", j) /\ \E r \in Refs : rec[r].job = j
      PROVE  NoteInv'
  <2>1. UNCHANGED <<rec, workQueue>>
    BY <1>5 DEF Refuse, Poll, BeginCall
  <2>2. \A d \in Callers \ {c} : caller'[d] = caller[d]
    BY <1>1, <1>5 DEF Refuse, Poll, BeginCall, JobTypeOK
  <2>3. caller'[c].pc # "submit"
    BY <1>1, <1>5 DEF Refuse, Poll, BeginCall, JobTypeOK, IdleCaller
  <2>4. Polling(c)' => \E r \in Refs : rec[r].job = caller'[c].job
    <3>1. CASE Refuse(c) \/ Poll(c) \/ \E j \in Jobs : BeginCall(c, "queue", j)
      BY <1>1, <3>1 DEF Refuse, Poll, BeginCall, JobTypeOK, IdleCaller, Polling
    <3>2. CASE \E j \in Jobs : BeginCall(c, "poll", j) /\ \E r \in Refs : rec[r].job = j
      BY <1>1, <3>2 DEF BeginCall, JobTypeOK
    <3> QED BY <1>5, <3>1, <3>2
  <2>5. \A d \in Callers \ {c} : Polling(d)' => Polling(d)
    BY <2>2 DEF Polling
  <2> QED BY <1>2, <2>1, <2>2, <2>3, <2>4, <2>5 DEF Submitting
<1>6. ASSUME NEW c \in Callers, CleanupLocked(c) PROVE NoteInv'
  <2>1. /\ UNCHANGED <<rec, workQueue>>
        /\ \A d \in Callers \ {c} : caller'[d] = caller[d]
        /\ caller'[c].job = caller[c].job /\ caller'[c].op = caller[c].op
        /\ caller[c].pc = "cleanup"
        /\ caller'[c].pc = IF caller[c].op = "queue" THEN "insert" ELSE "poll"
        /\ caller[c].op \in {"queue", "poll"}
    BY <1>1, <1>6 DEF CleanupLocked, JobTypeOK, CallerState
  <2> QED BY <1>2, <2>1 DEF Submitting, Polling
<1>7. ASSUME NEW c \in Callers, Insert(c) PROVE NoteInv'
  <2>1. PICK q \in Refs :
          /\ rec[q].status = "unused"
          /\ rec' = [rec EXCEPT ![q] = [job |-> caller[c].job, status |-> "queued",
                                        note |-> "none", submitted |-> caller[c].at,
                                        finished |-> 0]]
          /\ caller' = [caller EXCEPT ![c].pc = "submit", ![c].ref = q]
    BY <1>7 DEF Insert
  <2>2. /\ rec'[q].note = "none" /\ rec[q].job = NoRef
        /\ \A r \in Refs : r # q => rec'[r] = rec[r]
    BY <1>1, <2>1 DEF JobTypeOK, UuidInv
  <2>3. /\ caller'[c].ref = q /\ caller'[c].pc = "submit"
        /\ \A d \in Callers \ {c} : caller'[d] = caller[d]
    BY <1>1, <2>1 DEF JobTypeOK, CallerState
  <2>4. Waiting' = Waiting /\ Waiting \subseteq Refs
    BY <1>1, <1>7, WaitingRefs DEF Insert, Waiting
  <2>5. \A d \in Callers : Polling(d)' => Polling(d) /\ caller'[d].job = caller[d].job
    BY <2>3 DEF Polling
  <2>6. \A d \in Callers : Polling(d) => caller[d].job \in Jobs
    BY <1>1 DEF Polling, NamesInv
  <2>7. \A d \in Callers : Polling(d)' => \E r \in Refs : rec'[r].job = caller'[d].job
    <3> SUFFICES ASSUME NEW d \in Callers, Polling(d)'
                 PROVE  \E r \in Refs : rec'[r].job = caller'[d].job
      OBVIOUS
    <3>1. PICK r \in Refs : rec[r].job = caller[d].job
      BY <2>5 DEF NoteInv
    <3>2. r # q
      BY <1>1, <2>2, <2>5, <2>6, <3>1
    <3> QED BY <2>2, <2>5, <3>1, <3>2
  <2>8. \A d \in Submitting' : rec'[caller'[d].ref].note = "none"
    <3> SUFFICES ASSUME NEW d \in Callers, caller'[d].pc = "submit"
                 PROVE  rec'[caller'[d].ref].note = "none"
      BY DEF Submitting
    <3>1. CASE d = c
      BY <2>2, <2>3, <3>1
    <3>2. CASE d # c
      <4>1. d \in Submitting /\ caller'[d] = caller[d]
        BY <2>3, <3>2 DEF Submitting
      <4>2. caller[d].ref \in Refs /\ rec[caller[d].ref].status \in Live
        BY <1>1, <4>1 DEF OwnershipInv
      <4>3. caller[d].ref # q
        BY <2>1, <4>2 DEF Live
      <4> QED BY <2>2, <4>1, <4>2, <4>3 DEF NoteInv
    <3> QED BY <3>1, <3>2
  <2>9. \A r \in Waiting' : rec'[r].note = "none"
    BY <2>2, <2>4 DEF NoteInv
  <2> QED BY <2>2, <2>7, <2>8, <2>9 DEF NoteInv
<1>8. ASSUME NEW c \in Callers, Submit(c) PROVE NoteInv'
  <2>1. c \in Submitting /\ caller[c].ref \in Refs
    BY <1>1, <1>8 DEF Submit, OwnershipInv, Submitting
  <2>2. Waiting' = Waiting \cup {caller[c].ref}
    BY <1>1, <1>8, <2>1, AppendFacts DEF Submit, OwnershipInv
  <2>3. /\ Submitting' \subseteq Submitting /\ \A d \in Submitting' : caller'[d] = caller[d]
        /\ UNCHANGED rec
        /\ \A d \in Callers : Polling(d)' => Polling(d) /\ caller'[d] = caller[d]
    BY <1>1, <1>8 DEF Submit, Submitting, JobTypeOK, IdleCaller, Polling
  <2> QED BY <2>1, <2>2, <2>3 DEF NoteInv
<1>9. ASSUME NEW w \in Workers, StartJob(w) PROVE NoteInv'
  <2> DEFINE q == Head(workQueue)
  <2>1. q \in Waiting /\ q \in Refs /\ Waiting' = Waiting \ {q}
    BY <1>1, <1>9, TailFacts DEF StartJob, OwnershipInv
  <2>2. rec' = [rec EXCEPT ![q].status = "running"] /\ UNCHANGED caller
    BY <1>9 DEF StartJob
  <2> HIDE DEF q
  <2>3. /\ rec'[q].note = rec[q].note /\ rec'[q].status = "running"
        /\ \A r \in Refs : rec'[r].job = rec[r].job /\ rec'[r].note = rec[r].note
        /\ \A r \in Refs : r # q => rec'[r] = rec[r]
    BY <1>1, <2>1, <2>2 DEF JobTypeOK, Record
  <2>4. rec[q].note = "none"
    BY <2>1 DEF NoteInv
  <2>5. Submitting' = Submitting /\ \A c \in Callers : Polling(c)' <=> Polling(c)
    BY <2>2 DEF Submitting, Polling
  <2>6. Waiting \subseteq Refs /\ \A c \in Submitting : caller[c].ref \in Refs
    BY <1>1, WaitingRefs DEF OwnershipInv
  <2>7. \A c \in Callers : Polling(c)' => \E r \in Refs : rec'[r].job = caller'[c].job
    <3> SUFFICES ASSUME NEW c \in Callers, Polling(c)'
                 PROVE  \E r \in Refs : rec'[r].job = caller'[c].job
      OBVIOUS
    <3>1. PICK r \in Refs : rec[r].job = caller[c].job
      BY <2>5 DEF NoteInv
    <3> QED BY <2>2, <2>3, <3>1
  <2>8. /\ \A r \in Waiting' : rec'[r].note = "none"
        /\ \A c \in Submitting' : rec'[caller'[c].ref].note = "none"
    BY <2>1, <2>2, <2>3, <2>5, <2>6 DEF NoteInv
  <2>9. /\ \A r \in Refs : rec'[r].note = "waiting" => rec'[r].status # "running"
        /\ \A r \in Refs : rec'[r].note = "via queue" => rec'[r].status # "queued"
    BY <2>3, <2>4 DEF NoteInv
  <2> QED BY <2>7, <2>8, <2>9 DEF NoteInv
<1>10. ASSUME NEW w \in Workers, FinishJob(w) PROVE NoteInv'
  <2> DEFINE q == worker[w].ref
             status == worker[w].outcome
  <2>1. /\ q \in Refs \ Waiting /\ status \in Terminal
        /\ \A c \in Submitting : caller[c].ref # q
    BY <1>1, <1>10 DEF FinishJob, OwnershipInv, Busy, JobTypeOK, WorkerState
  <2>2. /\ rec' = [rec EXCEPT ![q].status = status, ![q].finished = worker[w].at]
        /\ UNCHANGED <<caller, workQueue>>
    BY <1>10 DEF FinishJob
  <2> HIDE DEF q, status
  <2>3. /\ rec'[q].status = status
        /\ \A r \in Refs : rec'[r].job = rec[r].job
        /\ \A r \in Refs : r # q => rec'[r] = rec[r]
    BY <1>1, <2>1, <2>2 DEF JobTypeOK, Record
  <2>4. Waiting' = Waiting
    BY <2>2 DEF Waiting
  <2>5. rec'[q].status \notin {"running", "queued"}
    BY <2>1, <2>3 DEF Terminal
  <2> QED BY <1>3, <2>1, <2>2, <2>3, <2>4, <2>5
<1>11. ASSUME NEW w \in Workers, NEW status \in Live, NEW note \in Notes, UpdateJob(w, status, note),
              note = "waiting" => status # "running", note = "via queue" => status # "queued"
       PROVE  NoteInv'
  <2>1. Waiting' = Waiting
    BY <1>11 DEF UpdateJob, Waiting
  <2>2. /\ worker[w].ref \in Refs \ Waiting
        /\ \A c \in Submitting : caller[c].ref # worker[w].ref
        /\ rec'[worker[w].ref].status = status /\ rec'[worker[w].ref].note = note
        /\ \A q \in Refs : rec'[q].job = rec[q].job
        /\ \A q \in Refs : q # worker[w].ref => rec'[q] = rec[q]
        /\ UNCHANGED <<store, workQueue, caller>>
    BY <1>11, UpdateNotes
  <2> DEFINE q == worker[w].ref
  <2>3. /\ q \in Refs \ Waiting /\ rec'[q].status = status /\ rec'[q].note = note
        /\ \A c \in Submitting : caller[c].ref # q
        /\ \A r \in Refs : rec'[r].job = rec[r].job
        /\ \A r \in Refs : r # q => rec'[r] = rec[r]
        /\ UNCHANGED caller
    BY <2>2
  <2> HIDE DEF q
  <2> QED BY <1>3, <1>11, <2>1, <2>3
<1>12. Live = {"queued", "running"} /\ Notes = {"none", "waiting", "via queue"}
  BY DEF Live, Notes
<1> QED BY <1>4, <1>5, <1>6, <1>7, <1>8, <1>9, <1>10, <1>11, <1>12, RecordCases

(* No step takes back what the record of a job or its progress file says,    *)
(* and an id that was evicted is not given out again.                        *)
LEMMA StagesLast ==
  ASSUME Parts, McpInv, NoteInv, [McpNext]_mcpVars
  PROVE  /\ Progressed \subseteq Progressed' /\ Begun \subseteq Begun'
         /\ Ended \subseteq Ended' /\ Gone \subseteq Gone'
<1> USE McpAssumption, JobStoreAssumption
<1>1. /\ JobTypeOK /\ OwnershipInv /\ NamesInv /\ LiveJobTracked /\ UuidInv /\ WorkInv
      /\ McpTypeOK /\ NoRef \notin Jobs /\ NoRef \notin RunIds
  BY DEF Parts, JobInv, McpInv
<1>2. /\ \A r \in Refs : rec[r].job # NoRef => rec'[r].job = rec[r].job
      /\ \A j \in Jobs : runId[j] # NoRef => runId'[j] = runId[j]
  BY Lasting
<1>3. artifacts \subseteq artifacts'
  BY ArtifactsGrow
<1>4. Progressed \subseteq Progressed'
  <2>1. \A j \in Jobs : runId[j] \in artifacts => runId[j] # NoRef
    BY <1>1 DEF McpTypeOK
  <2> QED BY <1>2, <1>3, <2>1 DEF Progressed
<1>5. ASSUME NEW r \in Refs, rec[r].note = "via queue" PROVE rec'[r].note = "via queue"
  <2>1. pc[r] # "idle" /\ rec[r].status # "unused"
    BY <1>1, <1>5 DEF WorkInv, Past, Admitted, UuidInv
  <2>2. ASSUME NEW c \in Callers, Insert(c) PROVE rec'[r].note = "via queue"
    BY <1>1, <1>5, <2>1, <2>2 DEF Insert, JobTypeOK
  <2>3. ASSUME NEW w \in Workers, StartJob(w) \/ FinishJob(w) PROVE rec'[r].note = "via queue"
    <3>1. CASE StartJob(w)
      <4> DEFINE q == Head(workQueue)
      <4>1. rec' = [rec EXCEPT ![q].status = "running"]
        BY <3>1 DEF StartJob
      <4> HIDE DEF q
      <4>2. rec'[r].note = rec[r].note
        BY <1>1, <4>1 DEF JobTypeOK, Record
      <4> QED BY <1>5, <4>2
    <3>2. CASE FinishJob(w)
      <4> DEFINE q == worker[w].ref
                 status == worker[w].outcome
                 at == worker[w].at
      <4>1. rec' = [rec EXCEPT ![q].status = status, ![q].finished = at]
        BY <3>2 DEF FinishJob
      <4> HIDE DEF q, status, at
      <4>2. rec'[r].note = rec[r].note
        BY <1>1, <4>1 DEF JobTypeOK, Record
      <4> QED BY <1>5, <4>2
    <3> QED BY <2>3, <3>1, <3>2
  <2>4. ASSUME NEW w \in Workers,
               \/ UpdateJob(w, "queued", "waiting") /\ pc[worker[w].ref] = "idle"
               \/ UpdateJob(w, "running", "via queue")
        PROVE  rec'[r].note = "via queue"
    <3>1. CASE r = worker[w].ref
      <4>1. UpdateJob(w, "running", "via queue")
        BY <2>1, <2>4, <3>1
      <4> QED BY <3>1, <4>1, UpdateNotes DEF Live, Notes
    <3>2. CASE r # worker[w].ref
      <4>1. PICK status \in Live, note \in Notes : UpdateJob(w, status, note)
        BY <2>4 DEF Live, Notes
      <4>2. rec'[r] = rec[r]
        BY <3>2, <4>1, UpdateNotes
      <4> QED BY <1>5, <4>2
    <3> QED BY <3>1, <3>2
  <2> QED BY <1>5, <2>2, <2>3, <2>4, RecordCases DEF CleanupLocked, Submit
<1>6. Begun \subseteq Begun'
  <2> SUFFICES ASSUME NEW j \in Jobs, NEW r \in Refs, rec[r].job = j, rec[r].note = "via queue"
               PROVE  rec'[r].job = j /\ rec'[r].note = "via queue"
    BY <1>4 DEF Begun
  <2> QED BY <1>1, <1>2, <1>5
<1>7. Ended \subseteq Ended'
  <2> SUFFICES ASSUME NEW j \in Jobs, NEW r \in Refs, rec[r].job = j, rec[r].status \in Terminal
               PROVE  rec'[r].job = j /\ rec'[r].status \in Terminal
    BY DEF Ended
  <2>1. rec'[r].status = rec[r].status
    BY StepOfParts, FinalStep DEF Parts
  <2> QED BY <1>1, <1>2, <2>1
<1>8. ASSUME NEW j \in Jobs, NEW r \in Refs, rec[r].job = j, store[j] = NoRef
      PROVE  store'[j] = NoRef
  <2>1. ASSUME NEW c \in Callers, CleanupLocked(c) PROVE store'[j] = NoRef
    BY <1>1, <1>8, <2>1 DEF CleanupLocked, Evict, JobTypeOK
  <2>2. ASSUME NEW c \in Callers, Insert(c) PROVE store'[j] = NoRef
    <3>1. Asking(c) /\ caller[c].job # j
      BY <1>1, <1>8, <2>2 DEF Insert, Asking, UuidInv
    <3>2. PICK q \in Refs : store' = [store EXCEPT ![caller[c].job] = q]
      BY <2>2 DEF Insert
    <3> QED BY <1>1, <1>8, <3>1, <3>2 DEF JobTypeOK
  <2>3. ASSUME NEW c \in Callers, Submit(c) PROVE store'[j] = NoRef
    BY <1>8, <2>3 DEF Submit
  <2>4. ASSUME NEW w \in Workers, StartJob(w) \/ FinishJob(w) PROVE store'[j] = NoRef
    BY <1>8, <2>4 DEF StartJob, FinishJob
  <2>5. ASSUME NEW w \in Workers,
               UpdateJob(w, "queued", "waiting") \/ UpdateJob(w, "running", "via queue")
        PROVE  store'[j] = NoRef
    BY <1>8, <2>5 DEF UpdateJob
  <2> QED BY <1>8, <2>1, <2>2, <2>3, <2>4, <2>5, RecordCases
<1>9. Gone \subseteq Gone'
  <2> SUFFICES ASSUME NEW j \in Jobs, NEW r \in Refs, rec[r].job = j, store[j] = NoRef
               PROVE  rec'[r].job = j /\ store'[j] = NoRef
    BY DEF Gone
  <2> QED BY <1>1, <1>2, <1>8
<1> QED BY <1>4, <1>6, <1>7, <1>9

(* The ranks a client sees a job advance by.                                 *)
LEMMA RankFacts ==
  /\ DOMAIN Rank = {"none", "queued", "running", "completed", "error", "not_found"}
  /\ Rank["none"] = 0 /\ Rank["queued"] = 1 /\ Rank["running"] = 2
  /\ Rank["completed"] = 3 /\ Rank["error"] = 3 /\ Rank["not_found"] = 4
BY DEF Rank

(* What is copied, and then told, is never behind what was told before.      *)
LEMMA AdvanceStep ==
  ASSUME Parts, McpInv, AdvanceInv, [McpNext]_mcpVars
  PROVE  /\ AdvanceInv'
         /\ \A c \in Callers, j \in Jobs : Rank[reported'[c][j]] >= Rank[reported[c][j]]
<1> USE McpAssumption, JobStoreAssumption
<1>1. /\ McpTypeOK /\ JobTypeOK /\ NamesInv /\ UuidInv /\ NoRef \notin Jobs
      /\ NoteInv /\ CopyInv /\ ReportInv
      /\ \A c \in Callers : view[c] # NoRef => view[c] \in Views
      /\ reported \in [Callers -> [Jobs -> DOMAIN Rank]]
  BY DEF Parts, JobInv, McpInv, McpTypeOK, AdvanceInv
<1>2. NoteInv'
  BY <1>1, NoteStep
<1>3. /\ Progressed \subseteq Progressed' /\ Begun \subseteq Begun'
      /\ Ended \subseteq Ended' /\ Gone \subseteq Gone'
  BY <1>1, StagesLast
<1>5. \A c \in Callers, j \in Jobs : reported[c][j] \in DOMAIN Rank
  BY <1>1
<1>6. CASE UNCHANGED reported /\ \A c \in Callers : view'[c] = view[c] \/ view'[c] = NoRef
  <2>1. \A c \in Callers, j \in Jobs : Rank[reported'[c][j]] >= Rank[reported[c][j]]
    <3>1. \A s \in DOMAIN Rank : Rank[s] \in Nat
      BY DEF Rank
    <3> QED BY <1>5, <1>6, <3>1
  <2>2. ReportInv'
    BY <1>1, <1>3, <1>6 DEF ReportInv
  <2>3. CopyInv'
    <3> SUFFICES ASSUME NEW c \in Callers, view'[c] # NoRef
                 PROVE  Copied(view[c], reported[c][view[c].job])'
      BY DEF CopyInv
    <3>1. view'[c] = view[c] /\ view[c] # NoRef
      BY <1>6
    <3>2. Copied(view[c], reported[c][view[c].job])
      BY <1>1, <3>1 DEF CopyInv
    <3>3. view'[c] = view[c] /\ reported'[c][view'[c].job] = reported[c][view[c].job]
      BY <1>6, <3>1
    <3> QED BY <1>3, <3>2, <3>3 DEF Copied
  <2> QED BY <1>2, <2>1, <2>2, <2>3 DEF AdvanceInv
<1>7. ASSUME NEW c \in Callers, CopyRecord(c)
      PROVE  UNCHANGED <<reported, rec, store, runId, artifacts>> /\ CopyInv'
  <2> DEFINE j == caller[c].job
             v == [job |-> j, status |-> Status(j),
                   note |-> IF store[j] = NoRef THEN "none" ELSE rec[store[j]].note]
             told == reported[c][j]
  <2>1. /\ view' = [view EXCEPT ![c] = v]
        /\ UNCHANGED <<reported, rec, store, runId, artifacts>>
        /\ j \in Jobs /\ Polling(c)
    BY <1>1, <1>7 DEF CopyRecord, Poll, queueVars, NamesInv, Polling
  <2>2. PICK r \in Refs : rec[r].job = j
    BY <1>1, <2>1 DEF NoteInv
  <2>3. Copied(v, told)
    <3>1. CASE store[j] = NoRef
      BY <2>1, <2>2, <3>1 DEF Copied, Status, Gone, Terminal, Live
    <3>2. CASE store[j] # NoRef
      <4>1. /\ store[j] \in Refs /\ rec[store[j]].job = j
            /\ v.status = rec[store[j]].status /\ v.note = rec[store[j]].note
            /\ v.job = j /\ v.status \in Live \cup Terminal
        <5>1. /\ store[j] \in Refs /\ rec[store[j]].job = j /\ Status(j) = rec[store[j]].status
              /\ Status(j) \in Live \cup Terminal \cup {"not_found"}
          BY <2>1, <3>2, StatusFacts
        <5>2. rec[store[j]].status # "not_found"
          BY <1>1, <5>1 DEF JobTypeOK, Record, Live, Terminal
        <5> QED BY <3>2, <5>1, <5>2
      <4>2. \A q \in Refs : rec[q].job = j => q = store[j]
        BY <1>1, <2>1, <4>1 DEF UuidInv
      <4> HIDE DEF v
      <4>3. /\ v.note = "waiting" => v.status # "running"
            /\ v.note = "via queue" => v.status # "queued" /\ v.job \in Begun
            /\ v.status \in Terminal => v.job \in Ended
        BY <1>1, <2>1, <4>1 DEF NoteInv, Begun, Ended
      <4>4. told = "running" /\ v.status \in Live => v.note = "via queue" \/ v.job \in Progressed
        <5>1. told = "running" => j \in Begun \cup Ended
          BY <1>1, <2>1 DEF ReportInv
        <5>2. j \in Ended => v.status \in Terminal
          BY <4>1, <4>2 DEF Ended
        <5>3. j \in Begun => v.note = "via queue" \/ j \in Progressed
          BY <4>1, <4>2 DEF Begun
        <5>4. Live \cap Terminal = {}
          BY DEF Live, Terminal
        <5> QED BY <4>1, <5>1, <5>2, <5>3, <5>4
      <4>5. told \in Terminal => v.status \in Terminal
        BY <1>1, <2>1, <4>1, <4>2 DEF ReportInv, Ended
      <4>6. told # "not_found"
        BY <1>1, <2>1, <3>2 DEF ReportInv, Gone
      <4>7. v.status # "not_found"
        BY <4>1 DEF Live, Terminal
      <4> QED BY <4>3, <4>4, <4>5, <4>6, <4>7 DEF Copied
    <3> QED BY <3>1, <3>2
  <2>4. view'[c] = v /\ v.job = j /\ \A d \in Callers \ {c} : view'[d] = view[d]
    BY <1>1, <2>1 DEF McpTypeOK
  <2> HIDE DEF v, j
  <2>5. CopyInv'
    <3> SUFFICES ASSUME NEW d \in Callers, view'[d] # NoRef
                 PROVE  Copied(view[d], reported[d][view[d].job])'
      BY DEF CopyInv
    <3>1. CASE d = c
      <4>1. view'[d] = v /\ reported'[d][view'[d].job] = told
        BY <2>1, <2>4, <3>1
      <4> QED BY <1>3, <2>3, <4>1 DEF Copied
    <3>2. CASE d # c
      <4>1. view'[d] = view[d] /\ reported'[d][view'[d].job] = reported[d][view[d].job]
        BY <2>1, <2>4, <3>2
      <4>2. Copied(view[d], reported[d][view[d].job])
        BY <1>1, <4>1 DEF CopyInv
      <4> QED BY <1>3, <4>1, <4>2 DEF Copied
    <3> QED BY <3>1, <3>2
  <2> QED BY <2>1, <2>5
<1>8. ASSUME NEW c \in Callers, ReportStatus(c)
      PROVE  /\ CopyInv' /\ ReportInv'
             /\ \A d \in Callers, j \in Jobs : Rank[reported'[d][j]] >= Rank[reported[d][j]]
  <2> DEFINE v == view[c]
             j == v.job
             told == reported[c][j]
             e == Effective(v, runId[j] \in artifacts)
  <2>1. /\ v # NoRef /\ v \in Views /\ j \in Jobs
        /\ reported' = [reported EXCEPT ![c][j] = e]
        /\ view' = [view EXCEPT ![c] = NoRef]
        /\ Copied(v, told)
        /\ j \in Progressed <=> runId[j] \in artifacts
    BY <1>1, <1>8 DEF ReportStatus, Views, CopyInv, Progressed
  <2>2. /\ v.status \in {"queued", "running", "completed", "error", "not_found"}
        /\ told \in {"none", "queued", "running", "completed", "error", "not_found"}
    BY <1>1, <2>1, RankFacts DEF Views, Live, Terminal
  <2>3. /\ e \in {"queued", "running", "completed", "error", "not_found"}
        /\ e = "running" => j \in Begun
        /\ e \in Terminal => j \in Ended
        /\ e = "not_found" => j \in Gone
        /\ told = "running" => e # "queued"
        /\ told \in Terminal => e \in Terminal \cup {"not_found"}
        /\ told = "not_found" => e = "not_found"
    BY <2>1, <2>2 DEF Effective, Copied, Begun, Terminal, Live
  <2>4. Rank[e] >= Rank[told]
    BY <2>2, <2>3, RankFacts DEF Terminal
  <2>5. /\ reported'[c][j] = e
        /\ \A d \in Callers, i \in Jobs : d # c \/ i # j => reported'[d][i] = reported[d][i]
        /\ view'[c] = NoRef /\ \A d \in Callers \ {c} : view'[d] = view[d]
    <3> HIDE DEF e, j
    <3> QED BY <1>1, <2>1 DEF McpTypeOK
  <2>6. \A d \in Callers, i \in Jobs : Rank[reported'[d][i]] >= Rank[reported[d][i]]
    <3>1. \A s \in DOMAIN Rank : Rank[s] \in Nat
      BY DEF Rank
    <3> HIDE DEF e, j
    <3> QED BY <1>5, <2>4, <2>5, <3>1
  <2>7. ReportInv'
    <3> SUFFICES ASSUME NEW d \in Callers, NEW i \in Jobs
                 PROVE  /\ reported'[d][i] = "running" => i \in Begun \cup Ended
                        /\ reported'[d][i] \in Terminal => i \in Ended
                        /\ reported'[d][i] = "not_found" => i \in Gone
      BY <1>3 DEF ReportInv
    <3> HIDE DEF e, j
    <3>1. CASE d = c /\ i = j
      BY <2>3, <2>5, <3>1
    <3>2. CASE d # c \/ i # j
      BY <1>1, <2>5, <3>2 DEF ReportInv
    <3> QED BY <3>1, <3>2
  <2>8. CopyInv'
    <3> SUFFICES ASSUME NEW d \in Callers, view'[d] # NoRef
                 PROVE  Copied(view[d], reported[d][view[d].job])'
      BY DEF CopyInv
    <3>1. d # c /\ view'[d] = view[d] /\ view[d].job \in Jobs
      BY <1>1, <2>5 DEF Views
    <3>2. reported'[d][view'[d].job] = reported[d][view[d].job]
      BY <2>5, <3>1
    <3>3. Copied(view[d], reported[d][view[d].job])
      BY <1>1, <3>1 DEF CopyInv
    <3> QED BY <1>3, <3>1, <3>2, <3>3 DEF Copied
  <2> QED BY <2>6, <2>7, <2>8
<1>9. ASSUME NEW c \in Callers, CopyRecord(c)
      PROVE  /\ CopyInv' /\ ReportInv'
             /\ \A d \in Callers, j \in Jobs : Rank[reported'[d][j]] >= Rank[reported[d][j]]
  <2>1. \A s \in DOMAIN Rank : Rank[s] \in Nat
    BY DEF Rank
  <2>2. \A d \in Callers, j \in Jobs : Rank[reported'[d][j]] >= Rank[reported[d][j]]
    BY <1>5, <1>7, <1>9, <2>1
  <2>3. ReportInv'
    BY <1>1, <1>3, <1>7, <1>9 DEF ReportInv
  <2> QED BY <1>7, <1>9, <2>2, <2>3
<1>10. ASSUME NEW c \in Callers, NEW j \in Jobs, CallRunBenchmarks(c, j) \/ CallJobStatus(c, j)
       PROVE  UNCHANGED <<view, reported>>
  BY <1>10 DEF CallRunBenchmarks, CallJobStatus, mcpOnly
<1>11. ASSUME NEW c \in Callers, ContinueCall(c) PROVE UNCHANGED <<view, reported>>
  BY <1>11 DEF ContinueCall, mcpOnly
<1>12. ASSUME NEW w \in Workers, PoolStep(w) PROVE UNCHANGED <<view, reported>>
  BY <1>12 DEF PoolStep, StartTool, EnterQueue, ContinueRequest, ToolReturns, FinishTool, mcpOnly
<1>13. ASSUME NEW r \in Refs, WriteProgress(r) PROVE UNCHANGED <<view, reported>>
  BY <1>13 DEF WriteProgress
<1>14. OtherRun \/ Environment \/ UNCHANGED mcpVars => UNCHANGED <<view, reported>>
  BY DEF OtherRun, Environment, mcpVars, mcpOnly
<1> HIDE DEF AdvanceInv
<1> QED
  BY <1>2, <1>6, <1>8, <1>9, <1>10, <1>11, <1>12, <1>13, <1>14 DEF McpNext, AdvanceInv

(* What one client is told of a job never goes back: queued, running,        *)
(* finished, forgotten, whatever the record and the progress file do between *)
(* the copy of the one and the look at the other.                            *)
THEOREM ReportsAdvance == McpSpec => ReportNeverRegresses
<1>1. McpInit => AdvanceInv
  <2> SUFFICES ASSUME McpInit PROVE AdvanceInv
    OBVIOUS
  <2>1. JobInit
    BY DEF McpInit
  <2>2. NoteInv
    <3>1. Waiting = {}
      BY <2>1, EmptySeq DEF JobInit, Waiting
    <3> QED BY <2>1, <3>1 DEF NoteInv, JobInit, Unused, IdleCaller, Submitting, Polling
  <2>3. CopyInv /\ ReportInv
    BY DEF McpInit, CopyInv, ReportInv, Terminal
  <2> QED BY <2>2, <2>3 DEF AdvanceInv
<1>2. Parts /\ McpInv /\ AdvanceInv /\ [McpNext]_mcpVars => AdvanceInv'
  BY AdvanceStep
<1>3. Parts /\ McpInv /\ AdvanceInv /\ [McpNext]_mcpVars =>
        \A c \in Callers, j \in Jobs : Rank[reported'[c][j]] >= Rank[reported[c][j]]
  BY AdvanceStep
<1> QED BY <1>1, <1>2, <1>3, McpInvariant, PTL DEF McpSpec, ReportNeverRegresses
=============================================================================
