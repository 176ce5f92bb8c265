-------------------------- MODULE QueueRunnerProofs -------------------------
(* Proofs about the queue runner for any number of requests, servers, sweeps *)
(* and foreign benchmarks and any retry limit.                               *)
EXTENDS QueueRunner, TLAPS

(* What the retry budget rests on: at every program point, how often the     *)
(* payload was launched follows from retries, and an answer is given last.   *)
RetryInv ==
  \A t \in Threads :
    /\ pc[t] \in {"idle", "queue", "flock"} => launched[t] = 0 /\ retries[t] = 0
    /\ pc[t] \in {"gate", "ready"} => launched[t] = retries[t] /\ retries[t] <= MaxRetries
    /\ pc[t] \in {"running", "settle"} =>
         launched[t] = retries[t] + 1 /\ retries[t] <= MaxRetries
    /\ pc[t] \notin {"release", "unlock"} \cup Over => answer[t] = "none"
    /\ launched[t] <= MaxRetries + 1
    /\ answer[t] = "exhausted" => launched[t] = MaxRetries + 1 /\ result[t] = "ok"

(* Past the idle gate nothing is left of earlier payloads, and what is left  *)
(* belongs to requests that died with their server.                          *)
GateInv ==
  /\ hidden = {}
  /\ \A t \in orphans : pc[t] = "dead"
  /\ \A t \in Threads : pc[t] \in {"ready", "running"} => orphans = {}

USE DEF queueVars, locks, attempt, processes, Admitted, InQueue, Over

(* Type correctness is kept by every step: retries stays within its range    *)
(* because a request leaves the loop when the limit is passed (RetryInv).    *)
LEMMA TypeStep == QueueTypeOK /\ RetryInv /\ [QueueNext]_queueVars => QueueTypeOK'
<1> SUFFICES ASSUME QueueTypeOK, RetryInv, [QueueNext]_queueVars
             PROVE  QueueTypeOK'
  OBVIOUS
<1> USE QueueAssumption
<1>1. ASSUME NEW t \in Threads, Enter(t) PROVE QueueTypeOK'
  BY <1>1 DEF QueueTypeOK, Enter, Goto, Return, Answers
<1>2. ASSUME NEW t \in Threads, TakeQueueLock(t) PROVE QueueTypeOK'
  BY <1>2 DEF QueueTypeOK, TakeQueueLock, Goto
<1>3. ASSUME NEW t \in Threads, PollRunnerLock(t) PROVE QueueTypeOK'
  BY <1>3 DEF QueueTypeOK, PollRunnerLock, Goto, Return, Answers
<1>4. ASSUME NEW t \in Threads, RunnerLockUnavailable(t) PROVE QueueTypeOK'
  BY <1>4 DEF QueueTypeOK, RunnerLockUnavailable, Goto, Return, Answers
<1>5. ASSUME NEW t \in Threads, IdleGate(t) PROVE QueueTypeOK'
  BY <1>5 DEF QueueTypeOK, IdleGate, Goto, Return, Answers
<1>6. ASSUME NEW t \in Threads, StartPayload(t) PROVE QueueTypeOK'
  BY <1>6 DEF QueueTypeOK, StartPayload, Goto
<1>7. ASSUME NEW t \in Threads, NEW code \in {"ok", "failed"}, PayloadEnds(t, code)
      PROVE  QueueTypeOK'
  BY <1>7 DEF QueueTypeOK, PayloadEnds, Goto
<1>8. ASSUME NEW t \in Threads, PayloadRaises(t) PROVE QueueTypeOK'
  BY <1>8 DEF QueueTypeOK, PayloadRaises, Goto, Return, Answers
<1>9. ASSUME NEW t \in Threads, Settle(t) PROVE QueueTypeOK'
  <2>1. retries[t] \in Nat /\ retries[t] <= MaxRetries
    BY <1>9 DEF Settle, RetryInv, QueueTypeOK
  <2>2. retries' \in [Threads -> 0..(MaxRetries + 1)]
    BY <1>9, <2>1 DEF Settle, QueueTypeOK
  <2>3. pc' \in [Threads -> {"idle", "queue"} \cup InQueue \cup Over]
    BY <1>9 DEF Settle, QueueTypeOK, Goto, Return
  <2>4. answer' \in [Threads -> Answers \cup {"none"}]
    BY <1>9 DEF Settle, QueueTypeOK, Goto, Return, Answers
  <2> QED BY <1>9, <2>2, <2>3, <2>4 DEF Settle, QueueTypeOK
<1>10. ASSUME NEW t \in Threads, Release(t) PROVE QueueTypeOK'
  BY <1>10 DEF QueueTypeOK, Release, Goto
<1>11. ASSUME NEW t \in Threads, Unlock(t) PROVE QueueTypeOK'
  BY <1>11 DEF QueueTypeOK, Unlock, Goto
<1>12. ASSUME NEW t \in Threads, MonitorSees(t) PROVE QueueTypeOK'
  BY <1>12 DEF QueueTypeOK, MonitorSees
<1>13. ASSUME NEW s \in Servers, CrashServer(s) PROVE QueueTypeOK'
  BY <1>13 DEF QueueTypeOK, CrashServer, Payloads
<1>14. ASSUME NEW p \in Threads \cup Sweeps, LeftoverEnds(p) PROVE QueueTypeOK'
  BY <1>14 DEF QueueTypeOK, LeftoverEnds
<1>15. ASSUME NEW x \in Sweeps,
              SweepStarts(x) \/ SweepPollsLock(x) \/ SweepEndsStage(x) \/ SweepExits(x)
       PROVE  QueueTypeOK'
  BY <1>15 DEF QueueTypeOK, SweepStarts, SweepPollsLock, SweepEndsStage, SweepExits
<1>16. ASSUME NEW f \in Foreign, ForeignSteps(f) PROVE QueueTypeOK'
  BY <1>16 DEF QueueTypeOK, ForeignSteps
<1>17. CASE UNCHANGED queueVars
  BY <1>17 DEF QueueTypeOK
<1> QED
  BY <1>1, <1>2, <1>3, <1>4, <1>5, <1>6, <1>7, <1>8, <1>9, <1>10, <1>11, <1>12, <1>13,
     <1>14, <1>15, <1>16, <1>17 DEF QueueNext, RequestStep

(* A lock changes hands only at its acquisition and at its release; a crash  *)
(* frees the locks of the threads it ends and of no others.                  *)
LEMMA LocksStep ==
  QueueTypeOK /\ LocksMatchCalls /\ [QueueNext]_queueVars => LocksMatchCalls'
<1> SUFFICES ASSUME QueueTypeOK, LocksMatchCalls, [QueueNext]_queueVars
             PROVE  LocksMatchCalls'
  OBVIOUS
<1> USE QueueAssumption
<1>1. ASSUME NEW t \in Threads, Enter(t) PROVE LocksMatchCalls'
  BY <1>1 DEF QueueTypeOK, LocksMatchCalls, Enter, Goto, Return
<1>2. ASSUME NEW t \in Threads, TakeQueueLock(t) PROVE LocksMatchCalls'
  BY <1>2 DEF QueueTypeOK, LocksMatchCalls, TakeQueueLock, Goto
<1>3. ASSUME NEW t \in Threads, PollRunnerLock(t) PROVE LocksMatchCalls'
  BY <1>3 DEF QueueTypeOK, LocksMatchCalls, PollRunnerLock, Goto, Return
<1>4. ASSUME NEW t \in Threads, RunnerLockUnavailable(t) PROVE LocksMatchCalls'
  BY <1>4 DEF QueueTypeOK, LocksMatchCalls, RunnerLockUnavailable, Goto, Return
<1>5. ASSUME NEW t \in Threads, IdleGate(t) PROVE LocksMatchCalls'
  BY <1>5 DEF QueueTypeOK, LocksMatchCalls, IdleGate, Goto, Return
<1>6. ASSUME NEW t \in Threads, StartPayload(t) PROVE LocksMatchCalls'
  BY <1>6 DEF QueueTypeOK, LocksMatchCalls, StartPayload, Goto
<1>7. ASSUME NEW t \in Threads, NEW code \in {"ok", "failed"}, PayloadEnds(t, code)
      PROVE  LocksMatchCalls'
  BY <1>7 DEF QueueTypeOK, LocksMatchCalls, PayloadEnds, Goto
<1>8. ASSUME NEW t \in Threads, PayloadRaises(t) PROVE LocksMatchCalls'
  BY <1>8 DEF QueueTypeOK, LocksMatchCalls, PayloadRaises, Goto, Return
<1>9. ASSUME NEW t \in Threads, Settle(t) PROVE LocksMatchCalls'
  BY <1>9 DEF QueueTypeOK, LocksMatchCalls, Settle, Goto, Return
<1>10. ASSUME NEW t \in Threads, Release(t) PROVE LocksMatchCalls'
  BY <1>10 DEF QueueTypeOK, LocksMatchCalls, Release, Goto
<1>11. ASSUME NEW t \in Threads, Unlock(t) PROVE LocksMatchCalls'
  BY <1>11 DEF QueueTypeOK, LocksMatchCalls, Unlock, Goto
<1>12. ASSUME NEW t \in Threads, MonitorSees(t) PROVE LocksMatchCalls'
  BY <1>12 DEF QueueTypeOK, LocksMatchCalls, MonitorSees
<1>13. ASSUME NEW s \in Servers, CrashServer(s) PROVE LocksMatchCalls'
  BY <1>13 DEF QueueTypeOK, LocksMatchCalls, CrashServer, Payloads
<1>14. ASSUME NEW p \in Threads \cup Sweeps, LeftoverEnds(p) PROVE LocksMatchCalls'
  BY <1>14 DEF QueueTypeOK, LocksMatchCalls, LeftoverEnds
<1>15. ASSUME NEW x \in Sweeps,
              SweepStarts(x) \/ SweepPollsLock(x) \/ SweepEndsStage(x) \/ SweepExits(x)
       PROVE  LocksMatchCalls'
  BY <1>15 DEF QueueTypeOK, LocksMatchCalls, SweepStarts, SweepPollsLock, SweepEndsStage, SweepExits
<1>16. ASSUME NEW f \in Foreign, ForeignSteps(f) PROVE LocksMatchCalls'
  BY <1>16 DEF QueueTypeOK, LocksMatchCalls, ForeignSteps
<1>17. CASE UNCHANGED queueVars
  BY <1>17 DEF QueueTypeOK, LocksMatchCalls
<1> QED
  BY <1>1, <1>2, <1>3, <1>4, <1>5, <1>6, <1>7, <1>8, <1>9, <1>10, <1>11, <1>12, <1>13,
     <1>14, <1>15, <1>16, <1>17 DEF QueueNext, RequestStep

(* Each pass through the loop launches once and counts one retry, and only   *)
(* the pass that exceeds the limit leaves with the answer exhausted.         *)
LEMMA RetryStep ==
  QueueTypeOK /\ RetryInv /\ [QueueNext]_queueVars => RetryInv'
<1> SUFFICES ASSUME QueueTypeOK, RetryInv, [QueueNext]_queueVars
             PROVE  RetryInv'
  OBVIOUS
<1> USE QueueAssumption
<1>1. ASSUME NEW t \in Threads, Enter(t) PROVE RetryInv'
  BY <1>1 DEF QueueTypeOK, RetryInv, Enter, Goto, Return
<1>2. ASSUME NEW t \in Threads, TakeQueueLock(t) PROVE RetryInv'
  BY <1>2 DEF QueueTypeOK, RetryInv, TakeQueueLock, Goto
<1>3. ASSUME NEW t \in Threads, PollRunnerLock(t) PROVE RetryInv'
  BY <1>3 DEF QueueTypeOK, RetryInv, PollRunnerLock, Goto, Return
<1>4. ASSUME NEW t \in Threads, RunnerLockUnavailable(t) PROVE RetryInv'
  BY <1>4 DEF QueueTypeOK, RetryInv, RunnerLockUnavailable, Goto, Return
<1>5. ASSUME NEW t \in Threads, IdleGate(t) PROVE RetryInv'
  BY <1>5 DEF QueueTypeOK, RetryInv, IdleGate, Goto, Return
<1>6. ASSUME NEW t \in Threads, StartPayload(t) PROVE RetryInv'
  BY <1>6 DEF QueueTypeOK, RetryInv, StartPayload, Goto
<1>7. ASSUME NEW t \in Threads, NEW code \in {"ok", "failed"}, PayloadEnds(t, code)
      PROVE  RetryInv'
  BY <1>7 DEF QueueTypeOK, RetryInv, PayloadEnds, Goto
<1>8. ASSUME NEW t \in Threads, PayloadRaises(t) PROVE RetryInv'
  BY <1>8 DEF QueueTypeOK, RetryInv, PayloadRaises, Goto, Return
<1>9. ASSUME NEW t \in Threads, Settle(t) PROVE RetryInv'
  BY <1>9 DEF QueueTypeOK, RetryInv, Settle, Goto, Return
<1>10. ASSUME NEW t \in Threads, Release(t) PROVE RetryInv'
  BY <1>10 DEF QueueTypeOK, RetryInv, Release, Goto
<1>11. ASSUME NEW t \in Threads, Unlock(t) PROVE RetryInv'
  BY <1>11 DEF QueueTypeOK, RetryInv, Unlock, Goto
<1>12. ASSUME NEW t \in Threads, MonitorSees(t) PROVE RetryInv'
  BY <1>12 DEF QueueTypeOK, RetryInv, MonitorSees
<1>13. ASSUME NEW s \in Servers, CrashServer(s) PROVE RetryInv'
  BY <1>13 DEF QueueTypeOK, RetryInv, CrashServer, Payloads
<1>14. ASSUME NEW p \in Threads \cup Sweeps, LeftoverEnds(p) PROVE RetryInv'
  BY <1>14 DEF QueueTypeOK, RetryInv, LeftoverEnds
<1>15. ASSUME NEW x \in Sweeps,
              SweepStarts(x) \/ SweepPollsLock(x) \/ SweepEndsStage(x) \/ SweepExits(x)
       PROVE  RetryInv'
  BY <1>15 DEF QueueTypeOK, RetryInv, SweepStarts, SweepPollsLock, SweepEndsStage, SweepExits
<1>16. ASSUME NEW f \in Foreign, ForeignSteps(f) PROVE RetryInv'
  BY <1>16 DEF QueueTypeOK, RetryInv, ForeignSteps
<1>17. CASE UNCHANGED queueVars
  BY <1>17 DEF QueueTypeOK, RetryInv
<1> QED
  BY <1>1, <1>2, <1>3, <1>4, <1>5, <1>6, <1>7, <1>8, <1>9, <1>10, <1>11, <1>12, <1>13,
     <1>14, <1>15, <1>16, <1>17 DEF QueueNext, RequestStep

-----------------------------------------------------------------------------
(* Safety theorems                                                           *)

QueueInv == QueueTypeOK /\ LocksMatchCalls /\ RetryInv

(* Before any call, locks are free and nothing was launched.                 *)
LEMMA QueueInitInv == QueueInit => QueueInv
BY QueueAssumption DEF QueueInit, QueueInv, QueueTypeOK, LocksMatchCalls, RetryInv

(* The inductive invariant of the queue runner: types, locks and retries.    *)
THEOREM QueueInvariant == QueueSpec => []QueueInv
<1>1. QueueInit => QueueInv
  BY QueueInitInv
<1>2. QueueInv /\ [QueueNext]_queueVars => QueueInv'
  BY TypeStep, LocksStep, RetryStep DEF QueueInv
<1> QED
  BY <1>1, <1>2, PTL DEF QueueSpec

(* Every variable of the runner keeps its type; in particular retries stays  *)
(* within the configured limit, whatever the monitor sees.                   *)
THEOREM QueueTypeCorrect == QueueSpec => []QueueTypeOK
BY QueueInvariant, PTL DEF QueueInv

(* _QUEUE_LOCK and the flock are held exactly between acquisition and        *)
(* release, on every path out of _run_with_queue and after a crash.          *)
THEOREM LocksCorrect == QueueSpec => []LocksMatchCalls
BY QueueInvariant, PTL DEF QueueInv

(* A payload is launched at most MaxRetries + 1 times, and the retry loop    *)
(* says it is exhausted only after all of them ran, the last one successfully.      *)
THEOREM RetryBudgetHolds == QueueSpec => []RetryBudget
<1>1. QueueInv => RetryBudget
  BY DEF QueueInv, RetryInv, RetryBudget
<1> QED
  BY <1>1, QueueInvariant, PTL

-----------------------------------------------------------------------------
(* What is left of the exclusion when ps fails and leftovers go unrecognised *)

(* A request with leftovers is on its way out: a payload that left something *)
(* behind has failed, and a failed one is not run again.                     *)
LeftInv ==
  \A t \in Threads \cap (orphans \cup hidden) :
    /\ pc[t] \in {"settle", "release", "unlock"} \cup Over
    /\ pc[t] = "settle" => result[t] = "failed"

LEMMA LeftStep == QueueInv /\ LeftInv /\ [QueueNext]_queueVars => LeftInv'
<1> SUFFICES ASSUME QueueInv, LeftInv, [QueueNext]_queueVars PROVE LeftInv'
  OBVIOUS
<1> USE QueueAssumption
<1>0. QueueTypeOK
  BY DEF QueueInv
<1>1. ASSUME NEW t \in Threads, Enter(t) PROVE LeftInv'
  BY <1>0, <1>1 DEF QueueTypeOK, LeftInv, Enter, Goto, Return
<1>2. ASSUME NEW t \in Threads, TakeQueueLock(t) PROVE LeftInv'
  BY <1>0, <1>2 DEF QueueTypeOK, LeftInv, TakeQueueLock, Goto
<1>3. ASSUME NEW t \in Threads, PollRunnerLock(t) PROVE LeftInv'
  BY <1>0, <1>3 DEF QueueTypeOK, LeftInv, PollRunnerLock, Goto, Return
<1>4. ASSUME NEW t \in Threads, RunnerLockUnavailable(t) PROVE LeftInv'
  BY <1>0, <1>4 DEF QueueTypeOK, LeftInv, RunnerLockUnavailable, Goto, Return
<1>5. ASSUME NEW t \in Threads, IdleGate(t) PROVE LeftInv'
  BY <1>0, <1>5 DEF QueueTypeOK, LeftInv, IdleGate, Goto, Return
<1>6. ASSUME NEW t \in Threads, StartPayload(t) PROVE LeftInv'
  BY <1>0, <1>6 DEF QueueTypeOK, LeftInv, StartPayload, Goto
<1>7. ASSUME NEW t \in Threads, NEW code \in {"ok", "failed"}, PayloadEnds(t, code)
      PROVE  LeftInv'
  BY <1>0, <1>7 DEF QueueTypeOK, LeftInv, PayloadEnds, Goto
<1>8. ASSUME NEW t \in Threads, PayloadRaises(t) PROVE LeftInv'
  BY <1>0, <1>8 DEF QueueTypeOK, LeftInv, PayloadRaises, Goto, Return
<1>9. ASSUME NEW t \in Threads, Settle(t) PROVE LeftInv'
  BY <1>0, <1>9 DEF QueueTypeOK, LeftInv, Settle, Goto, Return
<1>10. ASSUME NEW t \in Threads, Release(t) PROVE LeftInv'
  BY <1>0, <1>10 DEF QueueTypeOK, LeftInv, Release, Goto
<1>11. ASSUME NEW t \in Threads, Unlock(t) PROVE LeftInv'
  BY <1>0, <1>11 DEF QueueTypeOK, LeftInv, Unlock, Goto
<1>12. ASSUME NEW t \in Threads, MonitorSees(t) PROVE LeftInv'
  BY <1>0, <1>12 DEF QueueTypeOK, LeftInv, MonitorSees
<1>13. ASSUME NEW s \in Servers, CrashServer(s) PROVE LeftInv'
  BY <1>0, <1>13 DEF QueueTypeOK, LeftInv, CrashServer, Payloads
<1>14. ASSUME NEW p \in Threads \cup Sweeps, LeftoverEnds(p) PROVE LeftInv'
  BY <1>0, <1>14 DEF QueueTypeOK, LeftInv, LeftoverEnds
<1>15. ASSUME NEW x \in Sweeps,
              SweepStarts(x) \/ SweepPollsLock(x) \/ SweepEndsStage(x) \/ SweepExits(x)
       PROVE  LeftInv'
  BY <1>0, <1>15 DEF QueueTypeOK, LeftInv, SweepStarts, SweepPollsLock, SweepEndsStage, SweepExits
<1>16. ASSUME NEW f \in Foreign, ForeignSteps(f) PROVE LeftInv'
  BY <1>0, <1>16 DEF QueueTypeOK, LeftInv, ForeignSteps
<1>17. CASE UNCHANGED queueVars
  BY <1>0, <1>17 DEF QueueTypeOK, LeftInv
<1> QED
  BY <1>1, <1>2, <1>3, <1>4, <1>5, <1>6, <1>7, <1>8, <1>9, <1>10, <1>11, <1>12, <1>13,
     <1>14, <1>15, <1>16, <1>17 DEF QueueNext, RequestStep

(* Whatever ps shows and whatever killed processes leave behind, no payload  *)
(* runs beside another one that is still to be answered, beside what its own *)
(* earlier attempt left, or beside a sweep's locked stage.                   *)
THEOREM LeftoversOnly == QueueSpec => []OnlyLeftoversBeside
<1>1. QueueInit => LeftInv
  BY DEF QueueInit, LeftInv
<1>2. QueueInv /\ LeftInv /\ [QueueNext]_queueVars => LeftInv'
  BY LeftStep
<1>3. QueueInv /\ LeftInv => OnlyLeftoversBeside
  <2> SUFFICES ASSUME QueueInv, LeftInv, NEW t \in Threads, pc[t] = "running"
               PROVE  /\ t \notin orphans \cup hidden
                      /\ \A u \in ((Payloads \cup orphans \cup hidden) \cap Threads) \ {t} :
                           pc[u] \in {"unlock"} \cup Over
                      /\ \A x \in Sweeps : sweep[x] # "hold"
    BY DEF OnlyLeftoversBeside, Payloads
  <2>1. runnerLock = t
    BY DEF QueueInv, LocksMatchCalls
  <2>2. \A u \in Threads \ {t} : pc[u] \notin Admitted
    BY <2>1 DEF QueueInv, LocksMatchCalls
  <2>3. \A x \in Sweeps : sweep[x] # "hold"
    BY <2>1, QueueAssumption DEF QueueInv, LocksMatchCalls
  <2>4. \A u \in Threads \cap (orphans \cup hidden) : u # t /\ pc[u] \in {"unlock"} \cup Over
    BY <2>2 DEF LeftInv
  <2> QED BY <2>2, <2>3, <2>4 DEF Payloads
<1> QED BY <1>1, <1>2, <1>3, QueueInvariant, PTL DEF QueueSpec

-----------------------------------------------------------------------------
(* Exclusion: it needs ps to work and killed processes to leave nothing that *)
(* ps does not recognise.                                                    *)

NothingHidden == ~PsFails /\ ~Leftovers

(* A request that passed the idle gate holds the flock, so no other payload  *)
(* runs that a crash could turn into an orphan.                              *)
LEMMA GateStep ==
  ASSUME NothingHidden
  PROVE  QueueInv /\ GateInv /\ [QueueNext]_queueVars => GateInv'
<1> SUFFICES ASSUME QueueInv, GateInv, [QueueNext]_queueVars
             PROVE  GateInv'
  OBVIOUS
<1> USE QueueAssumption DEF NothingHidden
<1>0. QueueTypeOK /\ LocksMatchCalls
  BY DEF QueueInv
<1>1. ASSUME NEW t \in Threads, Enter(t) PROVE GateInv'
  BY <1>0, <1>1 DEF QueueTypeOK, GateInv, Enter, Goto, Return
<1>2. ASSUME NEW t \in Threads, TakeQueueLock(t) PROVE GateInv'
  BY <1>0, <1>2 DEF QueueTypeOK, GateInv, TakeQueueLock, Goto
<1>3. ASSUME NEW t \in Threads, PollRunnerLock(t) PROVE GateInv'
  BY <1>0, <1>3 DEF QueueTypeOK, GateInv, PollRunnerLock, Goto, Return
<1>4. ASSUME NEW t \in Threads, RunnerLockUnavailable(t) PROVE GateInv'
  BY <1>0, <1>4 DEF QueueTypeOK, GateInv, RunnerLockUnavailable, Goto, Return
<1>5. ASSUME NEW t \in Threads, IdleGate(t) PROVE GateInv'
  BY <1>0, <1>5 DEF QueueTypeOK, GateInv, IdleGate, Goto, Return, Visible
<1>6. ASSUME NEW t \in Threads, StartPayload(t) PROVE GateInv'
  BY <1>0, <1>6 DEF QueueTypeOK, GateInv, StartPayload, Goto
<1>7. ASSUME NEW t \in Threads, NEW code \in {"ok", "failed"}, PayloadEnds(t, code)
      PROVE  GateInv'
  BY <1>0, <1>7 DEF QueueTypeOK, GateInv, PayloadEnds, Goto
<1>8. ASSUME NEW t \in Threads, PayloadRaises(t) PROVE GateInv'
  BY <1>0, <1>8 DEF QueueTypeOK, GateInv, PayloadRaises, Goto, Return
<1>9. ASSUME NEW t \in Threads, Settle(t) PROVE GateInv'
  BY <1>0, <1>9 DEF QueueTypeOK, GateInv, Settle, Goto, Return
<1>10. ASSUME NEW t \in Threads, Release(t) PROVE GateInv'
  BY <1>0, <1>10 DEF QueueTypeOK, GateInv, Release, Goto
<1>11. ASSUME NEW t \in Threads, Unlock(t) PROVE GateInv'
  BY <1>0, <1>11 DEF QueueTypeOK, GateInv, Unlock, Goto
<1>12. ASSUME NEW t \in Threads, MonitorSees(t) PROVE GateInv'
  BY <1>0, <1>12 DEF QueueTypeOK, GateInv, MonitorSees
<1>13. ASSUME NEW s \in Servers, CrashServer(s) PROVE GateInv'
  <2>1. hidden' = {}
    BY <1>13 DEF GateInv, CrashServer
  <2>2. ASSUME NEW t \in Threads, pc'[t] \in {"ready", "running"} PROVE orphans' = {}
    <3>1. /\ ServerOf[t] # s /\ pc[t] = pc'[t] /\ runnerLock = t
      BY <1>0, <1>13, <2>2 DEF CrashServer, QueueTypeOK, LocksMatchCalls
    <3>2. {u \in Threads : ServerOf[u] = s} \cap Payloads = {}
      BY <1>0, <3>1 DEF Payloads, LocksMatchCalls
    <3>3. orphans = {}
      BY <2>2, <3>1 DEF GateInv
    <3> QED
      BY <1>13, <3>2, <3>3 DEF CrashServer
  <2>3. \A t \in orphans' : pc'[t] = "dead"
    BY <1>0, <1>13 DEF GateInv, CrashServer, QueueTypeOK, Payloads
  <2> QED
    BY <2>1, <2>2, <2>3 DEF GateInv
<1>14. ASSUME NEW p \in Threads \cup Sweeps, LeftoverEnds(p) PROVE GateInv'
  BY <1>0, <1>14 DEF QueueTypeOK, GateInv, LeftoverEnds
<1>15. ASSUME NEW x \in Sweeps,
              SweepStarts(x) \/ SweepPollsLock(x) \/ SweepEndsStage(x) \/ SweepExits(x)
       PROVE  GateInv'
  BY <1>0, <1>15 DEF QueueTypeOK, GateInv, SweepStarts, SweepPollsLock, SweepEndsStage, SweepExits
<1>16. ASSUME NEW f \in Foreign, ForeignSteps(f) PROVE GateInv'
  BY <1>0, <1>16 DEF QueueTypeOK, GateInv, ForeignSteps
<1>17. CASE UNCHANGED queueVars
  BY <1>0, <1>17 DEF QueueTypeOK, GateInv
<1> QED
  BY <1>1, <1>2, <1>3, <1>4, <1>5, <1>6, <1>7, <1>8, <1>9, <1>10, <1>11, <1>12, <1>13,
     <1>14, <1>15, <1>16, <1>17 DEF QueueNext, RequestStep

(* With a ps that works, a request past its idle gate has no orphan to fear. *)
THEOREM GateInvariant == ASSUME NothingHidden PROVE QueueSpec => [](QueueInv /\ GateInv)
<1>1. QueueInit => GateInv
  BY DEF QueueInit, GateInv
<1>2. QueueInv /\ GateInv /\ [QueueNext]_queueVars => GateInv'
  BY GateStep
<1> QED
  BY <1>1, <1>2, QueueInvariant, PTL DEF QueueSpec

(* While a request's payload runs, no other payload runs anywhere, nothing   *)
(* of a killed server is left, and no sweep is inside a locked stage.        *)
THEOREM ServesAlone == ASSUME NothingHidden PROVE QueueSpec => []ServedAlone
<1>1. QueueInv /\ GateInv => ServedAlone
  <2> SUFFICES ASSUME QueueInv, GateInv, NEW t \in Payloads
               PROVE  /\ Payloads = {t}
                      /\ orphans \cup hidden = {}
                      /\ \A x \in Sweeps : sweep[x] # "hold"
    BY DEF ServedAlone
  <2>1. t \in Threads /\ pc[t] = "running"
    BY DEF Payloads
  <2>2. runnerLock = t
    BY <2>1 DEF QueueInv, LocksMatchCalls
  <2>3. Payloads = {t}
    BY <2>1, <2>2 DEF Payloads, QueueInv, LocksMatchCalls
  <2>4. \A x \in Sweeps : sweep[x] # "hold"
    BY <2>1, <2>2, QueueAssumption DEF QueueInv, LocksMatchCalls
  <2> QED
    BY <2>1, <2>3, <2>4 DEF GateInv
<1> QED
  BY <1>1, GateInvariant, PTL

-----------------------------------------------------------------------------
(* The runner implements SerialQueue under the same conditions.              *)

(* How a jump of one request changes what SerialQueue sees. *)
LEMMA PhaseUpdate ==
  ASSUME QueueTypeOK, NEW t \in Threads, NEW label, Goto(t, label)
  PROVE  /\ Phase' = [Phase EXCEPT ![t] = PhaseAt(label)]
         /\ Payloads' = IF label = "running" THEN Payloads \cup {t} ELSE Payloads \ {t}
         /\ Phase[t] = PhaseAt(pc[t])
         /\ t \in Payloads <=> pc[t] = "running"
<1>1. pc' = [pc EXCEPT ![t] = label] /\ DOMAIN pc = Threads
  BY DEF Goto, QueueTypeOK
<1>2. Phase' = [Phase EXCEPT ![t] = PhaseAt(label)]
  BY <1>1 DEF Phase
<1>3. Payloads' = IF label = "running" THEN Payloads \cup {t} ELSE Payloads \ {t}
  BY <1>1 DEF Payloads
<1> QED
  BY <1>2, <1>3 DEF Phase, Payloads

(* A jump that crosses neither a phase nor the payload is not seen at all. *)
LEMMA SilentJump ==
  ASSUME QueueTypeOK, NEW t \in Threads, NEW label, Goto(t, label),
         PhaseAt(label) = PhaseAt(pc[t]), pc[t] # "running", label # "running",
         UNCHANGED <<orphans, hidden>>
  PROVE  UNCHANGED <<Phase, Alive>>
<1>1. Phase' = [Phase EXCEPT ![t] = Phase[t]] /\ Payloads' = Payloads
  BY PhaseUpdate
<1>2. Phase' = Phase
  BY <1>1 DEF Phase
<1> QED
  BY <1>1, <1>2 DEF Alive

(* A jump behind the release of the flock answers the request. *)
LEMMA AnswerJump ==
  ASSUME QueueTypeOK, GateInv, NEW t \in Threads, NEW label, Goto(t, label),
         PhaseAt(label) = "answered", PhaseAt(pc[t]) \in {"waiting", "admitted"},
         pc[t] # "running", label # "running", UNCHANGED <<orphans, hidden>>
  PROVE  Serial!Answer(t)
<1>1. /\ Phase' = [Phase EXCEPT ![t] = "answered"]
      /\ Phase[t] \in {"waiting", "admitted"}
      /\ Payloads' = Payloads /\ t \notin Payloads
  BY PhaseUpdate
<1>2. t \notin orphans
  BY DEF GateInv, PhaseAt
<1> QED
  BY <1>1, <1>2 DEF Serial!Answer, Alive, GateInv

(* Every step of the queue runner is one of SerialQueue or a stutter.        *)
LEMMA SerialStep ==
  ASSUME NothingHidden
  PROVE  QueueInv /\ GateInv /\ [QueueNext]_queueVars
           => [Serial!SerialNext]_Serial!serialVars
<1> SUFFICES ASSUME QueueInv, GateInv, [QueueNext]_queueVars
             PROVE  Serial!SerialNext \/ UNCHANGED <<Phase, Alive>>
  BY DEF Serial!serialVars
<1> USE QueueAssumption DEF NothingHidden
<1>0. QueueTypeOK /\ LocksMatchCalls /\ hidden = {}
  BY DEF QueueInv, GateInv
<1> DEFINE Still == UNCHANGED <<Phase, Alive>>
<1>1. ASSUME NEW t \in Threads, Enter(t) PROVE Serial!Answer(t) \/ Still
  <2>1. CASE Goto(t, "queue")
    BY <1>0, <1>1, <2>1, SilentJump DEF Enter, PhaseAt
  <2>2. CASE Goto(t, "done")
    BY <1>0, <1>1, <2>2, AnswerJump DEF Enter, PhaseAt
  <2> QED
    BY <1>1, <2>1, <2>2 DEF Enter, Return
<1>2. ASSUME NEW t \in Threads, TakeQueueLock(t) PROVE Still
  BY <1>0, <1>2, SilentJump DEF TakeQueueLock, PhaseAt
<1>3. ASSUME NEW t \in Threads, PollRunnerLock(t) PROVE Serial!Admit(t) \/ Serial!Answer(t)
  <2>1. CASE Goto(t, "gate") /\ runnerLock = NoThread
    <3>1. \A u \in Threads : Phase[u] # "admitted"
      BY <1>0, <2>1 DEF LocksMatchCalls, Phase, PhaseAt
    <3>2. Phase' = [Phase EXCEPT ![t] = "admitted"] /\ Phase[t] = "waiting" /\ Alive' = Alive
      BY <1>0, <1>3, <2>1, PhaseUpdate DEF PollRunnerLock, PhaseAt, Alive
    <3> QED
      BY <3>1, <3>2 DEF Serial!Admit
  <2>2. CASE Goto(t, "unlock")
    BY <1>0, <1>3, <2>2, AnswerJump DEF PollRunnerLock, PhaseAt
  <2> QED
    BY <1>3, <2>1, <2>2 DEF PollRunnerLock, Return
<1>4. ASSUME NEW t \in Threads, RunnerLockUnavailable(t) PROVE Serial!Answer(t)
  BY <1>0, <1>4, AnswerJump DEF RunnerLockUnavailable, Return, PhaseAt
<1>5. ASSUME NEW t \in Threads, IdleGate(t) PROVE Still
  BY <1>0, <1>5, SilentJump DEF IdleGate, Return, PhaseAt
<1>6. ASSUME NEW t \in Threads, StartPayload(t) PROVE Serial!Launch(t)
  <2>1. runnerLock = t /\ orphans = {}
    BY <1>0, <1>6 DEF StartPayload, LocksMatchCalls, GateInv
  <2>2. Payloads = {}
    BY <1>0, <1>6, <2>1 DEF StartPayload, LocksMatchCalls, Payloads
  <2>3. Alive = {}
    BY <1>0, <2>1, <2>2 DEF Alive
  <2>4. /\ Phase' = [Phase EXCEPT ![t] = "admitted"] /\ Phase[t] = "admitted"
        /\ Payloads' = {t}
    BY <1>0, <1>6, <2>2, PhaseUpdate DEF StartPayload, PhaseAt
  <2>5. Phase' = Phase
    BY <2>4 DEF Phase
  <2>6. Alive' = {t}
    BY <1>0, <1>6, <2>1, <2>4 DEF StartPayload, Alive
  <2> QED
    BY <2>3, <2>4, <2>5, <2>6 DEF Serial!Launch
<1>7. ASSUME NEW t \in Threads, pc[t] = "running", UNCHANGED <<orphans, hidden>>,
             Goto(t, "settle") \/ Goto(t, "release")
      PROVE  Serial!Stop(t)
  <2>1. /\ Phase' = [Phase EXCEPT ![t] = Phase[t]]
        /\ Payloads' = Payloads \ {t} /\ t \in Payloads
    BY <1>0, <1>7, PhaseUpdate DEF PhaseAt
  <2>2. Phase' = Phase
    BY <2>1 DEF Phase
  <2>3. t \notin orphans
    BY <1>7 DEF GateInv
  <2> QED
    BY <1>0, <1>7, <2>1, <2>2, <2>3 DEF Serial!Stop, Alive
<1>8. ASSUME NEW t \in Threads, NEW code \in {"ok", "failed"},
             PayloadEnds(t, code) \/ PayloadRaises(t)
      PROVE  Serial!Stop(t)
  BY <1>7, <1>8 DEF PayloadEnds, PayloadRaises, Return
<1>9. ASSUME NEW t \in Threads, Settle(t) PROVE Still
  BY <1>0, <1>9, SilentJump DEF Settle, Return, PhaseAt
<1>10. ASSUME NEW t \in Threads, Release(t) PROVE Serial!Answer(t)
  BY <1>0, <1>10, AnswerJump DEF Release, PhaseAt
<1>11. ASSUME NEW t \in Threads, Unlock(t) PROVE Still
  BY <1>0, <1>11, SilentJump DEF Unlock, PhaseAt
<1>12. ASSUME UNCHANGED <<pc, orphans, hidden>> PROVE Still
  BY <1>12 DEF Phase, Alive, Payloads
<1>13. ASSUME NEW s \in Servers, CrashServer(s) PROVE \E S \in SUBSET Threads : Serial!Kill(S)
  <2> DEFINE S == {t \in Threads : ServerOf[t] = s /\ pc[t] # "done"}
  <2>1. Phase' = [t \in Threads |-> IF t \in S THEN "dead" ELSE Phase[t]]
    BY <1>0, <1>13 DEF CrashServer, Phase, PhaseAt, QueueTypeOK
  <2>2. Payloads' = Payloads \ {t \in Threads : ServerOf[t] = s}
    BY <1>0, <1>13 DEF CrashServer, Payloads, QueueTypeOK
  <2>3. /\ orphans' = orphans \cup (Payloads \cap {t \in Threads : ServerOf[t] = s})
        /\ hidden' = hidden
    BY <1>13 DEF CrashServer
  <2>4. Alive' = Alive
    BY <1>0, <2>2, <2>3 DEF Alive
  <2>5. Serial!Kill(S)
    BY <2>1, <2>4 DEF Serial!Kill
  <2> QED
    BY <2>5
<1>14. ASSUME NEW p \in Threads \cup Sweeps, LeftoverEnds(p)
       PROVE  p \in Threads /\ Serial!Stop(p)
  <2>1. p \in orphans /\ p \in Threads /\ p \notin Payloads
    BY <1>0, <1>14 DEF LeftoverEnds, GateInv, QueueTypeOK, Payloads
  <2> QED
    BY <1>0, <1>14, <2>1 DEF LeftoverEnds, Serial!Stop, Phase, Alive, Payloads
<1>15. ASSUME NEW x \in Sweeps,
              SweepStarts(x) \/ SweepPollsLock(x) \/ SweepEndsStage(x) \/ SweepExits(x)
       PROVE  Still
  BY <1>12, <1>15 DEF SweepStarts, SweepPollsLock, SweepEndsStage, SweepExits
<1>16. ASSUME NEW t \in Threads, MonitorSees(t) PROVE Still
  BY <1>12, <1>16 DEF MonitorSees
<1>17. ASSUME NEW f \in Foreign, ForeignSteps(f) PROVE Still
  BY <1>12, <1>17 DEF ForeignSteps
<1>18. CASE UNCHANGED queueVars
  BY <1>12, <1>18
<1> HIDE DEF Still
<1> QED
  BY <1>1, <1>2, <1>3, <1>4, <1>5, <1>6, <1>8, <1>9, <1>10, <1>11, <1>13, <1>14,
     <1>15, <1>16, <1>17, <1>18 DEF QueueNext, RequestStep, Serial!SerialNext, Still

(* Every behaviour of the runner is one SerialQueue allows: requests are     *)
(* admitted one at a time, payloads start only into silence, and nothing is  *)
(* launched for a request that was answered or died.                         *)
THEOREM ImplementsSerialQueue == ASSUME NothingHidden PROVE QueueSpec => ServesSerially
<1>1. QueueInit => Serial!SerialInit
  BY DEF QueueInit, Serial!SerialInit, Phase, PhaseAt, Alive, Payloads
<1> QED
  BY <1>1, SerialStep, GateInvariant, PTL DEF QueueSpec, ServesSerially, Serial!SerialSpec
=============================================================================
