--------------------------- MODULE JobStoreProofs ---------------------------
(* Proofs about the job registry for any number of ids, callers and pool     *)
(* threads, any capacity, retention and cleanup interval.                    *)
EXTENDS JobStore, FiniteSetTheorems, SequenceTheorems, TLAPS

Waiting == {workQueue[i] : i \in 1..Len(workQueue)}
NoTwice == \A i, k \in 1..Len(workQueue) : workQueue[i] = workQueue[k] => i = k
Busy == {w \in Workers : worker[w].pc # "idle"}
Submitting == {c \in Callers : caller[c].pc = "submit"}

(* A record that is to be worked on is in one hand: with the caller that     *)
(* inserted it, in the executor's queue, or with one pool thread.            *)
OwnershipInv ==
  /\ NoTwice
  /\ \A r \in Waiting : rec[r].status \in Live
  /\ \A w \in Busy : worker[w].ref \in Refs \ Waiting /\ rec[worker[w].ref].status \in Live
  /\ \A c \in Submitting : caller[c].ref \in Refs \ Waiting /\ rec[caller[c].ref].status \in Live
  /\ \A w, v \in Busy : worker[w].ref = worker[v].ref => w = v
  /\ \A c, d \in Submitting : caller[c].ref = caller[d].ref => c = d
  /\ \A c \in Submitting, w \in Busy : caller[c].ref # worker[w].ref

(* Calls and records name a job, and a call's clock reading is not ahead.    *)
NamesInv ==
  /\ \A c \in Callers : caller[c].pc # "idle" => caller[c].job \in Jobs /\ caller[c].at <= now
  /\ \A r \in Refs : rec[r].status \in Live => rec[r].job \in Jobs

JobInv == JobTypeOK /\ OwnershipInv /\ NamesInv /\ LiveJobTracked /\ StoreBounded

USE DEF jobVars, Live, Terminal, Notes

(* The executor's queue holds record objects. *)
LEMMA WaitingRefs == ASSUME JobTypeOK PROVE Waiting \subseteq Refs
<1>1. workQueue \in Seq(Refs)
  BY DEF JobTypeOK
<1>2. \A i \in 1..Len(workQueue) : workQueue[i] \in Refs
  BY <1>1, LenProperties
<1> QED BY <1>2 DEF Waiting

(* What submit and the pool's get do to the executor's queue. *)
LEMMA AppendFacts ==
  ASSUME JobTypeOK, NEW r \in Refs, workQueue' = Append(workQueue, r)
  PROVE  /\ workQueue' \in Seq(Refs)
         /\ Waiting' = Waiting \cup {r}
         /\ NoTwice /\ r \notin Waiting => NoTwice'
<1>1. workQueue \in Seq(Refs)
  BY DEF JobTypeOK
<1>2. /\ workQueue' \in Seq(Refs)
      /\ Len(workQueue) \in Nat
      /\ Len(workQueue') = Len(workQueue) + 1
      /\ \A i \in 1..Len(workQueue) : workQueue'[i] = workQueue[i]
      /\ workQueue'[Len(workQueue) + 1] = r
  BY <1>1, AppendProperties, LenProperties
<1>3. Waiting' = Waiting \cup {r}
  <2>1. Waiting' \subseteq Waiting \cup {r}
    BY <1>2 DEF Waiting
  <2>2. Waiting \subseteq Waiting'
    BY <1>2 DEF Waiting
  <2>3. r \in Waiting'
    <3>1. Len(workQueue) + 1 \in 1..Len(workQueue')
      BY <1>2
    <3> QED BY <1>2, <3>1 DEF Waiting
  <2> QED BY <2>1, <2>2, <2>3
<1>4. ASSUME NoTwice, r \notin Waiting PROVE NoTwice'
  BY <1>2, <1>4 DEF NoTwice, Waiting
<1> QED BY <1>2, <1>3, <1>4

(* A pool thread takes the head, and no other place held the same record.    *)
LEMMA TailFacts ==
  ASSUME JobTypeOK, NoTwice, workQueue # <<>>, workQueue' = Tail(workQueue)
  PROVE  /\ workQueue' \in Seq(Refs)
         /\ Head(workQueue) \in Waiting /\ Head(workQueue) \in Refs
         /\ Waiting' = Waiting \ {Head(workQueue)}
         /\ NoTwice'
<1>1. workQueue \in Seq(Refs)
  BY DEF JobTypeOK
<1>2. /\ workQueue' \in Seq(Refs)
      /\ Len(workQueue) \in Nat /\ Len(workQueue) >= 1
      /\ Len(workQueue') = Len(workQueue) - 1
      /\ \A i \in 1..Len(workQueue') : workQueue'[i] = workQueue[i + 1]
      /\ Head(workQueue) = workQueue[1]
      /\ Head(workQueue) \in Refs
  BY <1>1, HeadTailProperties, LenProperties, EmptySeq
<1>3. Head(workQueue) \in Waiting
  BY <1>2 DEF Waiting
<1>4. Waiting' \subseteq Waiting \ {Head(workQueue)}
  BY <1>2 DEF Waiting, NoTwice
<1>5. Waiting \ {Head(workQueue)} \subseteq Waiting'
  <2> SUFFICES ASSUME NEW i \in 1..Len(workQueue), i # 1
               PROVE  workQueue[i] \in Waiting'
    BY <1>2 DEF Waiting
  <2>1. i - 1 \in 1..Len(workQueue') /\ workQueue'[i - 1] = workQueue[i]
    BY <1>2
  <2> QED BY <2>1 DEF Waiting
<1>6. NoTwice'
  BY <1>2 DEF NoTwice
<1> QED BY <1>2, <1>3, <1>4, <1>5, <1>6

(* What a pool thread's first write does to the records.                     *)
LEMMA StartedRecord ==
  ASSUME JobTypeOK, NEW r \in Refs, rec' = [rec EXCEPT ![r].status = "running"]
  PROVE  /\ rec'[r].status = "running"
         /\ \A q \in Refs : rec'[q].job = rec[q].job /\ rec'[q].finished = rec[q].finished
         /\ \A q \in Refs : q # r => rec'[q] = rec[q]
<1>1. \A q \in Refs : rec[q] \in Record
  BY DEF JobTypeOK
<1>2. \A q \in Refs : rec'[q] = IF q = r THEN [rec[r] EXCEPT !.status = "running"] ELSE rec[q]
  BY DEF JobTypeOK
<1> HIDE DEF Notes
<1> QED BY <1>1, <1>2 DEF Record

(* update_job writes to the record of the runner that calls it: its id is    *)
(* still the runner's own, for nothing removes or replaces a live record.    *)
LEMMA UpdateFacts ==
  ASSUME JobTypeOK, OwnershipInv, NamesInv, LiveJobTracked,
         NEW w \in Workers, NEW status \in Live, NEW note \in Notes,
         UpdateJob(w, status, note)
  PROVE  /\ worker[w].ref \in Refs /\ rec[worker[w].ref].status \in Live
         /\ rec'[worker[w].ref].status = status
         /\ \A q \in Refs : rec'[q].job = rec[q].job /\ rec'[q].finished = rec[q].finished
         /\ \A q \in Refs : q # worker[w].ref => rec'[q] = rec[q]
<1>1. worker[w].ref \in Refs /\ rec[worker[w].ref].status \in Live
  BY DEF UpdateJob, OwnershipInv, Busy
<1>2. store[rec[worker[w].ref].job] = worker[w].ref
  BY <1>1 DEF LiveJobTracked
<1>3. rec' = [r \in Refs |-> IF r = worker[w].ref
                             THEN [rec[r] EXCEPT !.status = status, !.note = note]
                             ELSE rec[r]]
  BY <1>2 DEF UpdateJob
<1> QED BY <1>1, <1>3 DEF JobTypeOK, Record

-----------------------------------------------------------------------------
(* Types, ownership and names *)

(* Every step keeps the types; what a step takes from the queue or from a    *)
(* thread's state is a record because of OwnershipInv.                       *)
LEMMA JobTypeStep == JobTypeOK /\ OwnershipInv /\ [JobNext]_jobVars => JobTypeOK'
<1> SUFFICES ASSUME JobTypeOK, OwnershipInv, [JobNext]_jobVars PROVE JobTypeOK'
  OBVIOUS
<1> USE JobStoreAssumption
<1>1. CASE Tick
  BY <1>1 DEF JobTypeOK, Tick
<1>2. ASSUME NEW c \in Callers, NEW op \in {"queue", "poll"}, NEW j \in Jobs, BeginCall(c, op, j)
      PROVE  JobTypeOK'
  BY <1>2 DEF JobTypeOK, BeginCall, CallerState
<1>3. ASSUME NEW c \in Callers, CleanupLocked(c) PROVE JobTypeOK'
  <2>1. caller[c].at \in Nat /\ lastCleanup' \in Nat
    BY <1>3 DEF JobTypeOK, CleanupLocked, CallerState
  <2>2. store' \in [Jobs -> Refs \cup {NoRef}]
    BY <1>3 DEF JobTypeOK, CleanupLocked, Evict
  <2>3. caller' \in [Callers -> CallerState]
    <3>1. caller[c] \in CallerState /\ now \in Nat
      BY DEF JobTypeOK
    <3>2. caller'[c] \in CallerState
      BY <1>3, <3>1 DEF JobTypeOK, CleanupLocked, CallerState
    <3> QED BY <1>3, <3>2 DEF JobTypeOK, CleanupLocked
  <2> QED BY <1>3, <2>1, <2>2, <2>3 DEF JobTypeOK, CleanupLocked
<1>4. ASSUME NEW c \in Callers, Refuse(c) \/ Poll(c) PROVE JobTypeOK'
  <2>1. IdleCaller \in CallerState
    BY DEF IdleCaller, CallerState
  <2> QED BY <1>4, <2>1 DEF JobTypeOK, Refuse, Poll
<1>5. ASSUME NEW c \in Callers, Insert(c) PROVE JobTypeOK'
  <2>1. PICK r \in Refs :
          /\ rec' = [rec EXCEPT ![r] = [job |-> caller[c].job, status |-> "queued",
                                        note |-> "none", submitted |-> caller[c].at,
                                        finished |-> 0]]
          /\ store' = [store EXCEPT ![caller[c].job] = r]
          /\ caller' = [caller EXCEPT ![c].pc = "submit", ![c].ref = r]
    BY <1>5 DEF Insert
  <2>2. rec' \in [Refs -> Record]
    BY <2>1 DEF JobTypeOK, CallerState, Record
  <2>3. store' \in [Jobs -> Refs \cup {NoRef}]
    BY <2>1 DEF JobTypeOK
  <2>4. caller'[c] \in CallerState
    BY <2>1 DEF JobTypeOK, CallerState
  <2>5. caller' \in [Callers -> CallerState]
    BY <2>1, <2>4 DEF JobTypeOK
  <2> QED BY <1>5, <2>2, <2>3, <2>5 DEF JobTypeOK, Insert
<1>6. ASSUME NEW c \in Callers, Submit(c) PROVE JobTypeOK'
  <2>1. caller[c].ref \in Refs
    BY <1>6 DEF Submit, OwnershipInv, Submitting
  <2>2. workQueue' \in Seq(Refs)
    BY <1>6, <2>1, AppendFacts DEF Submit
  <2> QED BY <1>6, <2>2 DEF JobTypeOK, Submit, CallerState, IdleCaller
<1>7. ASSUME NEW w \in Workers, StartJob(w) PROVE JobTypeOK'
  <2>1. workQueue' \in Seq(Refs) /\ Head(workQueue) \in Refs
    BY <1>7, TailFacts DEF StartJob, OwnershipInv
  <2>2. rec' \in [Refs -> Record]
    BY <1>7, <2>1 DEF JobTypeOK, StartJob, Record
  <2>3. worker'[w] \in WorkerState
    BY <1>7, <2>1 DEF JobTypeOK, StartJob, WorkerState
  <2>4. worker' \in [Workers -> WorkerState]
    BY <1>7, <2>3 DEF JobTypeOK, StartJob
  <2> QED BY <1>7, <2>1, <2>2, <2>4 DEF JobTypeOK, StartJob
<1>8. ASSUME NEW w \in Workers, NEW outcome \in Terminal, RunnerReturns(w, outcome)
      PROVE  JobTypeOK'
  <2>1. worker'[w] \in WorkerState
    BY <1>8 DEF JobTypeOK, RunnerReturns, WorkerState
  <2> QED BY <1>8, <2>1 DEF JobTypeOK, RunnerReturns
<1>9. ASSUME NEW w \in Workers, FinishJob(w) PROVE JobTypeOK'
  <2>1. worker[w].outcome \in Terminal /\ worker[w].at \in Nat
    BY DEF JobTypeOK, WorkerState
  <2>2. worker[w].ref \in Refs
    BY <1>9 DEF FinishJob, OwnershipInv, Busy
  <2>3. rec'[worker[w].ref] \in Record
    <3> DEFINE k == rec[worker[w].ref]
               outcome == worker[w].outcome
               at == worker[w].at
    <3>1. k \in Record /\ outcome \in Terminal /\ at \in Nat
      BY <2>1, <2>2 DEF JobTypeOK
    <3>2. rec'[worker[w].ref] = [k EXCEPT !.status = outcome, !.finished = at]
      BY <1>9, <2>2 DEF JobTypeOK, FinishJob
    <3> HIDE DEF k, outcome, at
    <3>3. [k EXCEPT !.status = outcome, !.finished = at] \in Record
      BY <3>1 DEF Record
    <3> QED BY <3>2, <3>3
  <2>4. rec' \in [Refs -> Record]
    <3>1. \A q \in Refs : rec'[q] \in Record
      BY <1>9, <2>3 DEF JobTypeOK, FinishJob
    <3>2. rec' = [q \in Refs |-> rec'[q]]
      BY <1>9 DEF JobTypeOK, FinishJob
    <3> QED BY <3>1, <3>2
  <2> QED BY <1>9, <2>4 DEF JobTypeOK, FinishJob, WorkerState, IdleWorker
<1>10. ASSUME NEW w \in Workers, NEW status \in Live, NEW note \in Notes,
              UpdateJob(w, status, note)
       PROVE  JobTypeOK'
  <2>1. ASSUME NEW r \in Refs PROVE [rec[r] EXCEPT !.status = status, !.note = note] \in Record
    BY DEF JobTypeOK, Record
  <2>2. rec' \in [Refs -> Record]
    BY <1>10, <2>1 DEF JobTypeOK, UpdateJob
  <2> QED BY <1>10, <2>2 DEF JobTypeOK, UpdateJob
<1>11. CASE UNCHANGED jobVars
  BY <1>11 DEF JobTypeOK
<1> QED
  BY <1>1, <1>2, <1>3, <1>4, <1>5, <1>6, <1>7, <1>8, <1>9, <1>10, <1>11 DEF JobNext

(* A record passes from the caller that inserted it to the queue and from    *)
(* there to one pool thread; it is live until that thread is done with it.   *)
LEMMA OwnershipStep ==
  JobTypeOK /\ OwnershipInv /\ NamesInv /\ LiveJobTracked /\ [JobNext]_jobVars => OwnershipInv'
<1> SUFFICES ASSUME JobTypeOK, OwnershipInv, NamesInv, LiveJobTracked, [JobNext]_jobVars
             PROVE  OwnershipInv'
  OBVIOUS
<1>a. ASSUME UNCHANGED <<workQueue, rec, worker>>, Submitting' \subseteq Submitting,
             \A c \in Submitting' : caller'[c].ref = caller[c].ref
      PROVE  OwnershipInv'
  BY <1>a DEF OwnershipInv, NoTwice, Waiting, Busy
<1>1. CASE Tick
  BY <1>1, <1>a DEF Tick, Submitting
<1>2. ASSUME NEW c \in Callers, NEW op \in {"queue", "poll"}, NEW j \in Jobs, BeginCall(c, op, j)
      PROVE  OwnershipInv'
  BY <1>2, <1>a DEF JobTypeOK, BeginCall, Submitting
<1>3. ASSUME NEW c \in Callers, CleanupLocked(c) PROVE OwnershipInv'
  BY <1>3, <1>a DEF JobTypeOK, CleanupLocked, Submitting
<1>4. ASSUME NEW c \in Callers, Refuse(c) \/ Poll(c) PROVE OwnershipInv'
  BY <1>4, <1>a DEF JobTypeOK, Refuse, Poll, Submitting, IdleCaller
<1>5. ASSUME NEW c \in Callers, Insert(c) PROVE OwnershipInv'
  <2>1. PICK r \in Refs :
          /\ rec[r].status = "unused"
          /\ rec' = [rec EXCEPT ![r] = [job |-> caller[c].job, status |-> "queued",
                                        note |-> "none", submitted |-> caller[c].at,
                                        finished |-> 0]]
          /\ caller' = [caller EXCEPT ![c].pc = "submit", ![c].ref = r]
    BY <1>5 DEF Insert
  <2>2. r \notin Waiting /\ (\A w \in Busy : worker[w].ref # r)
                         /\ (\A d \in Submitting : caller[d].ref # r)
    BY <2>1 DEF OwnershipInv
  <2>3. Waiting' = Waiting /\ Busy' = Busy /\ Submitting' = Submitting \cup {c}
        /\ (NoTwice => NoTwice')
    BY <1>5, <2>1 DEF Insert, Waiting, Busy, NoTwice, Submitting, JobTypeOK, CallerState
  <2>4. /\ c \notin Submitting /\ caller'[c].ref = r
        /\ \A d \in Submitting : caller'[d].ref = caller[d].ref
    BY <1>5, <2>1 DEF Insert, Submitting, JobTypeOK, CallerState
  <2>5. \A q \in Refs : q # r => rec'[q] = rec[q]
    BY <2>1 DEF JobTypeOK
  <2>6. rec'[r].status \in Live
    BY <2>1 DEF JobTypeOK
  <2>7. worker' = worker /\ Waiting \subseteq Refs
    BY <1>5, WaitingRefs DEF Insert
  <2> QED BY <2>2, <2>3, <2>4, <2>5, <2>6, <2>7 DEF OwnershipInv
<1>6. ASSUME NEW c \in Callers, Submit(c) PROVE OwnershipInv'
  <2>1. c \in Submitting /\ caller[c].ref \in Refs /\ caller[c].ref \notin Waiting
    BY <1>6 DEF Submit, OwnershipInv, Submitting
  <2>2. Waiting' = Waiting \cup {caller[c].ref} /\ NoTwice'
    BY <1>6, <2>1, AppendFacts DEF Submit, OwnershipInv
  <2>3. Submitting' = Submitting \ {c} /\ \A d \in Submitting' : caller'[d] = caller[d]
    BY <1>6 DEF Submit, Submitting, JobTypeOK, IdleCaller
  <2>4. Busy' = Busy /\ worker' = worker /\ rec' = rec
    BY <1>6 DEF Submit, Busy
  <2> QED BY <2>1, <2>2, <2>3, <2>4 DEF OwnershipInv
<1>7. ASSUME NEW w \in Workers, StartJob(w) PROVE OwnershipInv'
  <2> DEFINE r == Head(workQueue)
  <2>1. /\ r \in Waiting /\ r \in Refs
        /\ Waiting' = Waiting \ {r}
        /\ NoTwice'
    BY <1>7, TailFacts DEF StartJob, OwnershipInv
  <2>2. /\ w \notin Busy /\ Busy' = Busy \cup {w} /\ worker'[w].ref = r
        /\ \A v \in Busy : worker'[v] = worker[v]
    BY <1>7 DEF StartJob, Busy, JobTypeOK, WorkerState
  <2>3. rec'[r].status = "running" /\ \A q \in Refs : q # r => rec'[q] = rec[q]
    BY <1>7, <2>1 DEF StartJob, JobTypeOK, Record
  <2>4. Submitting' = Submitting /\ caller' = caller
    BY <1>7 DEF StartJob, Submitting
  <2>5. Waiting \subseteq Refs
    BY WaitingRefs
  <2> HIDE DEF r
  <2> QED BY <2>1, <2>2, <2>3, <2>4, <2>5 DEF OwnershipInv
<1>8. ASSUME NEW w \in Workers, NEW outcome \in Terminal, RunnerReturns(w, outcome)
      PROVE  OwnershipInv'
  <2>1. /\ worker'[w].ref = worker[w].ref /\ worker'[w].pc = "finish"
        /\ \A v \in Workers : v # w => worker'[v] = worker[v]
    BY <1>8 DEF RunnerReturns, JobTypeOK, WorkerState
  <2>2. Busy' = Busy /\ \A v \in Workers : worker'[v].ref = worker[v].ref
    BY <1>8, <2>1 DEF RunnerReturns, Busy
  <2>3. /\ Waiting' = Waiting /\ (NoTwice => NoTwice') /\ Submitting' = Submitting
        /\ caller' = caller /\ rec' = rec /\ Busy \subseteq Workers
    BY <1>8 DEF RunnerReturns, NoTwice, Waiting, Submitting, Busy
  <2> QED BY <2>2, <2>3 DEF OwnershipInv
<1>9. ASSUME NEW w \in Workers, FinishJob(w) PROVE OwnershipInv'
  <2>1. w \in Busy /\ Busy' = Busy \ {w} /\ \A v \in Busy' : worker'[v] = worker[v]
    BY <1>9 DEF FinishJob, Busy, JobTypeOK, IdleWorker
  <2>2. worker[w].ref \in Refs
    BY <2>1 DEF OwnershipInv
  <2>3. \A q \in Refs : q # worker[w].ref => rec'[q].status = rec[q].status
    BY <1>9 DEF FinishJob, JobTypeOK
  <2>4. Waiting' = Waiting /\ (NoTwice => NoTwice') /\ Submitting' = Submitting /\ caller' = caller
    BY <1>9 DEF FinishJob, Waiting, NoTwice, Submitting
  <2>5. Waiting \subseteq Refs
    BY WaitingRefs
  <2> QED BY <2>1, <2>2, <2>3, <2>4, <2>5 DEF OwnershipInv
<1>10. ASSUME NEW w \in Workers, NEW status \in Live, NEW note \in Notes,
              UpdateJob(w, status, note)
       PROVE  OwnershipInv'
  <2>1. \A q \in Refs : rec[q].status \in Live => rec'[q].status \in Live
    BY <1>10, UpdateFacts
  <2>2. Waiting' = Waiting /\ (NoTwice => NoTwice') /\ Submitting' = Submitting /\ caller' = caller
        /\ Busy' = Busy /\ worker' = worker
    BY <1>10 DEF UpdateJob, Waiting, NoTwice, Submitting, Busy
  <2>3. Waiting \subseteq Refs
    BY WaitingRefs
  <2> QED BY <2>1, <2>2, <2>3 DEF OwnershipInv
<1>11. CASE UNCHANGED jobVars
  BY <1>11, <1>a DEF Submitting
<1> QED
  BY <1>1, <1>2, <1>3, <1>4, <1>5, <1>6, <1>7, <1>8, <1>9, <1>10, <1>11 DEF JobNext

(* A call's clock reading is never ahead of the clock, and a live record has *)
(* the id under which it was inserted.                                       *)
LEMMA NamesStep ==
  JobTypeOK /\ OwnershipInv /\ NamesInv /\ LiveJobTracked /\ [JobNext]_jobVars => NamesInv'
<1> SUFFICES ASSUME JobTypeOK, OwnershipInv, NamesInv, LiveJobTracked, [JobNext]_jobVars
             PROVE  NamesInv'
  OBVIOUS
<1> USE JobStoreAssumption
<1>1. CASE Tick
  BY <1>1 DEF Tick, NamesInv, JobTypeOK, CallerState
<1>2. ASSUME NEW c \in Callers, NEW op \in {"queue", "poll"}, NEW j \in Jobs, BeginCall(c, op, j)
      PROVE  NamesInv'
  BY <1>2 DEF BeginCall, NamesInv, JobTypeOK
<1>3. ASSUME NEW c \in Callers, CleanupLocked(c) PROVE NamesInv'
  <2>1. /\ caller'[c].job = caller[c].job /\ caller'[c].at = now
        /\ \A d \in Callers : d # c => caller'[d] = caller[d]
    BY <1>3 DEF CleanupLocked, JobTypeOK, CallerState
  <2>2. now \in Nat /\ now' = now /\ rec' = rec /\ caller[c].pc # "idle"
    BY <1>3 DEF CleanupLocked, JobTypeOK
  <2> QED BY <2>1, <2>2 DEF NamesInv
<1>4. ASSUME NEW c \in Callers, Refuse(c) \/ Poll(c) \/ Submit(c) PROVE NamesInv'
  BY <1>4 DEF Refuse, Poll, Submit, NamesInv, JobTypeOK, IdleCaller
<1>5. ASSUME NEW c \in Callers, Insert(c) PROVE NamesInv'
  <2>1. PICK r \in Refs :
          /\ rec' = [rec EXCEPT ![r] = [job |-> caller[c].job, status |-> "queued",
                                        note |-> "none", submitted |-> caller[c].at,
                                        finished |-> 0]]
          /\ caller' = [caller EXCEPT ![c].pc = "submit", ![c].ref = r]
    BY <1>5 DEF Insert
  <2>2. /\ caller'[c].job = caller[c].job /\ caller'[c].at = caller[c].at
        /\ \A d \in Callers : d # c => caller'[d] = caller[d]
    BY <2>1 DEF JobTypeOK, CallerState
  <2>3. now' = now /\ caller[c].pc # "idle"
    BY <1>5 DEF Insert
  <2>4. rec'[r].job = caller[c].job /\ \A q \in Refs : q # r => rec'[q] = rec[q]
    BY <2>1 DEF JobTypeOK
  <2> QED BY <2>2, <2>3, <2>4 DEF NamesInv
<1>6. ASSUME NEW w \in Workers, StartJob(w) PROVE NamesInv'
  <2>1. Head(workQueue) \in Waiting /\ Head(workQueue) \in Refs
    BY <1>6, TailFacts DEF StartJob, OwnershipInv
  <2>2. \A q \in Refs : rec'[q].job = rec[q].job
    BY <1>6, <2>1 DEF StartJob, JobTypeOK, Record
  <2>3. rec[Head(workQueue)].status \in Live
    BY <2>1 DEF OwnershipInv
  <2>4. \A q \in Refs : rec'[q].status \in Live => rec[q].status \in Live
    BY <1>6, <2>1, <2>3 DEF StartJob, JobTypeOK, Record
  <2> QED BY <1>6, <2>2, <2>4 DEF StartJob, NamesInv
<1>7. ASSUME NEW w \in Workers, NEW outcome \in Terminal, RunnerReturns(w, outcome)
      PROVE  NamesInv'
  BY <1>7 DEF RunnerReturns, NamesInv
<1>8. ASSUME NEW w \in Workers, FinishJob(w) PROVE NamesInv'
  <2>1. worker[w].outcome \notin Live
    BY DEF JobTypeOK, WorkerState
  <2>2. \A q \in Refs : rec'[q].status \in Live => rec'[q] = rec[q]
    BY <1>8, <2>1 DEF FinishJob, JobTypeOK, Record
  <2> QED BY <1>8, <2>2 DEF FinishJob, NamesInv
<1>9. ASSUME NEW w \in Workers, NEW status \in Live, NEW note \in Notes,
             UpdateJob(w, status, note)
      PROVE  NamesInv'
  BY <1>9, UpdateFacts DEF UpdateJob, NamesInv
<1>10. CASE UNCHANGED jobVars
  BY <1>10 DEF NamesInv
<1> QED BY <1>1, <1>2, <1>3, <1>4, <1>5, <1>6, <1>7, <1>8, <1>9, <1>10 DEF JobNext

-----------------------------------------------------------------------------
(* What the callers are promised *)

(* Only a finished record is evicted, only an unused one is inserted, and    *)
(* only under a free id: a live record stays in its place.                   *)
LEMMA TrackedStep ==
  JobTypeOK /\ OwnershipInv /\ NamesInv /\ LiveJobTracked /\ [JobNext]_jobVars => LiveJobTracked'
<1> SUFFICES ASSUME JobTypeOK, OwnershipInv, NamesInv, LiveJobTracked, [JobNext]_jobVars
             PROVE  LiveJobTracked'
  OBVIOUS
<1> USE JobStoreAssumption
<1>a. ASSUME UNCHANGED <<store, rec>> PROVE LiveJobTracked'
  BY <1>a DEF LiveJobTracked
<1>1. CASE Tick
  BY <1>1, <1>a DEF Tick
<1>2. ASSUME NEW c \in Callers, NEW op \in {"queue", "poll"}, NEW j \in Jobs, BeginCall(c, op, j)
      PROVE  LiveJobTracked'
  BY <1>2, <1>a DEF BeginCall
<1>3. ASSUME NEW c \in Callers, CleanupLocked(c) PROVE LiveJobTracked'
  <2>1. rec' = rec
    BY <1>3 DEF CleanupLocked
  <2>2. ASSUME NEW j \in Jobs, store[j] # NoRef, store'[j] # store[j]
        PROVE  rec[store[j]].status \in Terminal
    BY <1>3, <2>2 DEF CleanupLocked, Evict, Overflow, Expired, Done, JobTypeOK
  <2> QED BY <2>1, <2>2 DEF LiveJobTracked, NamesInv
<1>4. ASSUME NEW c \in Callers, Refuse(c) \/ Poll(c) \/ Submit(c) PROVE LiveJobTracked'
  BY <1>4, <1>a DEF Refuse, Poll, Submit
<1>5. ASSUME NEW c \in Callers, Insert(c) PROVE LiveJobTracked'
  <2>1. PICK r \in Refs :
          /\ rec' = [rec EXCEPT ![r] = [job |-> caller[c].job, status |-> "queued",
                                        note |-> "none", submitted |-> caller[c].at,
                                        finished |-> 0]]
          /\ store' = [store EXCEPT ![caller[c].job] = r]
    BY <1>5 DEF Insert
  <2>2. caller[c].job \in Jobs /\ store[caller[c].job] = NoRef
    BY <1>5 DEF Insert, Refused, Entries, NamesInv
  <2>3. store'[caller[c].job] = r /\ rec'[r].job = caller[c].job
    BY <2>1, <2>2 DEF JobTypeOK
  <2>4. ASSUME NEW q \in Refs, q # r, rec'[q].status \in Live PROVE store'[rec'[q].job] = q
    <3>1. rec'[q] = rec[q] /\ store[rec[q].job] = q /\ rec[q].job \in Jobs
      BY <2>1, <2>4 DEF JobTypeOK, LiveJobTracked, NamesInv
    <3>2. rec[q].job # caller[c].job
      BY <2>2, <3>1
    <3> QED BY <2>1, <3>1, <3>2 DEF JobTypeOK
  <2> QED BY <2>3, <2>4 DEF LiveJobTracked
<1>6. ASSUME NEW w \in Workers, StartJob(w) PROVE LiveJobTracked'
  <2>1. Head(workQueue) \in Waiting /\ Head(workQueue) \in Refs
    BY <1>6, TailFacts DEF StartJob, OwnershipInv
  <2>2. rec[Head(workQueue)].status \in Live
    BY <2>1 DEF OwnershipInv
  <2>3. \A q \in Refs : /\ rec'[q].job = rec[q].job
                        /\ rec'[q].status \in Live => rec[q].status \in Live
    BY <1>6, <2>1, <2>2 DEF StartJob, JobTypeOK, Record
  <2> QED BY <1>6, <2>3 DEF StartJob, LiveJobTracked
<1>7. ASSUME NEW w \in Workers, NEW outcome \in Terminal, RunnerReturns(w, outcome)
      PROVE  LiveJobTracked'
  BY <1>7, <1>a DEF RunnerReturns
<1>8. ASSUME NEW w \in Workers, FinishJob(w) PROVE LiveJobTracked'
  <2>1. worker[w].outcome \notin Live
    BY DEF JobTypeOK, WorkerState
  <2>2. \A q \in Refs : rec'[q].status \in Live => rec'[q] = rec[q]
    BY <1>8, <2>1 DEF FinishJob, JobTypeOK, Record
  <2> QED BY <1>8, <2>2 DEF FinishJob, LiveJobTracked
<1>9. ASSUME NEW w \in Workers, NEW status \in Live, NEW note \in Notes,
             UpdateJob(w, status, note)
      PROVE  LiveJobTracked'
  BY <1>9, UpdateFacts DEF UpdateJob, LiveJobTracked
<1>10. CASE UNCHANGED jobVars
  BY <1>10, <1>a
<1> QED BY <1>1, <1>2, <1>3, <1>4, <1>5, <1>6, <1>7, <1>8, <1>9, <1>10 DEF JobNext

(* The store grows by one entry at a time, and only below its capacity.      *)
LEMMA BoundStep ==
  JobTypeOK /\ NamesInv /\ StoreBounded /\ [JobNext]_jobVars => StoreBounded'
<1> SUFFICES ASSUME JobTypeOK, NamesInv, StoreBounded, [JobNext]_jobVars PROVE StoreBounded'
  OBVIOUS
<1> USE JobStoreAssumption
<1>1. IsFiniteSet(Entries) /\ Cardinality(Entries) \in Nat
  <2>1. Entries \in SUBSET Jobs
    BY DEF Entries
  <2> QED BY <2>1, FS_Subset, FS_CardinalityType
<1>a. ASSUME Entries' \subseteq Entries PROVE StoreBounded'
  <2>1. Cardinality(Entries') <= Cardinality(Entries) /\ Cardinality(Entries') \in Nat
    BY <1>1, <1>a, FS_Subset, FS_CardinalityType
  <2> QED BY <1>1, <2>1 DEF StoreBounded
<1>2. ASSUME UNCHANGED store PROVE StoreBounded'
  BY <1>2, <1>a DEF Entries
<1>3. ASSUME NEW c \in Callers, CleanupLocked(c) PROVE StoreBounded'
  BY <1>3, <1>a, <1>2 DEF CleanupLocked, Evict, Entries
<1>4. ASSUME NEW c \in Callers, Insert(c) PROVE StoreBounded'
  <2>1. Entries' = Entries \cup {caller[c].job}
    BY <1>4 DEF Insert, Entries, NamesInv, JobTypeOK
  <2>2. Cardinality(Entries) < MaxEntries
    BY <1>1, <1>4 DEF Insert, Refused
  <2>3. Cardinality(Entries') <= Cardinality(Entries) + 1 /\ Cardinality(Entries') \in Nat
    <3>1. /\ IsFiniteSet(Entries \cup {caller[c].job})
          /\ \/ Cardinality(Entries \cup {caller[c].job}) = Cardinality(Entries)
             \/ Cardinality(Entries \cup {caller[c].job}) = Cardinality(Entries) + 1
      BY <1>1, FS_AddElement
    <3> QED BY <1>1, <2>1, <3>1
  <2> QED BY <1>1, <2>2, <2>3 DEF StoreBounded
<1> QED
  BY <1>2, <1>3, <1>4 DEF JobNext, Tick, BeginCall, Refuse, Submit, Poll, StartJob,
     RunnerReturns, FinishJob, UpdateJob

(* An empty registry with an idle pool satisfies the invariant.              *)
LEMMA JobInitInv == JobInit => JobInv
<1> SUFFICES ASSUME JobInit PROVE JobInv
  OBVIOUS
<1> USE JobStoreAssumption
<1>1. JobTypeOK
  BY EmptySeq DEF JobInit, JobTypeOK, Unused, IdleWorker, IdleCaller, Record, WorkerState, CallerState
<1>2. OwnershipInv
  <2>1. Len(workQueue) = 0
    BY EmptySeq DEF JobInit
  <2>2. Waiting = {} /\ NoTwice
    BY <2>1 DEF Waiting, NoTwice
  <2>3. Busy = {} /\ Submitting = {}
    BY DEF JobInit, Busy, Submitting, IdleWorker, IdleCaller
  <2> QED BY <2>2, <2>3 DEF OwnershipInv
<1>3. NamesInv /\ LiveJobTracked
  BY DEF JobInit, NamesInv, LiveJobTracked, Unused, IdleCaller
<1>4. StoreBounded
  <2>1. Entries = {}
    BY DEF JobInit, Entries
  <2> QED BY <2>1, FS_EmptySet DEF StoreBounded
<1> QED BY <1>1, <1>2, <1>3, <1>4 DEF JobInv

(* The inductive invariant of the registry: the two promises and what they   *)
(* rest on, the ownership of unfinished records.                             *)
THEOREM JobInvariant == JobSpec => []JobInv
<1>1. JobInv /\ [JobNext]_jobVars => JobInv'
  BY JobTypeStep, OwnershipStep, NamesStep, TrackedStep, BoundStep DEF JobInv
<1> QED BY JobInitInv, <1>1, PTL DEF JobSpec

(* The registry's variables keep their types.                                *)
THEOREM JobTypeCorrect == JobSpec => []JobTypeOK
<1>1. JobInv => JobTypeOK
  BY DEF JobInv
<1> QED BY JobInvariant, <1>1, PTL

(* A job that was accepted and is not finished is found under its id.        *)
THEOREM LiveJobsFound == JobSpec => []LiveJobTracked
<1>1. JobInv => LiveJobTracked
  BY DEF JobInv
<1> QED BY JobInvariant, <1>1, PTL

(* The store stays within its capacity.                                      *)
THEOREM StoreIsBounded == JobSpec => []StoreBounded
<1>1. JobInv => StoreBounded
  BY DEF JobInv
<1> QED BY JobInvariant, <1>1, PTL

(* What a cleanup takes out of the store finished, and its retention is over. *)
LEMMA EvictedFacts ==
  ASSUME JobInv, NEW c \in Callers, CleanupLocked(c),
         NEW j \in Jobs, store'[j] # store[j]
  PROVE  /\ store'[j] = NoRef /\ store[j] \in Refs
         /\ rec[store[j]].status \in Terminal
         /\ now > rec[store[j]].finished + TTL
<1> USE JobStoreAssumption
<1> DEFINE at == caller[c].at
           kept == Entries \ Expired(at)
<1>1. PICK V \in Overflow(kept) :
        store' = [i \in Jobs |-> IF i \in Expired(at) \cup V THEN NoRef ELSE store[i]]
  BY DEF CleanupLocked, Evict
<1>2. V = {}
  <2>1. V \subseteq kept /\ (V = {} \/ Cardinality(kept \ V) >= MaxEntries)
    BY <1>1 DEF Overflow
  <2>2. IsFiniteSet(Entries) /\ Cardinality(Entries) <= MaxEntries
    BY FS_Subset DEF JobInv, StoreBounded, Entries
  <2>3. /\ Cardinality(kept \ V) <= Cardinality(Entries)
        /\ Cardinality(Entries) = Cardinality(kept \ V) => Entries = kept \ V
        /\ Cardinality(kept \ V) \in Nat /\ Cardinality(Entries) \in Nat
    BY <2>2, FS_Subset, FS_CardinalityType
  <2>4. Cardinality(kept \ V) >= MaxEntries => V = {}
    BY <2>1, <2>2, <2>3
  <2> QED BY <2>1, <2>4
<1>3. j \in Expired(at) /\ store'[j] = NoRef
  BY <1>1, <1>2
<1>4. store[j] \in Refs /\ rec[store[j]].status \in Terminal /\ at > rec[store[j]].finished + TTL
  BY <1>3 DEF Expired, Entries, Done, FinishedAt, JobInv, JobTypeOK
<1>5. at \in Nat /\ now \in Nat /\ at <= now
  BY DEF CleanupLocked, JobInv, JobTypeOK, CallerState, NamesInv
<1>6. rec[store[j]].finished \in Nat
  BY <1>4 DEF JobInv, JobTypeOK, Record
<1> HIDE DEF at
<1> QED BY <1>3, <1>4, <1>5, <1>6

(* A record leaves the store only after its retention: the reading a cleanup *)
(* acts on is never ahead of the clock, and the overflow loop has nothing to *)
(* do while the store is bounded.                                            *)
THEOREM RetentionIsHonoured == JobSpec => RetentionHonoured
<1>1. JobInv /\ [JobNext]_jobVars =>
        \A j \in Jobs :
          store[j] # NoRef /\ store'[j] # store[j] =>
            /\ rec[store[j]].status \in Terminal
            /\ now > rec[store[j]].finished + TTL
  <2> SUFFICES ASSUME JobInv, [JobNext]_jobVars,
                      NEW j \in Jobs, store[j] # NoRef, store'[j] # store[j]
               PROVE  rec[store[j]].status \in Terminal /\ now > rec[store[j]].finished + TTL
    OBVIOUS
  <2> USE JobStoreAssumption
  <2>1. ASSUME NEW c \in Callers, CleanupLocked(c)
        PROVE  rec[store[j]].status \in Terminal /\ now > rec[store[j]].finished + TTL
    BY <2>1, EvictedFacts
  <2>2. ASSUME NEW c \in Callers, Insert(c) PROVE FALSE
    BY <2>2 DEF Insert, Refused, Entries, JobInv, JobTypeOK, NamesInv
  <2> QED
    BY <2>1, <2>2 DEF JobNext, Tick, BeginCall, Refuse, Submit, Poll, StartJob,
       RunnerReturns, FinishJob, UpdateJob
<1> QED BY JobInvariant, <1>1, PTL DEF JobSpec, RetentionHonoured

(* Whoever writes a status writes it to a live record.                       *)
LEMMA FinalStep ==
  ASSUME JobInv, [JobNext]_jobVars, NEW r \in Refs, rec[r].status \in Terminal
  PROVE  rec'[r].status = rec[r].status
<1> USE DEF JobInv
<1>1. ASSUME NEW c \in Callers, Insert(c) PROVE rec'[r].status = rec[r].status
  BY <1>1 DEF Insert, JobTypeOK
<1>2. ASSUME NEW w \in Workers, StartJob(w) PROVE rec'[r].status = rec[r].status
  <2>1. Head(workQueue) \in Waiting
    BY <1>2, TailFacts DEF StartJob, OwnershipInv
  <2>2. r # Head(workQueue)
    BY <2>1 DEF OwnershipInv
  <2> QED BY <1>2, <2>2 DEF StartJob, JobTypeOK
<1>3. ASSUME NEW w \in Workers, FinishJob(w) PROVE rec'[r].status = rec[r].status
  <2>1. r # worker[w].ref
    BY <1>3 DEF FinishJob, OwnershipInv, Busy
  <2> QED BY <1>3, <2>1 DEF FinishJob, JobTypeOK
<1>4. ASSUME NEW w \in Workers, NEW status \in Live, NEW note \in Notes,
             UpdateJob(w, status, note)
      PROVE  rec'[r].status = rec[r].status
  BY <1>4, UpdateFacts
<1> QED
  BY <1>1, <1>2, <1>3, <1>4 DEF JobNext, Tick, BeginCall, CleanupLocked, Refuse, Submit, Poll,
     RunnerReturns

(* A reported outcome is final, whatever the pool's threads do.              *)
THEOREM OutcomesAreFinal == JobSpec => OutcomeFinal
<1>1. JobInv /\ [JobNext]_jobVars =>
        \A r \in Refs : rec[r].status \in Terminal => rec'[r].status = rec[r].status
  <2> SUFFICES ASSUME JobInv, [JobNext]_jobVars, NEW r \in Refs, rec[r].status \in Terminal
               PROVE  rec'[r].status = rec[r].status
    OBVIOUS
  <2> QED BY FinalStep
<1> QED BY JobInvariant, <1>1, PTL DEF JobSpec, OutcomeFinal

-----------------------------------------------------------------------------
(* The registry keeps its promise: JobPromise under Life                     *)

(* An entry is filed under its record's id, and no clock reading of a runner *)
(* that ended is ahead.                                                      *)
FiledInv ==
  /\ \A j \in Entries : rec[store[j]].job = j /\ rec[store[j]].status # "unused"
  /\ \A w \in Workers : worker[w].pc = "finish" => worker[w].at <= now
  /\ \A r \in Refs : IF rec[r].status = "unused" THEN rec[r] = Unused ELSE rec[r].job \in Jobs

LEMMA FiledStep ==
  ASSUME JobInv, FiledInv, [JobNext]_jobVars
  PROVE  FiledInv'
<1> USE JobStoreAssumption
<1>0. JobTypeOK /\ OwnershipInv /\ NamesInv /\ LiveJobTracked
  BY DEF JobInv
<1>a. ASSUME UNCHANGED <<now, store, rec, worker>> PROVE FiledInv'
  BY <1>a DEF FiledInv, Entries
<1>1. CASE Tick
  <2>1. now \in Nat /\ now' = now + 1 /\ UNCHANGED <<store, rec, worker>>
    BY <1>0, <1>1 DEF Tick, JobTypeOK
  <2>2. \A w \in Workers : worker[w].at \in Nat
    BY <1>0 DEF JobTypeOK, WorkerState
  <2>3. \A w \in Workers : worker[w].pc = "finish" => worker[w].at <= now + 1
    BY <2>1, <2>2 DEF FiledInv
  <2> QED BY <2>1, <2>3 DEF FiledInv, Entries
<1>2. ASSUME NEW c \in Callers, NEW op \in {"queue", "poll"}, NEW j \in Jobs, BeginCall(c, op, j)
      PROVE  FiledInv'
  BY <1>2, <1>a DEF BeginCall
<1>3. ASSUME NEW c \in Callers, CleanupLocked(c) PROVE FiledInv'
  <2>1. UNCHANGED <<now, rec, worker>>
    BY <1>3 DEF CleanupLocked
  <2>2. \A j \in Jobs : store'[j] # NoRef => store'[j] = store[j]
    BY <1>0, <1>3 DEF CleanupLocked, Evict, JobTypeOK
  <2> QED BY <2>1, <2>2 DEF FiledInv, Entries
<1>4. ASSUME NEW c \in Callers, Refuse(c) \/ Poll(c) \/ Submit(c) PROVE FiledInv'
  BY <1>4, <1>a DEF Refuse, Poll, Submit
<1>5. ASSUME NEW c \in Callers, Insert(c) PROVE FiledInv'
  <2> DEFINE j == caller[c].job
             new == [job |-> j, status |-> "queued", note |-> "none",
                     submitted |-> caller[c].at, finished |-> 0]
  <2>1. PICK r \in Refs :
          /\ rec[r].status = "unused"
          /\ rec' = [rec EXCEPT ![r] = new]
          /\ store' = [store EXCEPT ![j] = r]
    BY <1>5 DEF Insert
  <2>2. j \in Jobs /\ UNCHANGED <<now, worker>>
    BY <1>0, <1>5 DEF Insert, NamesInv
  <2>3. new.job = j /\ new.status = "queued"
    OBVIOUS
  <2> HIDE DEF new, j
  <2>4. rec'[r] = new /\ \A q \in Refs : q # r => rec'[q] = rec[q]
    BY <1>0, <2>1 DEF JobTypeOK
  <2>5. store'[j] = r /\ \A i \in Jobs : i # j => store'[i] = store[i]
    BY <1>0, <2>1, <2>2 DEF JobTypeOK
  <2>6. \A i \in Entries : store[i] # r /\ store[i] \in Refs
    BY <1>0, <2>1 DEF FiledInv, Entries, JobTypeOK
  <2>7. \A i \in Jobs : store'[i] # NoRef =>
          rec'[store'[i]].job = i /\ rec'[store'[i]].status # "unused"
    BY <2>2, <2>3, <2>4, <2>5, <2>6 DEF FiledInv, Entries
  <2>8. \A q \in Refs : IF rec'[q].status = "unused" THEN rec'[q] = Unused ELSE rec'[q].job \in Jobs
    BY <2>2, <2>3, <2>4 DEF FiledInv
  <2> QED BY <2>2, <2>7, <2>8 DEF FiledInv, Entries
<1>b. ASSUME UNCHANGED store,
             \A q \in Refs : rec'[q].job = rec[q].job,
             \A q \in Refs : rec'[q] = rec[q] \/ (rec[q].status # "unused" /\ rec'[q].status # "unused"),
             \A w \in Workers : worker'[w].pc = "finish" => worker'[w].at <= now'
      PROVE  FiledInv'
  <2>1. \A j \in Entries : store[j] \in Refs
    BY <1>0 DEF Entries, JobTypeOK
  <2> QED BY <1>b, <2>1 DEF FiledInv, Entries
<1>6. ASSUME NEW w \in Workers, StartJob(w) PROVE FiledInv'
  <2> DEFINE r == Head(workQueue)
  <2>1. r \in Waiting /\ r \in Refs
    BY <1>0, <1>6, TailFacts DEF StartJob, OwnershipInv
  <2>2. rec[r].status \in Live
    BY <1>0, <2>1 DEF OwnershipInv
  <2>3. /\ UNCHANGED <<now, store>> /\ rec' = [rec EXCEPT ![r].status = "running"]
        /\ worker' = [worker EXCEPT ![w].pc = "run", ![w].ref = r]
    BY <1>6 DEF StartJob
  <2> HIDE DEF r
  <2>4. \A q \in Refs : rec'[q].job = rec[q].job /\ (q # r => rec'[q] = rec[q])
    BY <1>0, <2>1, <2>3, StartedRecord
  <2>5. rec'[r].status = "running"
    BY <1>0, <2>1, <2>3, StartedRecord
  <2>6. worker'[w].pc = "run" /\ \A v \in Workers : v # w => worker'[v] = worker[v]
    BY <1>0, <2>3 DEF JobTypeOK, WorkerState
  <2>7. \A v \in Workers : worker'[v].pc = "finish" => worker'[v].at <= now'
    BY <2>3, <2>6 DEF FiledInv
  <2> QED BY <1>b, <2>2, <2>3, <2>4, <2>5, <2>7
<1>7. ASSUME NEW w \in Workers, NEW outcome \in Terminal, RunnerReturns(w, outcome)
      PROVE  FiledInv'
  <2>1. \A v \in Workers : worker'[v].pc = "finish" => worker'[v].at <= now'
    BY <1>0, <1>7 DEF RunnerReturns, FiledInv, JobTypeOK, WorkerState
  <2> QED BY <1>7, <1>b, <2>1 DEF RunnerReturns
<1>8. ASSUME NEW w \in Workers, FinishJob(w) PROVE FiledInv'
  <2> DEFINE r == worker[w].ref
  <2>1. r \in Refs /\ rec[r].status \in Live
    BY <1>0, <1>8 DEF FinishJob, OwnershipInv, Busy
  <2>2. worker[w].outcome \in Terminal
    BY <1>0 DEF JobTypeOK, WorkerState
  <2>3. /\ UNCHANGED <<now, store>>
        /\ rec' = [rec EXCEPT ![r].status = worker[w].outcome, ![r].finished = worker[w].at]
        /\ worker' = [worker EXCEPT ![w] = IdleWorker]
    BY <1>8 DEF FinishJob
  <2> HIDE DEF r
  <2>4. \A q \in Refs : rec'[q].job = rec[q].job /\ (q # r => rec'[q] = rec[q])
    BY <1>0, <2>1, <2>3 DEF JobTypeOK, Record
  <2>5. rec'[r].status = worker[w].outcome
    BY <1>0, <2>1, <2>3 DEF JobTypeOK, Record
  <2>6. \A v \in Workers : worker'[v].pc = "finish" => worker'[v].at <= now'
    BY <1>0, <2>3 DEF FiledInv, JobTypeOK, IdleWorker
  <2> QED BY <1>b, <2>1, <2>2, <2>3, <2>4, <2>5, <2>6
<1>9. ASSUME NEW w \in Workers, NEW status \in Live, NEW note \in Notes, UpdateJob(w, status, note)
      PROVE  FiledInv'
  <2>1. UNCHANGED <<now, store, worker>>
    BY <1>9 DEF UpdateJob
  <2>2. \A q \in Refs : rec'[q] = rec[q] \/ (rec[q].status # "unused" /\ rec'[q].status # "unused")
    BY <1>0, <1>9, UpdateFacts
  <2>3. \A v \in Workers : worker'[v].pc = "finish" => worker'[v].at <= now'
    BY <2>1 DEF FiledInv
  <2> QED BY <1>0, <1>9, <1>b, <2>1, <2>2, <2>3, UpdateFacts
<1>10. CASE UNCHANGED jobVars
  BY <1>10, <1>a
<1> QED BY <1>1, <1>2, <1>3, <1>4, <1>5, <1>6, <1>7, <1>8, <1>9, <1>10 DEF JobNext

(* A record in use has one of the four states of a job.                      *)
LEMMA UsedStatus ==
  ASSUME JobTypeOK, NEW r \in Refs, rec[r].status # "unused"
  PROVE  rec[r].status \in Live \cup Terminal
<1>1. rec[r] \in Record
  BY DEF JobTypeOK
<1> QED BY <1>1 DEF Record

(* The ids that the promise says are in use are those of the entries.        *)
LEMMA NamesAreEntries ==
  ASSUME JobInv, FiledInv
  PROVE  Registry!Names = Entries
<1>0. JobTypeOK /\ NamesInv /\ LiveJobTracked
  BY DEF JobInv
<1>1. ASSUME NEW r \in Registry!Known PROVE rec[r].job \in Entries
  <2>1. r \in Refs /\ LifeOf(r) \in {"accepted", "started", "ended"}
    BY DEF Registry!Known, Life
  <2>2. rec[r].status # "unused"
    BY <2>1 DEF LifeOf
  <2>3. rec[r].job \in Jobs /\ (rec[r].status \in Live => store[rec[r].job] = r)
    BY <1>0, <2>1, <2>2 DEF LiveJobTracked, FiledInv
  <2>4. rec[r].status \in Terminal => store[rec[r].job] = r
    BY <2>1, <2>2 DEF LifeOf
  <2>5. rec[r].status \in Live \cup Terminal
    BY <1>0, <2>1, <2>2, UsedStatus
  <2> QED BY <2>1, <2>3, <2>4, <2>5, JobStoreAssumption DEF Entries
<1>2. ASSUME NEW j \in Entries PROVE j \in Registry!Names
  <2> DEFINE r == store[j]
  <2>1. r \in Refs /\ rec[r].job = j /\ rec[r].status # "unused"
    BY <1>0 DEF FiledInv, Entries, JobTypeOK
  <2>2. LifeOf(r) \in {"accepted", "started", "ended"}
    BY <1>0, <2>1, UsedStatus DEF LifeOf
  <2>3. r \in Registry!Known
    BY <2>1, <2>2 DEF Registry!Known, Life
  <2> QED BY <2>1, <2>3 DEF Registry!Names
<1>3. Registry!Names = {rec[r].job : r \in Registry!Known}
  BY DEF Registry!Names, Registry!Known
<1> QED BY <1>1, <1>2, <1>3

(* A record's life depends on itself, its entry and the hands it is in.      *)
LEMMA SameLife ==
  ASSUME NEW r, rec'[r].status = rec[r].status \/ {rec[r].status, rec'[r].status} \subseteq Live,
         rec'[r].job = rec[r].job, store'[rec[r].job] = store[rec[r].job],
         InHand(r)' <=> InHand(r)
  PROVE  LifeOf(r)' = LifeOf(r)
BY DEF LifeOf

(* A step of the registry's threads is a step of the promise or none.        *)
LEMMA RegistryStep ==
  ASSUME JobInv, FiledInv, [JobNext]_jobVars
  PROVE  [Registry!PromiseNext]_Registry!promiseVars
<1> DEFINE Naming == [r \in Refs |-> rec[r].job]
           Ends == [r \in Refs |-> rec[r].finished]
           Still == UNCHANGED <<Life, Naming, Ends, now>>
<1> SUFFICES Registry!PromiseNext \/ Still
  BY DEF Registry!promiseVars
<1> USE JobStoreAssumption
<1>0. JobTypeOK /\ OwnershipInv /\ NamesInv /\ LiveJobTracked
  BY DEF JobInv
<1>a. ASSUME UNCHANGED <<store, rec>>, \A r \in Refs : InHand(r)' <=> InHand(r)
      PROVE  UNCHANGED <<Life, Naming, Ends>>
  <2>1. \A r \in Refs : LifeOf(r)' = LifeOf(r)
    BY <1>a, SameLife
  <2> QED BY <1>a, <2>1 DEF Life
<1>b. ASSUME UNCHANGED <<store, rec, worker, now>> PROVE Still
  BY <1>a, <1>b DEF InHand
<1>1. CASE Tick
  <2>1. UNCHANGED <<Life, Naming, Ends>> /\ now' = now + 1
    BY <1>1, <1>a DEF Tick, InHand
  <2> HIDE DEF Naming, Ends
  <2> QED BY <2>1 DEF Registry!PromiseNext, Registry!Pass, Naming, Ends
<1>2. ASSUME NEW c \in Callers, NEW op \in {"queue", "poll"}, NEW j \in Jobs, BeginCall(c, op, j)
      PROVE  Still
  BY <1>2, <1>b DEF BeginCall
<1>4. ASSUME NEW c \in Callers, Refuse(c) \/ Poll(c) \/ Submit(c) PROVE Still
  BY <1>4, <1>b DEF Refuse, Poll, Submit
<1>c. ASSUME NEW r \in Refs, \A q \in Refs : q # r => LifeOf(q)' = LifeOf(q)
      PROVE  Life' = [Life EXCEPT ![r] = LifeOf(r)'] /\ Life[r] = LifeOf(r)
  BY <1>c DEF Life
<1>3. ASSUME NEW c \in Callers, CleanupLocked(c)
      PROVE  \E S \in SUBSET Refs : Registry!Forget(S)
  <2> DEFINE S == {r \in Refs : \E j \in Jobs : store[j] = r /\ store'[j] # r}
  <2>1. UNCHANGED <<now, rec, worker>> /\ \A q \in Refs : InHand(q)' <=> InHand(q)
    BY <1>3 DEF CleanupLocked, InHand
  <2>2. ASSUME NEW r \in S
        PROVE  /\ LifeOf(r) = "ended" /\ LifeOf(r)' = "forgotten"
               /\ now > rec[r].finished + TTL
    <3>1. PICK j \in Jobs : store[j] = r /\ store'[j] # r
      OBVIOUS
    <3>2. /\ store'[j] = NoRef /\ r \in Refs
          /\ rec[r].status \in Terminal /\ now > rec[r].finished + TTL
      BY <1>3, <3>1, EvictedFacts
    <3>3. rec[r].job = j
      BY <3>1, <3>2 DEF FiledInv, Entries
    <3>4. rec'[r] = rec[r]
      BY <2>1
    <3> QED BY <3>1, <3>2, <3>3, <3>4 DEF LifeOf
  <2>3. ASSUME NEW r \in Refs, r \notin S PROVE LifeOf(r)' = LifeOf(r)
    <3>1. CASE rec[r].status = "unused"
      BY <2>1, <3>1 DEF LifeOf
    <3>2. CASE rec[r].status # "unused"
      <4>1. rec[r].job \in Jobs
        BY <3>2 DEF FiledInv
      <4>2. store'[rec[r].job] = r <=> store[rec[r].job] = r
        BY <1>3, <2>3, <4>1, EvictedFacts
      <4> QED BY <2>1, <4>2 DEF LifeOf
    <3> QED BY <3>1, <3>2
  <2>4. S \subseteq Refs
    OBVIOUS
  <2> HIDE DEF S
  <2>5. Life' = [r \in Refs |-> IF r \in S THEN "forgotten" ELSE Life[r]]
    BY <2>2, <2>3, <2>4 DEF Life
  <2>6. \A r \in S : Life[r] = "ended" /\ now > Ends[r] + TTL
    BY <2>2, <2>4 DEF Life
  <2>7. Registry!Forget(S)
    BY <2>1, <2>5, <2>6 DEF Registry!Forget
  <2> QED BY <2>4, <2>7
<1>5. ASSUME NEW c \in Callers, Insert(c)
      PROVE  \E r \in Refs, j \in Jobs : Registry!Accept(r, j)
  <2>0. PICK j \in Jobs : j = caller[c].job
    BY <1>0, <1>5 DEF Insert, NamesInv
  <2> DEFINE new == [job |-> j, status |-> "queued", note |-> "none",
                     submitted |-> caller[c].at, finished |-> 0]
  <2>1. PICK r \in Refs :
          /\ rec[r].status = "unused"
          /\ rec' = [rec EXCEPT ![r] = new]
          /\ store' = [store EXCEPT ![j] = r]
    BY <1>5, <2>0 DEF Insert
  <2>2. UNCHANGED <<now, worker>>
    BY <1>5 DEF Insert
  <2>3. j \notin Entries /\ ~(Cardinality(Entries) >= MaxEntries)
    BY <1>5, <2>0 DEF Insert, Refused
  <2>4. new.job = j /\ new.status = "queued" /\ new.finished = 0
    OBVIOUS
  <2> HIDE DEF new
  <2>5. rec'[r] = new /\ \A q \in Refs : q # r => rec'[q] = rec[q]
    BY <1>0, <2>1 DEF JobTypeOK
  <2>6. store'[j] = r /\ \A i \in Jobs : i # j => store'[i] = store[i]
    BY <1>0, <2>1, <2>2 DEF JobTypeOK
  <2>7. store[j] = NoRef
    BY <2>2, <2>3 DEF Entries
  <2>8. \A q \in Refs : InHand(q)' <=> InHand(q)
    BY <2>2 DEF InHand
  <2>9. ~InHand(r)
    BY <1>0, <2>1 DEF InHand, OwnershipInv, Busy
  <2>10. LifeOf(r) = "unborn" /\ LifeOf(r)' = "accepted"
    BY <2>1, <2>4, <2>5, <2>8, <2>9 DEF LifeOf
  <2>11. ASSUME NEW q \in Refs, q # r PROVE LifeOf(q)' = LifeOf(q)
    <3>1. rec'[q] = rec[q]
      BY <2>5, <2>11
    <3>2. CASE rec[q].status = "unused"
      BY <3>1, <3>2 DEF LifeOf
    <3>3. CASE rec[q].status # "unused"
      <4>1. rec[q].job \in Jobs
        BY <3>3 DEF FiledInv
      <4>2. store'[rec[q].job] = q <=> store[rec[q].job] = q
        BY <2>6, <2>7, <2>11, <4>1
      <4> QED BY <2>8, <3>1, <4>2 DEF LifeOf
    <3> QED BY <3>2, <3>3
  <2>12. Life' = [Life EXCEPT ![r] = "accepted"] /\ Life[r] = "unborn"
    BY <1>c, <2>10, <2>11
  <2>13. Naming' = [Naming EXCEPT ![r] = j]
    BY <2>4, <2>5
  <2>14. rec[r].finished = 0
    <3>1. rec[r] = Unused
      BY <2>1 DEF FiledInv
    <3> QED BY <3>1 DEF Unused
  <2>15. Ends' = Ends
    BY <2>4, <2>5, <2>14
  <2>16. j \notin Registry!Names /\ Cardinality(Registry!Names) < MaxEntries
    <3>1. Cardinality(Entries) \in Nat
      BY FS_Subset, FS_CardinalityType DEF Entries
    <3> QED BY <2>3, <3>1, NamesAreEntries
  <2>17. Registry!Accept(r, j)
    <3>1. Registry!Cardinality(Registry!Names) = Cardinality(Registry!Names)
      BY DEF Registry!Cardinality, Cardinality
    <3>2. j \notin Registry!Names /\ Registry!Cardinality(Registry!Names) < MaxEntries
      BY <2>16, <3>1
    <3> QED BY <2>2, <2>12, <2>13, <2>15, <3>2 DEF Registry!Accept
  <2> QED BY <2>17
<1>6. ASSUME NEW w \in Workers, StartJob(w) PROVE \E r \in Refs : Registry!Start(r)
  <2>0. Head(workQueue) \in Waiting /\ Head(workQueue) \in Refs
    BY <1>0, <1>6, TailFacts DEF StartJob, OwnershipInv
  <2>1. PICK r \in Refs : r = Head(workQueue)
    BY <2>0
  <2>2. rec[r].status \in Live /\ ~InHand(r)
    BY <1>0, <2>0, <2>1 DEF OwnershipInv, Busy, InHand
  <2>3. /\ UNCHANGED <<now, store>> /\ rec' = [rec EXCEPT ![r].status = "running"]
        /\ worker' = [worker EXCEPT ![w].pc = "run", ![w].ref = r]
        /\ worker[w].pc = "idle"
    BY <1>6, <2>1 DEF StartJob
  <2>4. \A q \in Refs : /\ rec'[q].job = rec[q].job /\ rec'[q].finished = rec[q].finished
                       /\ (q # r => rec'[q] = rec[q])
    BY <1>0, <2>3, StartedRecord
  <2>5. rec'[r].status = "running"
    BY <1>0, <2>3, StartedRecord
  <2>6. /\ worker'[w].pc = "run" /\ worker'[w].ref = r
        /\ \A v \in Workers : v # w => worker'[v] = worker[v]
    BY <1>0, <2>3 DEF JobTypeOK, WorkerState
  <2>7. InHand(r)'
    BY <2>6 DEF InHand
  <2>8. \A q \in Refs : q # r => (InHand(q)' <=> InHand(q))
    BY <2>3, <2>6 DEF InHand
  <2>9. LifeOf(r) = "accepted" /\ LifeOf(r)' = "started"
    BY <2>2, <2>5, <2>7 DEF LifeOf
  <2>10. \A q \in Refs : q # r => LifeOf(q)' = LifeOf(q)
    BY <2>3, <2>4, <2>8, SameLife
  <2>11. Life' = [Life EXCEPT ![r] = "started"] /\ Life[r] = "accepted"
    BY <1>c, <2>9, <2>10
  <2>12. UNCHANGED <<Naming, Ends>>
    BY <2>4
  <2>13. Registry!Start(r)
    BY <2>3, <2>11, <2>12 DEF Registry!Start
  <2> QED BY <2>13
<1>7. ASSUME NEW w \in Workers, NEW outcome \in Terminal, RunnerReturns(w, outcome) PROVE Still
  <2>1. /\ worker[w].pc = "run" /\ worker'[w].pc = "finish" /\ worker'[w].ref = worker[w].ref
        /\ \A v \in Workers : v # w => worker'[v] = worker[v]
    BY <1>0, <1>7 DEF RunnerReturns, JobTypeOK, WorkerState
  <2>2. \A r \in Refs : InHand(r)' <=> InHand(r)
    BY <2>1 DEF InHand
  <2>3. UNCHANGED <<store, rec, now>>
    BY <1>7 DEF RunnerReturns
  <2> QED BY <1>a, <2>2, <2>3
<1>8. ASSUME NEW w \in Workers, FinishJob(w)
      PROVE  \E r \in Refs : \E at \in 0..now : Registry!End(r, at)
  <2>0. worker[w].ref \in Refs /\ rec[worker[w].ref].status \in Live
    BY <1>0, <1>8 DEF FinishJob, OwnershipInv, Busy
  <2>1. PICK r \in Refs : r = worker[w].ref
    BY <2>0
  <2>2. worker[w].outcome \in Terminal /\ worker[w].at \in 0..now
    BY <1>0, <1>8 DEF FinishJob, FiledInv, JobTypeOK, WorkerState
  <2>3. PICK outcome \in Terminal, at \in 0..now : outcome = worker[w].outcome /\ at = worker[w].at
    BY <2>2
  <2>4. /\ UNCHANGED <<now, store>> /\ worker[w].pc = "finish"
        /\ rec' = [rec EXCEPT ![r].status = outcome, ![r].finished = at]
        /\ worker' = [worker EXCEPT ![w] = IdleWorker]
    BY <1>8, <2>1, <2>3 DEF FinishJob
  <2>5. InHand(r)
    BY <2>1, <2>4 DEF InHand
  <2>6. \A q \in Refs : q # r => (InHand(q)' <=> InHand(q))
    <3>1. worker'[w].pc = "idle" /\ \A v \in Workers : v # w => worker'[v] = worker[v]
      BY <1>0, <2>4 DEF JobTypeOK, IdleWorker
    <3> QED BY <2>1, <3>1 DEF InHand
  <2>7. \A q \in Refs : rec'[q].job = rec[q].job /\ (q # r => rec'[q] = rec[q])
    BY <1>0, <2>4 DEF JobTypeOK, Record
  <2>8. rec'[r].status = outcome /\ rec'[r].finished = at
    <3> HIDE DEF Notes
    <3> QED BY <1>0, <2>4 DEF JobTypeOK, Record
  <2>9. rec[r].status \in Live /\ store'[rec'[r].job] = r /\ rec'[r].status \in Terminal
    BY <1>0, <2>0, <2>1, <2>4, <2>7, <2>8 DEF LiveJobTracked
  <2>10. LifeOf(r) = "started" /\ LifeOf(r)' = "ended"
    BY <2>5, <2>9 DEF LifeOf
  <2>11. \A q \in Refs : q # r => LifeOf(q)' = LifeOf(q)
    BY <2>4, <2>6, <2>7, SameLife
  <2>12. Life' = [Life EXCEPT ![r] = "ended"] /\ Life[r] = "started"
    BY <1>c, <2>10, <2>11
  <2>13. Naming' = Naming /\ Ends' = [Ends EXCEPT ![r] = at]
    BY <2>7, <2>8
  <2>14. Registry!End(r, at)
    BY <2>4, <2>12, <2>13 DEF Registry!End
  <2>15. \E e \in 0..now : Registry!End(r, e)
    <3> WITNESS at \in 0..now
    <3> QED BY <2>14
  <2> QED BY <2>15
<1>9. ASSUME NEW w \in Workers, NEW status \in Live, NEW note \in Notes, UpdateJob(w, status, note)
      PROVE  Still
  <2>1. UNCHANGED <<now, store, worker>> /\ \A q \in Refs : InHand(q)' <=> InHand(q)
    BY <1>9 DEF UpdateJob, InHand
  <2>2. \A q \in Refs :
          /\ rec'[q].job = rec[q].job /\ rec'[q].finished = rec[q].finished
          /\ rec'[q].status = rec[q].status \/ {rec[q].status, rec'[q].status} \subseteq Live
    BY <1>0, <1>9, UpdateFacts
  <2>3. \A q \in Refs : LifeOf(q)' = LifeOf(q)
    BY <2>1, <2>2, SameLife
  <2> QED BY <2>1, <2>2, <2>3 DEF Life
<1>10. CASE UNCHANGED jobVars
  BY <1>10, <1>b
<1> HIDE DEF Still
<1>11. ASSUME Tick \/ Still PROVE Registry!PromiseNext \/ Still
  BY <1>1, <1>11
<1>12. ASSUME NEW c \in Callers,
              \/ \E op \in {"queue", "poll"}, j \in Jobs : BeginCall(c, op, j)
              \/ CleanupLocked(c) \/ Refuse(c) \/ Insert(c) \/ Submit(c) \/ Poll(c)
       PROVE  Registry!PromiseNext \/ Still
  <2>1. CASE CleanupLocked(c)
    BY <1>3, <2>1 DEF Registry!PromiseNext
  <2>2. CASE Insert(c)
    BY <1>5, <2>2 DEF Registry!PromiseNext
  <2> QED BY <1>2, <1>4, <1>12, <2>1, <2>2
<1>13. ASSUME NEW w \in Workers,
              \/ StartJob(w)
              \/ \E outcome \in Terminal : RunnerReturns(w, outcome)
              \/ UpdateJob(w, "queued", "waiting") \/ UpdateJob(w, "running", "via queue")
              \/ FinishJob(w)
       PROVE  Registry!PromiseNext \/ Still
  <2>1. CASE StartJob(w)
    BY <1>6, <2>1 DEF Registry!PromiseNext
  <2>2. CASE FinishJob(w)
    BY <1>8, <2>2 DEF Registry!PromiseNext
  <2> QED BY <1>7, <1>9, <1>13, <2>1, <2>2
<1> QED BY <1>10, <1>11, <1>12, <1>13 DEF JobNext

LEMMA RegistryInit == JobInit => FiledInv /\ Registry!PromiseInit
<1> SUFFICES ASSUME JobInit PROVE FiledInv /\ Registry!PromiseInit
  OBVIOUS
<1> USE JobStoreAssumption
<1>1. FiledInv
  BY DEF JobInit, FiledInv, Entries, IdleWorker, Unused
<1>2. \A r \in Refs : rec[r].status = "unused" /\ rec[r].job = NoRef /\ rec[r].finished = 0
  BY DEF JobInit, Unused
<1>3. Life = [r \in Refs |-> "unborn"]
  BY <1>2 DEF Life, LifeOf
<1>4. now \in Nat
  BY DEF JobInit
<1> QED BY <1>1, <1>2, <1>3, <1>4 DEF Registry!PromiseInit

(* The registry's threads act as the atomic registry of JobPromise: every    *)
(* locked step is one of its operations on one job or evicts ended ones, and *)
(* the steps between the locks change nothing that it promises.              *)
THEOREM KeepsJobPromise == JobSpec => JobsAsPromised
<1>1. JobInv /\ FiledInv /\ [JobNext]_jobVars => FiledInv'
  BY FiledStep
<1>2. JobInv /\ FiledInv /\ [JobNext]_jobVars => [Registry!PromiseNext]_Registry!promiseVars
  BY RegistryStep
<1>3. JobInit => FiledInv /\ Registry!PromiseInit
  BY RegistryInit
<1> QED BY JobInvariant, <1>1, <1>2, <1>3, PTL DEF JobSpec, JobsAsPromised, Registry!PromiseSpec
=============================================================================
