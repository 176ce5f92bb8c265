------------------------------ MODULE AllInOne ------------------------------
(* The three-stage pipeline of labs/python_concurrency/all_in_one_pipeline.py:*)
(* a producer, bounded queues with sentinels, workers that fetch (A),        *)
(* transform (B) and write (C) with retries and per-attempt timeouts, a set  *)
(* of idempotency keys in progress and completed, and a global deadline that *)
(* cancels every task and reconciles what is left.                           *)
(*                                                                           *)
(* One asyncio loop runs it all, so a step of this module is what one task   *)
(* does between two suspensions.  dedupe_lock never suspends: no body under   *)
(* it awaits.  The statuses timed_out, poison and failed_stage_* are one     *)
(* here, "failed": terminal without the side effect.  Counters and latencies *)
(* are left out.                                                             *)
EXTENDS Naturals, Sequences, FiniteSets

CONSTANTS
  N,              \* number of input rows
  Keys, KeyOf,    \* idempotency keys, and the key of each row
  AWorkers, BWorkers, CWorkers,
  QueueSize,      \* capacity of each of the three queues
  FetchInflight, WriteInflight,   \* the two semaphores
  FetchRetries, WriteRetries,
  Deadline        \* TRUE: global_timeout_ms > 0

Items == 1..N
Workers == AWorkers \cup BWorkers \cup CWorkers

ASSUME AllInOneAssumption ==
  /\ N \in Nat /\ KeyOf \in [Items -> Keys]
  /\ IsFiniteSet(AWorkers) /\ IsFiniteSet(BWorkers) /\ IsFiniteSet(CWorkers)
  /\ AWorkers \cap BWorkers = {} /\ AWorkers \cap CWorkers = {}
  /\ BWorkers \cap CWorkers = {}
  /\ AWorkers # {} /\ BWorkers # {} /\ CWorkers # {}
  /\ QueueSize \in Nat \ {0}
  /\ FetchInflight \in Nat \ {0} /\ WriteInflight \in Nat \ {0}
  /\ FetchRetries \in Nat /\ WriteRetries \in Nat
  /\ Deadline \in BOOLEAN

None == 0         \* the sentinel in a queue, and "no item"

VARIABLES
  swallows,       \* TRUE: asyncio.wait_for of Python 3.11 and older
  main,           \* where run_pipeline is
  sent,           \* sentinels put so far into the current queue
  produced,       \* puts made by the producer
  producing,      \* the producer task is alive
  inQ, abQ, bcQ,  \* input_queue, queue_a_to_b, queue_b_to_c
  task,           \* the workers
  cancelling,     \* workers whose cancellation is not delivered yet
  stopEvent,      \* stop_event.is_set()
  result,         \* results
  inProgress, completed   \* the two key sets of SharedState

pipeVars == <<swallows, main, sent, produced, producing, inQ, abQ, bcQ, task,
              cancelling, stopEvent, result, inProgress, completed>>
keyVars == <<inProgress, completed>>
mainVars == <<main, sent, stopEvent, produced, producing>>

Status == {"none", "success", "deduped", "failed", "cancelled"}
MainAt == {"produce", "joinA", "endB", "joinB", "endC", "joinC", "expired",
           "stopping", "done"}
TaskState == [at : {"get", "admit", "call", "put", "ended"},
              item : Items \cup {None}, tries : Nat]

(* Type correctness of the pipeline. *)
PipeTypeOK ==
  /\ swallows \in BOOLEAN /\ main \in MainAt /\ sent \in Nat
  /\ produced \in Nat /\ producing \in BOOLEAN /\ stopEvent \in BOOLEAN
  /\ inQ \in Seq(Items \cup {None}) /\ abQ \in Seq(Items \cup {None})
  /\ bcQ \in Seq(Items \cup {None})
  /\ task \in [Workers -> TaskState]
  /\ cancelling \in SUBSET Workers
  /\ result \in [Items -> Status]
  /\ inProgress \in SUBSET Keys /\ completed \in SUBSET Keys

Waiting == [at |-> "get", item |-> None, tries |-> 0]

(* A plausible slip: an end of a worker that no gather() recognises. *)
EndedMisnamed == [at |-> "stopped", item |-> None, tries |-> 0]

Ended == [at |-> "ended", item |-> None, tries |-> 0]

PipeInit ==
  /\ swallows \in BOOLEAN
  /\ main = "produce" /\ sent = 0 /\ produced = 0 /\ producing = TRUE
  /\ inQ = <<>> /\ abQ = <<>> /\ bcQ = <<>>
  /\ task = [w \in Workers |-> Waiting]
  /\ cancelling = {} /\ stopEvent = FALSE
  /\ result = [i \in Items |-> "none"]
  /\ inProgress = {} /\ completed = {}

Room(q) == Len(q) < QueueSize

-----------------------------------------------------------------------------
(* The producer: every row, then one sentinel for each stage-A worker.       *)

(* A plausible slip: one sentinel for the whole stage. *)
OneSentinel == N + 1

Puts == N + Cardinality(AWorkers)

Produce ==
  /\ producing /\ Room(inQ) /\ produced < Puts
  /\ inQ' = Append(inQ, IF produced < N THEN produced + 1 ELSE None)
  /\ produced' = produced + 1
  /\ producing' = (produced' < Puts)
  /\ UNCHANGED <<swallows, main, sent, abQ, bcQ, task, cancelling, stopEvent,
                 result, keyVars>>

-----------------------------------------------------------------------------
(* What the three kinds of workers share.                                    *)

Free(w) == task[w].at = "get" /\ w \notin cancelling

Start(w, i) == task' = [task EXCEPT ![w] = [at |-> "admit", item |-> i, tries |-> 0]]
Back(w) == task' = [task EXCEPT ![w] = Waiting]
Goto(w, at) == task' = [task EXCEPT ![w].at = at]
Record(i, status) == result' = [result EXCEPT ![i] = status]

(* A sentinel ends the worker that takes it. *)
TakeSentinel(w, q) ==
  /\ Free(w) /\ q # <<>> /\ Head(q) = None
  /\ task' = [task EXCEPT ![w] = Ended]
  /\ UNCHANGED <<swallows, mainVars, cancelling, result, keyVars>>

InFlight(W) == Cardinality({w \in W : task[w].at = "call"})

(* A plausible slip: ownership is released only by a success. *)
ReleaseOnSuccess(i, mark) ==
  IF mark
    THEN /\ inProgress' = inProgress \ {KeyOf[i]}
         /\ completed' = completed \cup {KeyOf[i]}
    ELSE UNCHANGED keyVars

ReleaseKey(i, mark) ==
  /\ inProgress' = inProgress \ {KeyOf[i]}
  /\ completed' = IF mark THEN completed \cup {KeyOf[i]} ELSE completed

(* A worker records the terminal status of its item and goes back to get().  *)
Finish(w, status) ==
  /\ Record(task[w].item, status)
  /\ ReleaseKey(task[w].item, status = "success")
  /\ Back(w)

(* asyncio.wait_for of Python 3.11 returns the result of a call that is over *)
(* when the cancellation arrives, and the cancellation is lost.              *)
Returns(w, outcome) ==
  /\ task[w].at = "call"
  /\ w \in cancelling => swallows
  /\ cancelling' = cancelling \ {w}
Outcomes == {"ok", "retry", "fail"}

(* The next attempt starts after the backoff sleep, the rate limiter and the *)
(* semaphore; each attempt looks at stop_event first.                        *)
Admit(w, W, limit) ==
  /\ task[w].at = "admit" /\ w \notin cancelling
  /\ \/ /\ ~stopEvent /\ InFlight(W) < limit
        /\ Goto(w, "call")
        /\ UNCHANGED <<result, keyVars>>
     \/ /\ stopEvent
        /\ Finish(w, "cancelled")
  /\ UNCHANGED <<swallows, mainVars, inQ, abQ, bcQ, cancelling>>

AttemptFails(w, outcome, retries) ==
  \/ /\ outcome = "retry" /\ task[w].tries < retries
     /\ task' = [task EXCEPT ![w].at = "admit", ![w].tries = @ + 1]
     /\ UNCHANGED <<result, keyVars>>
  \/ /\ outcome = "fail" \/ (outcome = "retry" /\ task[w].tries = retries)
     /\ Finish(w, "failed")

-----------------------------------------------------------------------------
(* Stage A                                                                   *)

(* A plausible slip: keys in progress are not looked at. *)
SuppressedIfCompleted(i) == KeyOf[i] \in completed

Suppressed(i) == KeyOf[i] \in completed \cup inProgress

(* Taking a row, the stop_event check and the dedupe decision are one step.  *)
TakeRow(w) ==
  LET i == Head(inQ)
  IN /\ Free(w) /\ inQ # <<>> /\ i # None
     /\ inQ' = Tail(inQ)
     /\ \/ /\ stopEvent
           /\ Record(i, "cancelled")
           /\ UNCHANGED <<task, keyVars>>
        \/ /\ ~stopEvent /\ Suppressed(i)
           /\ Record(i, "deduped")
           /\ UNCHANGED <<task, keyVars>>
        \/ /\ ~stopEvent /\ ~Suppressed(i)
           /\ inProgress' = inProgress \cup {KeyOf[i]}
           /\ Start(w, i)
           /\ UNCHANGED <<result, completed>>
     /\ UNCHANGED <<swallows, mainVars, abQ, bcQ, cancelling>>

EndA(w) == TakeSentinel(w, inQ) /\ inQ' = Tail(inQ) /\ UNCHANGED <<abQ, bcQ>>

FetchReturns(w, outcome) ==
  /\ Returns(w, outcome)
  /\ \/ outcome = "ok" /\ Goto(w, "put") /\ UNCHANGED <<result, keyVars>>
     \/ AttemptFails(w, outcome, FetchRetries)
  /\ UNCHANGED <<swallows, mainVars, inQ, abQ, bcQ>>

ForwardA(w) ==
  /\ task[w].at = "put" /\ w \notin cancelling /\ Room(abQ)
  /\ abQ' = Append(abQ, task[w].item)
  /\ Back(w)
  /\ UNCHANGED <<swallows, mainVars, inQ, bcQ, cancelling, result, keyVars>>

(* A cancelled fetch or hand-over still leaves a record and frees the key.   *)
CancelledA(w) ==
  /\ w \in cancelling
  /\ cancelling' = cancelling \ {w}
  /\ task' = [task EXCEPT ![w] = Ended]
  /\ IF task[w].item = None
       THEN UNCHANGED <<result, keyVars>>
       ELSE Record(task[w].item, "cancelled") /\ ReleaseKey(task[w].item, FALSE)
  /\ UNCHANGED <<swallows, mainVars, inQ, abQ, bcQ>>

StepA(w) ==
  \/ TakeRow(w) \/ EndA(w) \/ Admit(w, AWorkers, FetchInflight)
  \/ \E o \in Outcomes : FetchReturns(w, o)
  \/ ForwardA(w) \/ CancelledA(w)

-----------------------------------------------------------------------------
(* Stage B                                                                   *)

TakeFetched(w) ==
  LET i == Head(abQ)
  IN /\ Free(w) /\ abQ # <<>> /\ i # None
     /\ abQ' = Tail(abQ)
     /\ \/ /\ ~stopEvent
           /\ task' = [task EXCEPT ![w] = [at |-> "call", item |-> i, tries |-> 0]]
           /\ UNCHANGED <<result, keyVars>>
        \/ /\ stopEvent
           /\ Record(i, "cancelled") /\ ReleaseKey(i, FALSE)
           /\ UNCHANGED task
     /\ UNCHANGED <<swallows, mainVars, inQ, bcQ, cancelling>>

EndB(w) == TakeSentinel(w, abQ) /\ abQ' = Tail(abQ) /\ UNCHANGED <<inQ, bcQ>>

(* A plausible slip: a failed transform frees the key but leaves no record.  *)
TransformLosesFailure(w, outcome) ==
  /\ Returns(w, outcome)
  /\ \/ outcome = "ok" /\ Goto(w, "put") /\ UNCHANGED <<result, keyVars>>
     \/ /\ outcome = "fail"
        /\ ReleaseKey(task[w].item, FALSE) /\ Back(w)
        /\ UNCHANGED result
  /\ UNCHANGED <<swallows, mainVars, inQ, abQ, bcQ>>

(* A timeout or an exception of the process pool ends the item: stage B has  *)
(* no retries.                                                               *)
TransformReturns(w, outcome) ==
  /\ Returns(w, outcome)
  /\ \/ outcome = "ok" /\ Goto(w, "put") /\ UNCHANGED <<result, keyVars>>
     \/ outcome = "fail" /\ Finish(w, "failed")
  /\ UNCHANGED <<swallows, mainVars, inQ, abQ, bcQ>>

ForwardB(w) ==
  /\ task[w].at = "put" /\ w \notin cancelling /\ Room(bcQ)
  /\ bcQ' = Append(bcQ, task[w].item)
  /\ Back(w)
  /\ UNCHANGED <<swallows, mainVars, inQ, abQ, cancelling, result, keyVars>>

(* Stages B and C have no handler for CancelledError: the item of a          *)
(* cancelled worker keeps its key and has no record.                         *)
Dropped(w) ==
  /\ w \in cancelling
  /\ cancelling' = cancelling \ {w}
  /\ task' = [task EXCEPT ![w] = Ended]
  /\ UNCHANGED <<swallows, mainVars, inQ, abQ, bcQ, result, keyVars>>

StepB(w) ==
  \/ TakeFetched(w) \/ EndB(w)
  \/ \E o \in Outcomes : TransformReturns(w, o)
  \/ ForwardB(w) \/ Dropped(w)

-----------------------------------------------------------------------------
(* Stage C                                                                   *)

TakeParsed(w) ==
  /\ Free(w) /\ bcQ # <<>> /\ Head(bcQ) # None
  /\ bcQ' = Tail(bcQ)
  /\ Start(w, Head(bcQ))
  /\ UNCHANGED <<swallows, mainVars, inQ, abQ, cancelling, result, keyVars>>

EndC(w) == TakeSentinel(w, bcQ) /\ bcQ' = Tail(bcQ) /\ UNCHANGED <<inQ, abQ>>

WriteReturns(w, outcome) ==
  /\ Returns(w, outcome)
  /\ \/ outcome = "ok" /\ Finish(w, "success")
     \/ AttemptFails(w, outcome, WriteRetries)
  /\ UNCHANGED <<swallows, mainVars, inQ, abQ, bcQ>>

StepC(w) ==
  \/ TakeParsed(w) \/ EndC(w) \/ Admit(w, CWorkers, WriteInflight)
  \/ \E o \in Outcomes : WriteReturns(w, o)
  \/ Dropped(w)

-----------------------------------------------------------------------------
(* run_pipeline                                                              *)

Gone(W) == \A w \in W : task[w].at = "ended"
Move(at) == main' = at /\ sent' = 0

(* await producer_task *)
ProducerDone ==
  /\ main = "produce" /\ ~producing
  /\ Move("joinA")
  /\ UNCHANGED <<swallows, produced, producing, inQ, abQ, bcQ, task, cancelling,
                 stopEvent, result, keyVars>>

(* queue.join() and gather() of the stage that reads the queue.              *)
Join(from, q, W, to) ==
  /\ main = from /\ q = <<>> /\ Gone(W)
  /\ Move(to)
  /\ UNCHANGED <<swallows, produced, producing, inQ, abQ, bcQ, task, cancelling,
                 stopEvent, result, keyVars>>

(* One sentinel for each worker of the next stage, put into a bounded queue. *)
PutSentinels(from, q, W, to) ==
  /\ main = from /\ Room(q)
  /\ IF sent + 1 = Cardinality(W) THEN Move(to) ELSE sent' = sent + 1 /\ UNCHANGED main
  /\ UNCHANGED <<swallows, produced, producing, task, cancelling, stopEvent,
                 result, keyVars>>

EndStageB ==
  /\ PutSentinels("endB", abQ, BWorkers, "joinB")
  /\ abQ' = Append(abQ, None) /\ UNCHANGED <<inQ, bcQ>>

EndStageC ==
  /\ PutSentinels("endC", bcQ, CWorkers, "joinC")
  /\ bcQ' = Append(bcQ, None) /\ UNCHANGED <<inQ, abQ>>

(* Drain, reconciliation and the final clear() run without a suspension:     *)
(* items without a record become "cancelled", queues and ownership are       *)
(* emptied.                                                                  *)
Reconcile ==
  /\ main' = "done"
  /\ result' = [i \in Items |-> IF result[i] = "none" THEN "cancelled" ELSE result[i]]
  /\ inQ' = <<>> /\ abQ' = <<>> /\ bcQ' = <<>>
  /\ inProgress' = {}
  /\ UNCHANGED <<swallows, sent, produced, producing, task, cancelling, stopEvent,
                 completed>>

NormalEnd == main = "joinC" /\ bcQ = <<>> /\ Gone(CWorkers) /\ Reconcile

(* wait_for(_normal_shutdown()) times out: _normal_shutdown is cancelled, and *)
(* with it the task it awaits.  The workers run on until StopAll.            *)
Expire ==
  /\ Deadline /\ main \notin {"expired", "stopping", "done"}
  /\ Move("expired")
  /\ producing' = FALSE
  /\ UNCHANGED <<swallows, produced, inQ, abQ, bcQ, task, cancelling, stopEvent,
                 result, keyVars>>

(* stop_event.set() and task.cancel() for every task, in one step. *)
StopAll ==
  /\ main = "expired"
  /\ main' = "stopping" /\ stopEvent' = TRUE /\ producing' = FALSE
  /\ cancelling' = {w \in Workers : task[w].at # "ended"}
  /\ UNCHANGED <<swallows, sent, produced, inQ, abQ, bcQ, task, result, keyVars>>

(* A plausible slip: the leftovers are reconciled without the gather. *)
StoppedEarly == main = "stopping" /\ Reconcile

(* gather() of every worker, then the drain. *)
StoppedEnd == main = "stopping" /\ Gone(Workers) /\ Reconcile

MainStep ==
  \/ ProducerDone
  \/ Join("joinA", inQ, AWorkers, "endB") \/ EndStageB
  \/ Join("joinB", abQ, BWorkers, "endC") \/ EndStageC
  \/ NormalEnd \/ StopAll \/ StoppedEnd

PipeNext ==
  \/ Produce \/ MainStep \/ Expire
  \/ \E w \in AWorkers : StepA(w)
  \/ \E w \in BWorkers : StepB(w)
  \/ \E w \in CWorkers : StepC(w)

PipeSpec == PipeInit /\ [][PipeNext]_pipeVars

(* The loop runs every task that is ready; wait_for bounds every call, so a  *)
(* call that started returns.  Nothing obliges the deadline to pass first.   *)
FairPipeSpec ==
  /\ PipeSpec
  /\ WF_pipeVars(Produce) /\ WF_pipeVars(MainStep)
  /\ \A w \in AWorkers : WF_pipeVars(StepA(w))
  /\ \A w \in BWorkers : WF_pipeVars(StepB(w))
  /\ \A w \in CWorkers : WF_pipeVars(StepC(w))

-----------------------------------------------------------------------------
Elements(q) == {q[n] : n \in DOMAIN q} \ {None}
Held(W) == {task[w].item : w \in W} \ {None}

(* Items that own their key: with a worker or in one of the later queues.    *)
Owners == Held(Workers) \cup Elements(abQ) \cup Elements(bcQ)

Promise == INSTANCE DedupePromise WITH owner <- Owners

(* The pipeline implements the contract of DedupePromise: one terminal       *)
(* status per item, one owner per key, and a row is "deduped" only beside an *)
(* owner in flight or an applied effect.                                     *)
PromiseKept == Promise!PromiseSpec

(* No two rows with one idempotency key are both written: the key sets of    *)
(* SharedState have to cover an item over three stages, two hand-overs and   *)
(* all its retries.                                                          *)
KeyAppliedOnce == Promise!KeyAppliedOnce

(* Until the deadline, a key is in progress exactly while one item with it   *)
(* is in flight.  A key that stays behind would turn every later duplicate   *)
(* of a failed item into "deduped".                                          *)
KeyHeldWhileInFlight ==
  ~stopEvent /\ main # "done" => inProgress = {KeyOf[i] : i \in Owners}

(* Reconciliation has nothing to do on the normal path: the order of joins   *)
(* and sentinels lets every item reach a stage that records it.              *)
NormalEndRecordsAll ==
  main = "joinC" /\ bcQ = <<>> /\ Gone(CWorkers) => \A i \in Items : result[i] # "none"

(* run_pipeline returns under every schedule and every outcome of the calls, *)
(* deadline or not, on a Python whose wait_for passes a cancellation on.     *)
RunReturns == ~swallows ~> main = "done"

(* FOLLOWUP_QUESTION_BANK.md:74: "global timeout bounds whole batch          *)
(* lifetime".  A cancellation that wait_for swallows leaves a worker in      *)
(* get() for ever, and gather() with it.                                     *)
DeadlineBoundsRun == main = "expired" ~> main = "done"

(* SCENARIO_QA.md:150: "`deduped` means side effect was already applied for  *)
(* that key".  A duplicate suppressed beside an owner that fails later is    *)
(* not.                                                                      *)
DedupedMeansApplied ==
  main = "done" =>
    \A i \in Items : result[i] = "deduped" =>
      \E j \in Items : KeyOf[j] = KeyOf[i] /\ result[j] = "success"
=============================================================================
