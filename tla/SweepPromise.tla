---------------------------- MODULE SweepPromise ----------------------------
(* What an end-to-end sweep promises of its full sweep, however often it is  *)
(* killed, aborted and carried on: a chapter or lab of a bucket is run to its *)
(* end by one attempt only, in the order of the plan, never on a host that   *)
(* is too small for it and never while a verdict stands; and a verdict is    *)
(* earned by all the attempts together.                                      *)
EXTENDS Naturals, Sequences

CONSTANTS
  Plans,                \* [units : per lane, its units in order, twoGpus]
  Lanes                 \* the buckets

VARIABLES
  plan,
  runs,                 \* per lane, its ended units: <<attempt, unit>>
  verdict               \* of a completed run on its full sweep, or "none"

promiseVars == <<plan, runs, verdict>>

Outcomes == {"succeeded", "partial", "failed", "aborted", "skipped", "skipped_duplicate"}

PromiseInit ==
  /\ plan \in Plans
  /\ runs = [b \in Lanes |-> {}]
  /\ verdict = "none"

(* The host has too few GPUs for the lane. *)
Beyond(b) == b = "multi_gpu" /\ ~plan.twoGpus

Ended(b) == {r[2] : r \in runs[b]}

(* Which attempt it is does not matter, only that it is the first to end the *)
(* unit.                                                                     *)
RunUnit(b, i) ==
  /\ verdict = "none" /\ ~Beyond(b)
  /\ plan.units[b][i] \notin Ended(b)
  /\ \A j \in 1..(i - 1) : plan.units[b][j] \in Ended(b)
  /\ \E r \in runs'[b] :
       /\ r[2] = plan.units[b][i]
       /\ runs' = [runs EXCEPT ![b] = @ \cup {r}]
  /\ UNCHANGED <<plan, verdict>>

(* "succeeded" takes every unit of every lane, "partial" those that the host *)
(* can run.                                                                  *)
Earned(v) ==
  v \in {"succeeded", "partial"} => \A b \in Lanes :
    \/ \A i \in DOMAIN plan.units[b] : plan.units[b][i] \in Ended(b)
    \/ Beyond(b) /\ v = "partial"

Report(v) ==
  /\ verdict = "none" /\ Earned(v)
  /\ verdict' = v
  /\ UNCHANGED <<plan, runs>>

(* A verdict is withdrawn before the run is carried on. *)
Reopen ==
  /\ verdict' = "none"
  /\ UNCHANGED <<plan, runs>>

PromiseNext ==
  \/ \E b \in Lanes : \E i \in DOMAIN plan.units[b] : RunUnit(b, i)
  \/ \E v \in Outcomes : Report(v)
  \/ Reopen

PromiseSpec == PromiseInit /\ [][PromiseNext]_promiseVars
=============================================================================
