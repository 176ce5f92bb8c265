----------------------------- MODULE JobPromise -----------------------------
(* What the job registry promises those who queue and poll, without locks,   *)
(* clock readings, a cleanup or a thread pool: a job is accepted under an id *)
(* that no known job has and while there is room; it is started once and     *)
(* ends once; and it is known until it ended and its retention is over.      *)
EXTENDS Naturals, FiniteSets

CONSTANTS
  Refs,                 \* accepted jobs, past and future
  Jobs,                 \* job ids
  MaxEntries,           \* room for known jobs
  TTL,                  \* retention
  NoName                \* the id of a job that is not yet accepted

VARIABLES
  phase,                \* unborn, accepted, started, ended or forgotten
  name,                 \* the id of a job
  ended,                \* when it ended
  now

promiseVars == <<phase, name, ended, now>>

PromiseInit ==
  /\ phase = [r \in Refs |-> "unborn"]
  /\ name = [r \in Refs |-> NoName]
  /\ ended = [r \in Refs |-> 0]
  /\ now \in Nat

(* What a poll can find, and the ids in use. *)
Known == {r \in Refs : phase[r] \in {"accepted", "started", "ended"}}
Names == {name[r] : r \in Known}

Accept(r, j) ==
  /\ phase[r] = "unborn"
  /\ j \notin Names /\ Cardinality(Names) < MaxEntries
  /\ phase' = [phase EXCEPT ![r] = "accepted"]
  /\ name' = [name EXCEPT ![r] = j]
  /\ UNCHANGED <<ended, now>>

Start(r) ==
  /\ phase[r] = "accepted"
  /\ phase' = [phase EXCEPT ![r] = "started"]
  /\ UNCHANGED <<name, ended, now>>

End(r, at) ==
  /\ phase[r] = "started"
  /\ phase' = [phase EXCEPT ![r] = "ended"]
  /\ ended' = [ended EXCEPT ![r] = at]
  /\ UNCHANGED <<name, now>>

Forget(S) ==
  /\ \A r \in S : phase[r] = "ended" /\ now > ended[r] + TTL
  /\ phase' = [r \in Refs |-> IF r \in S THEN "forgotten" ELSE phase[r]]
  /\ UNCHANGED <<name, ended, now>>

Pass ==
  /\ now' = now + 1
  /\ UNCHANGED <<phase, name, ended>>

PromiseNext ==
  \/ \E r \in Refs :
       \/ \E j \in Jobs : Accept(r, j)
       \/ Start(r)
       \/ \E at \in 0..now : End(r, at)
  \/ \E S \in SUBSET Refs : Forget(S)
  \/ Pass

PromiseSpec == PromiseInit /\ [][PromiseNext]_promiseVars
=============================================================================
