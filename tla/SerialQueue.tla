---------------------------- MODULE SerialQueue -----------------------------
(* What the queue runner promises its requests, whatever the servers and     *)
(* the lock file do: a request is admitted alone, it launches its payload    *)
(* only while it is admitted and no payload of any request is alive, and     *)
(* once it is answered it launches nothing more.  A request whose server is  *)
(* killed launches nothing more either, but its payload may outlive it.      *)
EXTENDS FiniteSets

CONSTANT Threads        \* requests

VARIABLES
  phase,                \* waiting, admitted, answered or dead
  alive                 \* the requests whose payload process exists

serialVars == <<phase, alive>>

SerialTypeOK ==
  /\ phase \in [Threads -> {"waiting", "admitted", "answered", "dead"}]
  /\ alive \subseteq Threads

SerialInit ==
  /\ phase = [t \in Threads |-> "waiting"]
  /\ alive = {}

Admit(t) ==
  /\ phase[t] = "waiting"
  /\ \A u \in Threads : phase[u] # "admitted"
  /\ phase' = [phase EXCEPT ![t] = "admitted"]
  /\ UNCHANGED alive

Launch(t) ==
  /\ phase[t] = "admitted"
  /\ alive = {}
  /\ alive' = {t}
  /\ UNCHANGED phase

Stop(t) ==
  /\ t \in alive
  /\ alive' = alive \ {t}
  /\ UNCHANGED phase

Answer(t) ==
  /\ phase[t] \in {"waiting", "admitted"}
  /\ t \notin alive
  /\ phase' = [phase EXCEPT ![t] = "answered"]
  /\ UNCHANGED alive

Kill(S) ==
  /\ phase' = [t \in Threads |-> IF t \in S THEN "dead" ELSE phase[t]]
  /\ UNCHANGED alive

SerialNext ==
  \/ \E t \in Threads : Admit(t) \/ Launch(t) \/ Stop(t) \/ Answer(t)
  \/ \E S \in SUBSET Threads : Kill(S)

SerialSpec == SerialInit /\ [][SerialNext]_serialVars
=============================================================================
