--------------------------- MODULE RequestPromise ---------------------------
(* What the client and its servers promise together, without ids, pipes,     *)
(* response queues, sessions or their threads: a request is executed at most *)
(* once, and a caller is told once, of its own request, either the answer,   *)
(* which is there only after the request was executed, or an error.          *)
EXTENDS Naturals

CONSTANTS Threads, MaxCalls

VARIABLES
  asked,                \* how many requests were made; they are numbered
  waiting,              \* the request of each thread; 0: none
  told,                 \* what a thread was told of it
  runs                  \* how often a server took up each request

promiseVars == <<asked, waiting, told, runs>>

PromiseInit ==
  /\ asked = 0 /\ runs = [n \in 1..MaxCalls |-> 0]
  /\ waiting = [t \in Threads |-> 0]
  /\ told = [t \in Threads |-> "nothing"]

Ask(t) ==
  /\ waiting[t] = 0 /\ asked < MaxCalls
  /\ asked' = asked + 1
  /\ waiting' = [waiting EXCEPT ![t] = asked + 1]
  /\ UNCHANGED <<told, runs>>

(* Also a request whose caller no longer waits. *)
Execute(n) ==
  /\ n <= asked /\ runs[n] = 0
  /\ runs' = [runs EXCEPT ![n] = 1]
  /\ UNCHANGED <<asked, waiting, told>>

Answer(t) ==
  /\ waiting[t] # 0 /\ runs[waiting[t]] = 1 /\ told[t] = "nothing"
  /\ told' = [told EXCEPT ![t] = "answer"]
  /\ UNCHANGED <<asked, waiting, runs>>

Fail(T) ==
  /\ \A t \in T : waiting[t] # 0 /\ told[t] = "nothing"
  /\ told' = [t \in Threads |-> IF t \in T THEN "error" ELSE told[t]]
  /\ UNCHANGED <<asked, waiting, runs>>

(* With what it was told, or with a timeout or a broken pipe of its own.     *)
Leave(t) ==
  /\ waiting[t] # 0
  /\ waiting' = [waiting EXCEPT ![t] = 0]
  /\ told' = [told EXCEPT ![t] = "nothing"]
  /\ UNCHANGED <<asked, runs>>

PromiseNext ==
  \/ \E t \in Threads : Ask(t) \/ Answer(t) \/ Leave(t)
  \/ \E T \in SUBSET Threads : Fail(T)
  \/ \E n \in 1..MaxCalls : Execute(n)

PromiseSpec == PromiseInit /\ [][PromiseNext]_promiseVars
=============================================================================
