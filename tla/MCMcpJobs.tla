----------------------------- MODULE MCMcpJobs ------------------------------
(* One server with two jobs and a client that queues and polls.  All jobs    *)
(* have one label, so two that are queued in the first second build FirstId. *)
(* It is also the id of another program's run, which clients may pass.       *)
EXTENDS McpJobs, TLC

CONSTANT s1

OneLabel == [j \in Jobs |-> NoRef]
FirstId == {[label |-> NoRef, at |-> 1, n |-> 1]}
OneServer == [t \in Threads |-> s1]

Symmetry == Permutations(Jobs) \cup Permutations(Refs) \cup Permutations(Workers)
=============================================================================
