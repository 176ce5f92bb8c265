---------------------------- MODULE DedupePromise ----------------------------
(* What the idempotent runners of labs/python_concurrency promise about each *)
(* item: it gets one terminal status, the side effect of a key is applied at *)
(* most once, and a duplicate is suppressed only beside an owner in flight   *)
(* or an effect already applied.  How items travel between stages, retries   *)
(* and deadlines are left to the modules that implement it.                  *)
EXTENDS Naturals

CONSTANTS
  Items,          \* the input rows
  KeyOf           \* the idempotency key of a row

VARIABLES
  result,         \* the terminal status of an item, "none" before it has one
  owner           \* the items that own their key: claimed and still in flight

promiseVars == <<result, owner>>

Twins(i) == {j \in Items \ {i} : KeyOf[j] = KeyOf[i]}

PromiseInit ==
  /\ result = [i \in Items |-> "none"]
  /\ owner = {}

Claim(i) ==
  /\ result[i] = "none" /\ i \notin owner
  /\ \A j \in Twins(i) : j \notin owner /\ result[j] # "success"
  /\ owner' = owner \cup {i}
  /\ UNCHANGED result

Suppress(i) ==
  /\ result[i] = "none" /\ i \notin owner
  /\ \E j \in Twins(i) : j \in owner \/ result[j] = "success"
  /\ result' = [result EXCEPT ![i] = "deduped"]
  /\ UNCHANGED owner

(* An owner ends with its side effect applied or without it. *)
EndOwner(i, status) ==
  /\ i \in owner /\ result[i] = "none"
  /\ result' = [result EXCEPT ![i] = status]
  /\ owner' = owner \ {i}

Abandon(i) == owner' = owner \ {i} /\ UNCHANGED result

(* Items nobody will run any more are recorded as cancelled. *)
CancelRest(S) ==
  /\ \A i \in S : result[i] = "none"
  /\ result' = [i \in Items |-> IF i \in S THEN "cancelled" ELSE result[i]]
  /\ owner' = owner \ S

PromiseNext ==
  \/ \E i \in Items :
       \/ Claim(i) \/ Suppress(i) \/ Abandon(i)
       \/ \E status \in {"success", "failed", "cancelled"} : EndOwner(i, status)
  \/ \E S \in SUBSET Items : CancelRest(S)

PromiseSpec == PromiseInit /\ [][PromiseNext]_promiseVars

(* The idempotency contract: no two items with one key are both applied.     *)
KeyAppliedOnce ==
  \A i, j \in Items :
    KeyOf[i] = KeyOf[j] /\ result[i] = "success" /\ result[j] = "success" => i = j
=============================================================================
