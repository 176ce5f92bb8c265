------------------------ MODULE DedupePromiseProofs ------------------------
(* The contract of the idempotent runners, for any rows and keys.            *)
EXTENDS DedupePromise, TLAPS

Statuses == {"none", "success", "deduped", "failed", "cancelled"}

(* An owner has no status yet, shares its key with no other owner and with   *)
(* no applied row.                                                           *)
OwnersInv ==
  /\ result \in [Items -> Statuses] /\ owner \in SUBSET Items
  /\ \A i \in owner : result[i] = "none"
  /\ \A i, j \in owner : KeyOf[i] = KeyOf[j] => i = j
  /\ \A i \in owner, j \in Items : result[j] = "success" => KeyOf[i] # KeyOf[j]

PromiseInv == OwnersInv /\ KeyAppliedOnce

USE DEF promiseVars, Statuses

(* Every step of the contract keeps ownership exclusive, so the next applied *)
(* row of a key is the only one.                                             *)
LEMMA PromiseStep == PromiseInv /\ [PromiseNext]_promiseVars => PromiseInv'
<1> SUFFICES ASSUME PromiseInv, [PromiseNext]_promiseVars PROVE PromiseInv'
  OBVIOUS
<1> USE DEF PromiseInv, OwnersInv, KeyAppliedOnce
<1>1. ASSUME NEW i \in Items, Claim(i) PROVE PromiseInv'
  BY <1>1 DEF Claim, Twins
<1>2. ASSUME NEW i \in Items, Suppress(i) PROVE PromiseInv'
  BY <1>2 DEF Suppress, Twins
<1>3. ASSUME NEW i \in Items, Abandon(i) PROVE PromiseInv'
  BY <1>3 DEF Abandon
<1>4. ASSUME NEW i \in Items, NEW s \in {"success", "failed", "cancelled"}, EndOwner(i, s)
      PROVE  PromiseInv'
  BY <1>4 DEF EndOwner
<1>5. ASSUME NEW S \in SUBSET Items, CancelRest(S) PROVE PromiseInv'
  BY <1>5 DEF CancelRest
<1>6. CASE UNCHANGED promiseVars
  BY <1>6
<1> QED BY <1>1, <1>2, <1>3, <1>4, <1>5, <1>6 DEF PromiseNext

(* The contract applies no key twice. *)
THEOREM PromiseAppliesOnce == PromiseSpec => []KeyAppliedOnce
<1>1. PromiseInit => PromiseInv
  BY DEF PromiseInit, PromiseInv, OwnersInv, KeyAppliedOnce
<1>2. PromiseInv => KeyAppliedOnce
  BY DEF PromiseInv
<1> QED BY <1>1, <1>2, PromiseStep, PTL DEF PromiseSpec
=============================================================================
