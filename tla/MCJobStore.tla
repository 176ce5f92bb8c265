----------------------------- MODULE MCJobStore -----------------------------
(* Two callers race with two job ids for a store with room for one record,   *)
(* served by one pool thread.  The second record may take an id that was     *)
(* evicted; the store is full as long as its one job is not finished, and    *)
(* a cleanup may act on a clock reading that is one tick old.                *)
EXTENDS JobStore
=============================================================================
