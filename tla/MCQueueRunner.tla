--------------------------- MODULE MCQueueRunner ----------------------------
(* Two servers with three requests between them, one e2e sweep and one       *)
(* foreign benchmark: both locks are contended, and each cause of overlap    *)
(* and of a refusal is present once.                                         *)
EXTENDS QueueRunner

CONSTANTS t1, t2, t3, s1, s2

MCServerOf == [t \in Threads |-> IF t = t3 THEN s2 ELSE s1]
=============================================================================
