---------------------------- MODULE MCEvalSuite ----------------------------
(* A fresh suite with --health-suite, and one with --resume and without it   *)
(* that comes after it, before it or while it runs.  A plan has a required   *)
(* step, one that is not, and perhaps the health suite; a partial step is    *)
(* tried twice.                                                              *)
EXTENDS EvalSuite

CONSTANTS s1, s2

MCSuites == {s1, s2}
MCResumes == {s2}
MCDiagnosed == {s1}
============================================================================
