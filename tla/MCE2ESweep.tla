----------------------------- MODULE MCE2ESweep -----------------------------
(* A full sweep and a stage after it.  On the large host both buckets have   *)
(* work, the first two units so that an attempt can die between them; one    *)
(* host has a single GPU, and one sweep has nothing for two GPUs.            *)
EXTENDS E2ESweep

Planned(single, multi, twoGpus) ==
  [units |-> [b \in {"single_gpu", "multi_gpu"} |->
                IF b = "single_gpu" THEN single ELSE multi],
   twoGpus |-> twoGpus]

MCPlans == {Planned(<<"ch01", "ch02">>, <<"ch04">>, TRUE),
            Planned(<<"ch01">>, <<"ch04">>, FALSE),
            Planned(<<"ch01">>, <<>>, TRUE)}
=============================================================================
