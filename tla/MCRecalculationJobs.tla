------------------------- MODULE MCRecalculationJobs -------------------------
(* Values of the constants of RecalculationJobs that a cfg cannot write.    *)
EXTENDS RecalculationJobs

(* The second day of the first child cannot be recalculated. *)
PoisonedDay == {<< <<1, 1>>, 2 >>}
==============================================================================
