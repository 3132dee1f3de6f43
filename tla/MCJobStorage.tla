---------------------------- MODULE MCJobStorage -----------------------------
EXTENDS JobStorage

CONSTANTS k1, k2

MCKids == {k1, k2}

\* Two operations on the Cube services; the Cube services beside one job; each
\* kind of job with adopted processes.
MCBounds ==
    {[operations |-> 2, faults |-> 3, job |-> "none", kids |-> 0],
     [operations |-> 1, faults |-> 1, job |-> "nvme", kids |-> 0],
     [operations |-> 0, faults |-> 2, job |-> "nvme", kids |-> 2],
     [operations |-> 0, faults |-> 2, job |-> "memory", kids |-> 2]}
=============================================================================
