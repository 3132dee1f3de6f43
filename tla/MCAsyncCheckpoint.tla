------------------------- MODULE MCAsyncCheckpoint -------------------------
EXTENDS AsyncCheckpointInv, TLC

Symmetry == Permutations(Ids) \cup Permutations(Contents)

\* Bound of the three-checkpoint instance: one failure is on record at a time.
MaxFaults == 1
FewFaults ==
    Cardinality({i \in Ids : state[i] = "DURABLE_FAILED"})
      + Cardinality(killed) + Cardinality({i \in templates : tmpl[i] = Gone})
      + (IF failed THEN 1 ELSE 0) <= MaxFaults
=============================================================================
