----------------------------- MODULE MCCpuQueue -----------------------------
(* Two lanes and two groups that share the service (Cube and E2B), over    *)
(* three attempts, or that run beside each other, over two.                *)
EXTENDS CpuQueue

MCNodes == {1, 2}
MCExperiments == <<"cube", "second">>
MCCampaigns ==
    {[service |-> {"cube", "second"}, jobs |-> [cube |-> 2, second |-> 1], attempts |-> 3],
     [service |-> {"cube"}, jobs |-> [cube |-> 1, second |-> 1], attempts |-> 2]}
MCCube == {"cube"}
=============================================================================
