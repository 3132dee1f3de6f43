-------------------------- MODULE MCDecoupledSearch --------------------------
EXTENDS DecoupledSearch

MCActions == {"edit", "read", "finish"}
=============================================================================
