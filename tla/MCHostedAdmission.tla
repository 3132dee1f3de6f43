------------------------- MODULE MCHostedAdmission --------------------------
(* The background validation and two reviewers, one with a resume.         *)
EXTENDS HostedAdmission

MCUnits == {"numa03", "r1", "r2"}
MCResumes == [r1 |-> 1, r2 |-> 0]
=============================================================================
