----------------------------- MODULE MCAgentMCTS -----------------------------
EXTENDS AgentMCTS, TLC

CONSTANTS src, tst, c0, c1, c2, none

MCFiles == {src, tst}
MCExported == {src}
MCContents == {c0, c1, c2}
MCBase == src :> c0 @@ tst :> none
MCGood == {c2}
MCInert == {}
\* Three iterations when nothing fails, two when an operation does or a reply is
\* late.  The tests may overwrite the passing edit, unless a reply is late.
MCOptions ==
    {[max_iterations |-> 3, host_verify |-> FALSE, apply_test_patch |-> FALSE,
      test_writes |-> {<<src, c1>>}, late |-> 0, faults |-> 0],
     [max_iterations |-> 2, host_verify |-> TRUE, apply_test_patch |-> FALSE,
      test_writes |-> {<<src, c1>>}, late |-> 0, faults |-> 1],
     [max_iterations |-> 2, host_verify |-> FALSE, apply_test_patch |-> TRUE,
      test_writes |-> {}, late |-> 1, faults |-> 1]}
MCSessions == {0, 1}
\* An edit that fails the tests, and one that passes and writes a test file too.
MCEdits == {src :> c1 @@ tst :> none, src :> c2 @@ tst :> c1}
=============================================================================
