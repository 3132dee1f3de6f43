--------------------------- MODULE MCTemplateFork ---------------------------
(* Small instances of TemplateFork. *)
EXTENDS TemplateFork, TLC

CONSTANTS i, p1, p2, p3, p4, s1, s2, s3

MCProcs5 == {i, p1, p2, p3, p4}
MCSnapshots3 == {s1, s2, s3}

\* Process ids other than PID 1 are interchangeable, and so are checkpoints.
MCSymmetry5 == Permutations({p1, p2, p3, p4}) \union Permutations({s1, s2, s3})

\* Processes that stop in time, one stash answered after its timeout; and slow
\* ones, with up to two stashes and reaps answered after theirs.
MCModes == {[versions |-> 3, lates |-> 1, late |-> {"stash"}, prompt |-> TRUE],
            [versions |-> 2, lates |-> 2, late |-> {"stash", "reap"}, prompt |-> FALSE]}
=============================================================================
