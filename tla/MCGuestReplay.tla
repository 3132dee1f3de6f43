---------------------------- MODULE MCGuestReplay ----------------------------
EXTENDS GuestReplay, TLC

CONSTANTS a, b

MCPaths == {a, b}

Op(e, edit, shell, test) == [ev |-> e, edit |-> edit, shell |-> shell, test |-> test]
Ckpt(op, lw) == [kind |-> "ckpt", op |-> op, lw |-> lw, target |-> 0]
Back(e) == [kind |-> "restore", op |-> Op(0, {}, {}, FALSE), lw |-> FALSE, target |-> e]

\* Two branches from the root, then back into the first one.
Branches == <<Ckpt(Op(1, {}, {}, FALSE), FALSE), Ckpt(Op(2, {a}, {}, FALSE), FALSE), Back(1),
              Ckpt(Op(4, {a}, {b}, TRUE), FALSE), Back(2), Ckpt(Op(6, {b}, {}, FALSE), FALSE)>>
\* A chain of lightweight nodes, left and entered again.
Lightweight == <<Ckpt(Op(1, {a}, {}, FALSE), FALSE), Ckpt(Op(2, {}, {b}, FALSE), TRUE),
                 Ckpt(Op(3, {}, {a}, FALSE), TRUE), Back(1), Ckpt(Op(5, {b}, {}, FALSE), FALSE), Back(3)>>

\* The first node may be captured with calls outstanding and is entered again.
Again == <<Ckpt(Op(1, {a}, {}, FALSE), FALSE), Ckpt(Op(2, {b}, {}, FALSE), FALSE), Back(1)>>

MCAbandoning == {Again}
MCSchedules == {Branches, Lightweight}
Options0 == [sidecar |-> FALSE, probe |-> TRUE, active |-> FALSE, reopen |-> TRUE,
             warm |-> TRUE, gc |-> TRUE, fixed |-> TRUE, exact |-> FALSE,
             carry_on |-> FALSE, faults |-> 1]
MCOptions ==
    {Options0,
     [Options0 EXCEPT !.sidecar = TRUE, !.probe = FALSE, !.active = TRUE, !.warm = FALSE, !.gc = FALSE,
                     !.fixed = FALSE],
     [Options0 EXCEPT !.sidecar = TRUE, !.reopen = FALSE, !.exact = TRUE],
     [Options0 EXCEPT !.carry_on = TRUE, !.warm = FALSE, !.faults = 3]}
=============================================================================
