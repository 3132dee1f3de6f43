---------------------------- MODULE CubeService -----------------------------
(***************************************************************************)
(* The private RAM environment of a Cube measurement: the five nested      *)
(* contexts of managed_memory_service (cube_control_context.py) over the   *)
(* shared Cube services: the UI is quiesced, the MySQL launcher replaced,  *)
(* the control plane pinned, Cubelet moved to a RAM copy                   *)
(* (memory_service, cube_memory_context.py) and the database as well.      *)
(* Leaving undoes them inside out.  One file, RECOVERY_REQUIRED.json in    *)
(* the directory of the operation, is written while a context is being     *)
(* undone: if it is found, the context is kept as it is.                   *)
(***************************************************************************)
EXTENDS Naturals, Sequences

CONSTANT
    Bounds   \* operations, one after another; failing steps and kills; jobs and
             \* their processes (bounds, one of which a behaviour starts with)

ASSUME CubeAssumption ==
    Bounds \subseteq [operations : Nat, faults : Nat, job : {"none", "nvme", "memory"}, kids : Nat]

VARIABLES
    env,      \* services, drop-ins, masks and mounts
    guard,    \* RECOVERY_REQUIRED.json of the operation in progress
    left,     \* such a file of an earlier operation
    unsaid,   \* a context was left as it is and its file could not be written
    op,       \* pc, setup steps begun, context, step of its cleanup, errors
    held,     \* a job's mount namespace has a copy of the RAM volume
    bound,
    count,
    faults

cubeVars == <<env, guard, left, unsaid, op, held, bound, count, faults>>

Original ==
    [ui_drop |-> FALSE, ui |-> "up", my_drop |-> FALSE, my_kept |-> FALSE,
     place_drop |-> FALSE, masks |-> "original",
     ram |-> FALSE, loop |-> "none", volume |-> FALSE, drop |-> FALSE, pinned |-> FALSE, cubelet |-> "original",
     front |-> "up", mysql |-> "original", dram |-> FALSE, bound |-> FALSE]

Idle == [pc |-> "idle", n |-> 0, ctx |-> 0, i |-> 0, errors |-> FALSE]

CubeInit ==
    /\ bound \in Bounds /\ held = FALSE
    /\ env = Original /\ guard = FALSE /\ left = FALSE /\ unsaid = FALSE
    /\ op = Idle /\ count = 0 /\ faults = 0

Faulty == faults < bound.faults /\ faults' = faults + 1

-----------------------------------------------------------------------------
(* Setting up.  The steps of the contexts, outermost first.                *)

Setup == <<"ui_drop", "ui_stop",
           "my_drop",
           "place_drop", "masks",
           "ram", "cube_stop", "loop", "volume", "drop", "pin", "cube_start",
           "front_stop", "my_stop", "dram", "bind", "db_start">>

Contexts == 1..5
First == <<1, 3, 4, 6, 13>>    \* the first step of each context
ContextOf(n) == CHOOSE c \in Contexts : First[c] <= n /\ (c < 5 => n < First[c + 1])
StepOf(s) == CHOOSE n \in DOMAIN Setup : Setup[n] = s

\* Its step was begun: the flags (stopped, mounted, bound, override,
\* placement, changed) are set before the operation they stand for.
Begun(s) == StepOf(s) <= op.n

\* What each context does to the services, going in and coming out.
quiesce_webui(s, e) ==
    CASE s = "ui_drop"    -> [e EXCEPT !.ui_drop = TRUE]
      [] s = "ui_stop"    -> [e EXCEPT !.ui = "down"]
      [] s = "ui_undrop"  -> [e EXCEPT !.ui_drop = FALSE]
      [] s = "ui_start"   -> [e EXCEPT !.ui = "up"]

\* MySQL is started: from the private copy, if that is bound over its files;
\* my_kept: by the replaced launcher.
Database(e) == [e EXCEPT !.mysql = IF e.bound THEN "private" ELSE "original",
                         !.front = "up", !.my_kept = e.my_drop]

mysql_launcher(s, e) ==
    CASE s = "my_drop"    -> [e EXCEPT !.my_drop = TRUE]
      [] s = "my_undrop"  -> [e EXCEPT !.my_drop = FALSE]
      [] s = "my_restart" -> Database(e)

placement(s, e) ==
    CASE s = "place_drop" -> [e EXCEPT !.place_drop = TRUE]
      [] s = "masks"      -> [e EXCEPT !.masks = "test"]
      [] s = "unplace"    -> [e EXCEPT !.place_drop = FALSE]
      [] s = "unmask"     -> [e EXCEPT !.masks = "original"]
      [] s = "rebuild"    -> Database(e)

\* "loop" is the frozen copy and losetup.  losetup -d is lazy: the device stays
\* as long as a mount namespace has the volume.
memory_service(s, e) ==
    CASE s = "ram"        -> [e EXCEPT !.ram = TRUE]
      [] s = "cube_stop"  -> [e EXCEPT !.cubelet = "stopped"]
      [] s = "loop"       -> [e EXCEPT !.loop = "attached"]
      [] s = "volume"     -> [e EXCEPT !.volume = TRUE]
      [] s = "drop"       -> [e EXCEPT !.drop = TRUE]
      [] s = "pin"        -> [e EXCEPT !.pinned = TRUE]
      [] s = "cube_start" -> [e EXCEPT !.cubelet = "private"]
      [] s = "cube_halt"  -> [e EXCEPT !.cubelet = "stopped"]
      [] s = "undrop"     -> [e EXCEPT !.drop = FALSE]
      [] s = "unpin"      -> [e EXCEPT !.pinned = FALSE]
      [] s = "cube_back"  -> [e EXCEPT !.cubelet = "original"]
      [] s = "unvolume"   -> [e EXCEPT !.volume = FALSE]
      [] s = "unloop"     -> [e EXCEPT !.loop = IF held THEN "detaching" ELSE "none"]
      [] s = "released"   -> e
      [] s = "unram"      -> [e EXCEPT !.ram = FALSE]

ram_database(s, e) ==
    CASE s = "front_stop" -> [e EXCEPT !.front = "down"]
      [] s = "my_stop"    -> [e EXCEPT !.mysql = "stopped"]
      [] s = "dram"       -> [e EXCEPT !.dram = TRUE]
      [] s = "bind"       -> [e EXCEPT !.bound = TRUE]
      [] s = "db_start"   -> Database(e)
      [] s = "db_halt"    -> [e EXCEPT !.mysql = "stopped", !.front = "down"]
      [] s = "unbind"     -> [e EXCEPT !.bound = FALSE]
      [] s = "undram"     -> [e EXCEPT !.dram = FALSE]
      [] s = "db_back"    -> IF e.mysql = "stopped" THEN Database(e) ELSE [e EXCEPT !.front = "up"]

Effect(c, s, e) ==
    CASE c = 1 -> quiesce_webui(s, e)  [] c = 2 -> mysql_launcher(s, e)
      [] c = 3 -> placement(s, e)      [] c = 4 -> memory_service(s, e)
      [] c = 5 -> ram_database(s, e)

\* A step that raises has had its effect, none, or some of it.
Partly(c, s, e) ==
    {e, Effect(c, s, e)} \cup
    CASE s \in {"db_halt", "my_restart", "rebuild"} ->
              {[e EXCEPT !.front = "down"], [e EXCEPT !.mysql = "stopped"],
               [e EXCEPT !.front = "down", !.mysql = "stopped"]}
      [] s \in {"db_start", "db_back"} -> {[Effect(c, s, e) EXCEPT !.front = "down"]}
      [] OTHER -> {}

\* What a context asks for before it changes anything.
Admits(c) ==
    CASE c = 1 -> ~env.drop /\ ~env.ui_drop
      [] c = 2 -> ~env.my_drop
      [] c = 3 -> ~env.place_drop /\ env.front = "up" /\ env.mysql # "stopped" /\ env.cubelet # "stopped"
      [] c = 4 -> ~env.drop /\ env.cubelet # "stopped"
      [] c = 5 -> ~env.bound

\* The operation has a directory, and so a guard, of its own.
Begin ==
    /\ op.pc = "idle" /\ count < bound.operations
    /\ count' = count + 1 /\ guard' = FALSE /\ left' = (left \/ guard)
    /\ op' = IF Admits(1) THEN [Idle EXCEPT !.pc = "setup"] ELSE Idle
    /\ UNCHANGED <<env, unsaid, held, bound, faults>>

\* To the `finally` of the context of setup step n.
Unwind(n, c) == op' = [Idle EXCEPT !.pc = "leave", !.n = n, !.ctx = c]

SetUp ==
    /\ op.pc = "setup" /\ op.n < Len(Setup)
    /\ LET n == op.n + 1
           c == ContextOf(n)
       IN  IF n = First[c] /\ ~Admits(c)
           THEN Unwind(op.n, c - 1) /\ UNCHANGED <<env, faults>>
           ELSE \/ /\ env' = Effect(c, Setup[n], env) /\ op' = [op EXCEPT !.n = n]
                   /\ UNCHANGED faults
                \/ /\ Faulty /\ Unwind(n, c)
                   /\ env' \in Partly(c, Setup[n], env)
    /\ UNCHANGED <<guard, left, unsaid, held, bound, count>>

\* The measurement ends or raises; it may keep Cube resources of its own and
\* say so in the recovery file.
Measure ==
    /\ op.pc = "setup" /\ op.n = Len(Setup)
    /\ \/ UNCHANGED <<guard, faults>>
       \/ Faulty /\ guard' = TRUE
    /\ Unwind(op.n, 5)
    /\ UNCHANGED <<env, left, unsaid, held, bound, count>>

-----------------------------------------------------------------------------
(* Leaving, innermost context first.                                       *)

Cleanup == << <<"ui_undrop", "ui_start">>,
              <<"my_undrop", "my_restart">>,
              <<"unplace", "unmask", "rebuild">>,
              <<"cube_halt", "undrop", "unpin", "cube_back", "unvolume", "unloop", "released", "unram">>,
              <<"db_halt", "unbind", "undram", "db_back">> >>

\* ram_database and placement go on after most failures (`errors`).
Collects == {3, 5}

\* ram_database: can_unmount.
can_unmount == Begun("my_stop") => env.mysql = "stopped"

\* The step has something to do.
Applies(s) ==
    CASE s \in {"ui_undrop", "ui_start"} -> Begun("ui_drop")
      [] s = "my_undrop"  -> Begun("my_drop")
      [] s = "my_restart" -> env.my_kept
      [] s = "unplace"    -> Begun("place_drop")
      [] s = "unmask"     -> Begun("place_drop")
      [] s = "rebuild"    -> Begun("masks") /\ ~op.errors
      [] s \in {"cube_halt", "undrop"} -> Begun("drop")
      [] s = "unpin"      -> Begun("pin")
      [] s = "cube_back"  -> Begun("cube_stop")
      [] s = "unvolume"   -> env.volume
      [] s = "unloop"     -> env.loop = "attached"
      [] s = "released"   -> Begun("loop")
      [] s = "unram"      -> env.ram
      [] s = "db_halt"    -> Begun("my_stop")
      [] s = "unbind"     -> can_unmount /\ env.bound
      [] s = "undram"     -> can_unmount /\ env.dram /\ ~env.bound
      [] s = "db_back"    -> Begun("front_stop") /\ can_unmount /\ ~env.bound

\* Out of one context, into the `finally` of the one around it.
Outwards == IF op.ctx = 1 THEN op' = Idle
            ELSE op' = [op EXCEPT !.pc = "leave", !.ctx = @ - 1, !.i = 0, !.errors = FALSE]

\* MUTANT of Leave: the placement is restored whatever the guard says.
LeaveForced ==
    /\ op.pc = "leave"
    /\ IF guard /\ op.ctx # 3 THEN Outwards /\ UNCHANGED guard
       ELSE /\ guard' = TRUE /\ op' = [op EXCEPT !.pc = "undo", !.i = 1]
    /\ UNCHANGED <<env, left, unsaid, held, bound, count, faults>>
\* `finally`: if recovery_guard.exists() the context is retained.  A signal or
\* an error on the way to the file, or while it is written, also leaves the
\* context as it is, and the ones around it look for the file.
Leave ==
    /\ op.pc = "leave"
    /\ \/ guard /\ Outwards /\ UNCHANGED <<guard, unsaid, faults>>
       \/ /\ ~guard /\ guard' = TRUE /\ op' = [op EXCEPT !.pc = "undo", !.i = 1]
          /\ UNCHANGED <<unsaid, faults>>
       \/ /\ ~guard /\ Faulty /\ Outwards
          /\ guard' \in BOOLEAN /\ unsaid' = (unsaid \/ ~guard')
    /\ UNCHANGED <<env, left, held, bound, count>>

\* What ram_database finds it must not do, it records as an error.
Blocked(s) == (s = "unbind" /\ ~can_unmount) \/ (s = "db_back" /\ Begun("my_stop") /\ env.bound)

\* MUTANT of UndoFails: every context goes on after a failure.
UndoFailsOn(s) ==
    /\ env' \in Partly(op.ctx, s, env)
    /\ op' = [op EXCEPT !.i = @ + 1, !.errors = TRUE]
\* The failure is collected, or raised (as every signal is).
UndoFails(s) ==
    /\ env' \in Partly(op.ctx, s, env)
    /\ \/ op.ctx \in Collects /\ op' = [op EXCEPT !.i = @ + 1, !.errors = TRUE]
       \/ Outwards

\* MUTANT of Waits: the release of the loop device is taken for granted.
WaitsNever(s) == FALSE
\* wait_loop_release: given up after 10 s.
Waits(s) == s = "released" /\ env.loop # "none"

\* The MySQL cgroup is only rebuilt if its original masks were inherited.
MaySkip(s) == ~Applies(s) \/ s = "rebuild"

Undo ==
    /\ op.pc = "undo" /\ op.i <= Len(Cleanup[op.ctx])
    /\ LET s == Cleanup[op.ctx][op.i]
       IN  \/ /\ ~Waits(s)
              /\ \/ Applies(s) /\ env' = Effect(op.ctx, s, env)
                 \/ MaySkip(s) /\ UNCHANGED env
              /\ op' = [op EXCEPT !.i = @ + 1, !.errors = @ \/ Blocked(s)]
              /\ UNCHANGED faults
           \/ /\ Applies(s) /\ UndoFails(s)
              /\ IF Waits(s) THEN UNCHANGED faults ELSE Faulty
    /\ UNCHANGED <<guard, left, unsaid, held, bound, count>>

\* MUTANT of Undone: a failure that was only collected is not one.
UndoneAnyhow ==
    /\ op.pc = "undo" /\ op.i > Len(Cleanup[op.ctx])
    /\ guard' = FALSE /\ Outwards
    /\ UNCHANGED <<env, left, unsaid, held, bound, count, faults>>
\* The end of a `finally`: recovery_guard.unlink(), not reached with errors.
Undone ==
    /\ op.pc = "undo" /\ op.i > Len(Cleanup[op.ctx])
    /\ guard' = op.errors /\ Outwards
    /\ UNCHANGED <<env, left, unsaid, held, bound, count, faults>>

Killed ==
    /\ op.pc # "idle" /\ Faulty
    /\ op' = Idle
    /\ UNCHANGED <<env, guard, left, unsaid, held, bound, count>>

CubeStep ==
    \/ Begin \/ SetUp \/ Measure \/ Leave \/ Undo \/ Undone \/ Killed

-----------------------------------------------------------------------------

\* A service that may run from private storage keeps it: memory_service, "A
\* live or ambiguously configured service keeps its storage", and
\* ram_database, "private mount retained to preserve its live files".  RAM is not
\* taken from under a loop device, attached or still detaching.  And storage is
\* kept whole: while there is private storage, all that was set up around it
\* stays, through every failing cleanup ("retained for resource recovery"),
\* unless a recovery file could not be written.
StorageHeld ==
    /\ env.cubelet = "private" => env.volume
    /\ env.volume => env.loop = "attached"
    /\ env.loop # "none" => env.ram
    /\ env.mysql = "private" => env.dram /\ env.bound
    /\ ~unsaid =>
          /\ env.ram \/ env.dram => env.ui_drop /\ env.my_drop /\ env.place_drop /\ env.masks = "test"
          /\ env.dram \/ env.bound => env.drop /\ env.cubelet = "private"

\* Between operations the services are the original ones, or a recovery file
\* says that they are not, or (after a kill) the next operation refuses; unless
\* such a file could not be written.
MarkedOrRefused ==
    op.pc = "idle" => env = Original \/ left \/ guard \/ ~Admits(1) \/ unsaid

\* "Database launcher retained for resource recovery"
\* (cube_control_context.py:331, and so at 488 and 655): what is retained is
\* announced.  The code does not keep this: a signal between exists() and save
\* (329-332) leaves the launcher replaced and no file, and the context around
\* it restores the UI and removes its own.
MarkedAlways ==
    op.pc = "idle" => env = Original \/ left \/ guard \/ ~Admits(1)
=============================================================================
