-------------------------- MODULE HostedAdmission ---------------------------
(***************************************************************************)
(* Admission to the shared services of the hosted machine: the launchers   *)
(* (hosted_launcher.py) of the background validation and of the hosted     *)
(* reviewers' runs, and the systemd unit in which each of them runs its    *)
(* experiments.                                                            *)
(*                                                                         *)
(* A reviewer holds a shared priority lease (hosted_cpu_priority.py), the  *)
(* launcher and the unit each its own.  A unit works under the exclusive   *)
(* results lease; both leases go with the process, so here they follow     *)
(* from its pc.  Files: CPU_BACKGROUND_TRANSACTION.json (txn),             *)
(* CPU_SERVICE_RECOVERY_REQUIRED.json (cpu_guard) and, in the output       *)
(* directory of each run, its review and recovery records (results).       *)
(***************************************************************************)
EXTENDS E2bService

CONSTANTS
    Background,      \* the unit of the NUMA0/3 validation
    resume_failures  \* [Reviewers -> Nat]: resumes a campaign may make

Reviewers == Units \ {Background}

ASSUME HostedAssumption ==
    Background \in Units /\ resume_failures \in [Reviewers -> Nat]

VARIABLES
    launcher,   \* [Units -> [pc, why, attempt]]
    unit,       \* [Units -> [pc, stop, code]]
    results,    \* [Units -> [review, failed, recovery]]
    txn,        \* none, live, or dead: its owner has exited
    cpu_guard

hostVars == <<launcher, unit, results, txn, cpu_guard>>
vars == <<e2bVars, hostVars>>

NoUnitYet == [pc |-> "none", stop |-> FALSE, code |-> 0]

Init ==
    /\ E2bInit
    /\ launcher = [l \in Units |-> [pc |-> IF l = Background THEN "probe" ELSE "out",
                                    why |-> "-", attempt |-> 0]]
    /\ unit = [l \in Units |-> NoUnitYet]
    /\ results = [l \in Units |-> [review |-> "none", failed |-> FALSE, recovery |-> FALSE]]
    /\ txn = "none" /\ cpu_guard = FALSE

Ended == {"done", "killed"}
Alive(u) == unit[u].pc \notin {"none", "gone"}
HoldsResults(u) == unit[u].pc \in {"admit", "work"}

\* reviewer_waiting: a launcher or a unit's runner holds the shared lease.
reviewer_waiting ==
    \E r \in Reviewers : \/ launcher[r].pc \notin Ended \cup {"out"}
                         \/ unit[r].pc \in {"lock", "admit", "work"}

SetL(l, pc) == launcher' = [launcher EXCEPT ![l].pc = pc]
SetU(u, pc) == unit' = [unit EXCEPT ![u].pc = pc]
\* A unit that has worked may still have processes when its runner exits.
Exit(u, code) ==
    unit' = [unit EXCEPT ![u].pc = IF @ = "work" THEN "closing" ELSE "gone", ![u].code = code]

\* The controller exits: a transaction it has not committed loses its owner.
Orphaned == IF txn = "live" THEN "dead" ELSE txn

-----------------------------------------------------------------------------
(* The unit: hosted_cpu_service, then the runner.                          *)

Starts(u) ==
    /\ unit[u].pc = "start" /\ ~unit[u].stop
    /\ SetU(u, "lock")
    /\ UNCHANGED <<e2bVars, launcher, results, txn, cpu_guard>>

\* run_lock(.results.lock, wait=True).
Lock(u) ==
    /\ unit[u].pc = "lock" /\ ~unit[u].stop
    /\ \A v \in Units : ~HoldsResults(v)
    /\ SetU(u, "admit")
    /\ UNCHANGED <<e2bVars, launcher, results, txn, cpu_guard>>

\* MUTANT of Admitted: a transaction of the background run is not looked at.
AdmittedRegardless(u) == IF u = Background THEN ~cpu_guard ELSE ~cpu_guard /\ ~guard
\* assert_backend_recovery returns: no transaction and no guard, or this
\* unit's own live transaction.
Admitted(u) ==
    /\ ~cpu_guard
    /\ IF u = Background /\ txn = "live" THEN TRUE ELSE txn = "none" /\ ~guard

\* assert_backend_recovery raises: a guard, or a transaction without owner.
Refused == cpu_guard \/ txn = "dead" \/ (txn = "none" /\ guard)

Admit(u) ==
    /\ unit[u].pc = "admit" /\ ~unit[u].stop /\ Admitted(u)
    /\ SetU(u, "work")
    /\ results' = [results EXCEPT ![u].review = "running", ![u].failed = FALSE]
    /\ UNCHANGED <<e2bVars, launcher, txn, cpu_guard>>

\* Also when the deadline passes on a transaction that stays live.
Refuse(u) ==
    /\ unit[u].pc = "admit" /\ ~unit[u].stop /\ ~Admitted(u)
    /\ IF Refused THEN UNCHANGED faults ELSE Faulty
    /\ Exit(u, 1)
    /\ UNCHANGED <<svc, guard, ctx, launcher, results, txn, cpu_guard>>

Fail(u) == results' = [results EXCEPT ![u].failed = TRUE]

\* An experiment that uses E2B, refused where an earlier guard is found.
Borrow(u) ==
    /\ unit[u].pc = "work" /\ ~unit[u].stop /\ ctx.by = NoUnit
    /\ IF assert_backend_ready
       THEN Enter(u) /\ UNCHANGED results
       ELSE Fail(u) /\ UNCHANGED e2bVars
    /\ UNCHANGED <<launcher, unit, txn, cpu_guard>>

\* An error of the transaction fails the experiment.
Transact(u) ==
    /\ unit[u].pc = "work" /\ E2bStep(u, unit[u].stop)
    /\ IF faults' # faults THEN Fail(u) ELSE UNCHANGED results
    /\ UNCHANGED <<launcher, unit, txn, cpu_guard>>

\* Another experiment fails, or leaves RECOVERY_REQUIRED.json (Cube) behind.
Experiment(u) ==
    /\ unit[u].pc = "work" /\ ctx.by # u /\ Faulty
    /\ \E kept \in BOOLEAN :
          results' = [results EXCEPT ![u].failed = TRUE, ![u].recovery = @ \/ kept]
    /\ UNCHANGED <<svc, guard, ctx, launcher, unit, txn, cpu_guard>>

Finish(u) ==
    /\ unit[u].pc = "work" /\ ~unit[u].stop /\ ctx.by # u
    /\ Exit(u, IF results[u].failed THEN 1 ELSE 0)
    /\ results' = [results EXCEPT ![u].review = IF results[u].failed THEN "failed" ELSE "ok"]
    /\ UNCHANGED <<e2bVars, launcher, txn, cpu_guard>>

\* systemctl stop: SIGINT; the runner leaves once its contexts are undone.
Interrupted(u) ==
    /\ unit[u].stop /\ ctx.by # u /\ Alive(u) /\ unit[u].pc # "closing"
    /\ Exit(u, 130)
    /\ results' = [results EXCEPT ![u].review = IF unit[u].pc = "work" THEN "interrupted" ELSE @]
    /\ UNCHANGED <<e2bVars, launcher, txn, cpu_guard>>

\* The results lease is released before the last process of the unit exits.
Gone(u) ==
    /\ unit[u].pc = "closing" /\ SetU(u, "gone")
    /\ UNCHANGED <<e2bVars, launcher, results, txn, cpu_guard>>

\* Killed, for instance when the grace of the stop is over.
UnitKilled(u) ==
    /\ Alive(u) /\ Faulty /\ Abandon(u)
    /\ unit' = [unit EXCEPT ![u].pc = "gone", ![u].code = 137]
    /\ UNCHANGED <<launcher, results, txn, cpu_guard>>

Unit(u) ==
    \/ Starts(u) \/ Lock(u) \/ Admit(u) \/ Refuse(u) \/ Borrow(u) \/ Transact(u)
    \/ Finish(u) \/ Interrupted(u) \/ Gone(u)

-----------------------------------------------------------------------------
(* run_cpu_service.                                                        *)

Submit(l) ==
    /\ launcher[l].pc = "submit"
    /\ unit' = [unit EXCEPT ![l] = [NoUnitYet EXCEPT !.pc = "start"]]
    /\ launcher' = [launcher EXCEPT ![l].pc = "wait", ![l].why = "exit", ![l].attempt = @ + 1]
    /\ UNCHANGED <<e2bVars, results, txn, cpu_guard>>

\* The client ends with the unit; or the launcher raises and stops the unit.
Stop(l, why) ==
    /\ launcher[l].pc = "wait" /\ Alive(l)
    /\ launcher' = [launcher EXCEPT ![l].pc = "stopping", ![l].why = why]
    /\ unit' = [unit EXCEPT ![l].stop = TRUE]
    /\ UNCHANGED <<svc, guard, ctx, results, txn, cpu_guard>>

\* MUTANT of Yield: the controller looks for reviewers only between its units.
YieldNever ==
    /\ FALSE /\ UNCHANGED vars
\* process.wait(timeout=0.5) expires and yield_requested().
Yield == reviewer_waiting /\ Stop(Background, "yield") /\ UNCHANGED faults

\* SIGTERM, SIGINT or SIGHUP at a launcher.
Interrupt(l) == Faulty /\ Stop(l, "interrupt")

UnitEnded(l) ==
    /\ launcher[l].pc \in {"wait", "stopping"} /\ unit[l].pc = "gone"
    /\ SetL(l, "verify")
    /\ UNCHANGED <<e2bVars, unit, results, txn, cpu_guard>>

\* stop_cpu_service raises.
StopFails(l) ==
    /\ launcher[l].pc = "stopping" /\ Faulty /\ SetL(l, "done")
    /\ cpu_guard' = (cpu_guard \/ l = Background)
    /\ txn' = IF l = Background THEN Orphaned ELSE txn
    /\ UNCHANGED <<svc, guard, ctx, unit, results>>

\* MUTANT of verify_background_cleanup: the guard of the services is not looked for.
VerifyUnguarded(l, check_experiment_failure) ==
    ~results[l].recovery /\ (check_experiment_failure => ~results[l].failed)
verify_background_cleanup(l, check_experiment_failure) ==
    /\ ~guard /\ ~results[l].recovery
    /\ check_experiment_failure => ~results[l].failed

-----------------------------------------------------------------------------
(* run_background_cpu.                                                     *)

Probe ==
    /\ launcher[Background].pc = "probe" /\ ~reviewer_waiting
    /\ SetL(Background, "begin")
    /\ UNCHANGED <<e2bVars, unit, results, txn, cpu_guard>>

begin_background_transaction ==
    /\ launcher[Background].pc = "begin"
    /\ IF cpu_guard \/ guard \/ txn # "none"
       THEN SetL(Background, "done") /\ UNCHANGED txn
       ELSE SetL(Background, "submit") /\ txn' = "live"
    /\ UNCHANGED <<e2bVars, unit, results, cpu_guard>>

\* Cleanup that cannot be verified keeps the transaction and adds the guard.
VerifyBackground ==
    /\ launcher[Background].pc = "verify"
    /\ IF verify_background_cleanup(Background, FALSE)
       THEN /\ SetL(Background, "commit")
            /\ UNCHANGED <<txn, cpu_guard>>
       ELSE SetL(Background, "done") /\ cpu_guard' = TRUE /\ txn' = Orphaned
    /\ UNCHANGED <<e2bVars, unit, results>>

\* finish_background_transaction; only a yield goes on, and only without a
\* failed experiment.
finish_background_transaction ==
    /\ launcher[Background].pc = "commit"
    /\ txn' = "none"
    /\ SetL(Background, IF launcher[Background].why = "yield"
                           /\ verify_background_cleanup(Background, TRUE)
                        THEN "probe" ELSE "done")
    /\ UNCHANGED <<e2bVars, unit, results, cpu_guard>>

-----------------------------------------------------------------------------
(* The reviewers' launchers: main, run_cpu_campaign.                       *)

Arrive(r) ==
    /\ launcher[r].pc = "out" /\ SetL(r, "submit")
    /\ UNCHANGED <<e2bVars, unit, results, txn, cpu_guard>>

\* A later attempt only after a failed workload, with nothing to recover.
Campaign(r) ==
    /\ launcher[r].pc = "verify"
    /\ LET single  == resume_failures[r] = 0 \/ launcher[r].why = "interrupt"
           blocked == cpu_guard \/ txn # "none" \/ ~verify_background_cleanup(r, FALSE)
           retry   == /\ unit[r].code = 1 /\ results[r].review = "failed"
                      /\ launcher[r].attempt <= resume_failures[r]
       IN  /\ cpu_guard' = (cpu_guard \/ (~single /\ blocked))
           /\ SetL(r, IF ~single /\ ~blocked /\ retry THEN "submit" ELSE "done")
    /\ UNCHANGED <<e2bVars, unit, results, txn>>

\* SIGKILL of a launcher: its unit goes on.
LauncherKilled(l) ==
    /\ launcher[l].pc \notin Ended \cup {"out"} /\ Faulty
    /\ SetL(l, "killed")
    /\ txn' = IF l = Background THEN Orphaned ELSE txn
    /\ UNCHANGED <<svc, guard, ctx, unit, results, cpu_guard>>

Controller == Probe \/ begin_background_transaction \/ VerifyBackground \/ finish_background_transaction
Launcher(l) == Submit(l) \/ UnitEnded(l)

Next ==
    \/ Controller \/ Yield
    \/ \E r \in Reviewers : Arrive(r) \/ Campaign(r)
    \/ \E l \in Units :
          \/ Unit(l) \/ Launcher(l)
          \/ Experiment(l) \/ UnitKilled(l) \/ Interrupt(l) \/ StopFails(l) \/ LauncherKilled(l)

Spec == Init /\ [][Next]_vars

\* The poll is a timed loop, every process of a unit goes on, flock serves
\* its waiters and a reviewer's queue is finite.  That the background unit
\* finishes by itself is not assumed: its queue takes hours.
FairSpec ==
    /\ Spec
    /\ WF_vars(Controller) /\ WF_vars(Yield)
    /\ \A r \in Reviewers : WF_vars(Campaign(r)) /\ WF_vars(Transact(r))
    /\ WF_vars(Transact(Background) /\ unit[Background].stop)
    /\ \A l \in Units :
          /\ WF_vars(Launcher(l)) /\ WF_vars(Starts(l)) /\ WF_vars(Admit(l))
          /\ WF_vars(Refuse(l) /\ Refused) /\ WF_vars(Interrupted(l)) /\ WF_vars(Gone(l))
    /\ \A r \in Reviewers : SF_vars(Lock(r)) /\ SF_vars(Finish(r))

-----------------------------------------------------------------------------

\* "The two runs never execute at the same time": while a reviewer's unit
\* works no other unit does, and the background unit has no process left
\* over from an earlier turn (assert_backend_recovery waits for the commit).
WorksAlone ==
    \A r \in Reviewers, u \in Units :
        unit[r].pc = "work" /\ u # r =>
            unit[u].pc # "work" /\ (u = Background => unit[u].pc # "closing")

\* A run decides to go on by itself only over services that are as they were
\* found: when run_cpu_campaign resumes, or run_background_cpu takes its next
\* turn, no daemon, drop-in or RAM storage of a transaction is left over,
\* from this run or another, and no process of its last unit; the background
\* run goes on only when no experiment of it failed.
RetryOnlyRestored ==
    [][\A l \in Units :
          launcher[l].pc \in {"verify", "commit"} /\ launcher'[l].pc \in {"submit", "probe"} =>
             /\ svc = Original /\ ctx.by # l
             /\ ~Alive(l) /\ ~results[l].recovery
             /\ l = Background => ~results[l].failed]_vars

\* A reviewer's run that has asked for admission gets to its end, served or
\* refused, however long the background run would still take; unless a
\* launcher was killed, for which "no cancellation guarantee is made", or
\* the background unit could not be stopped.
ReviewerServed ==
    \A r \in Reviewers :
        launcher[r].pc = "submit" ~>
            \/ launcher[r].pc \in Ended
            \/ \E l \in Units : launcher[l].pc = "killed"
            \/ launcher[Background].pc = "done" /\ Alive(Background)

\* CPU_SERVICE_RECOVERY_REQUIRED.json is the state "a failed restoration"
\* leaves: without a failure nobody writes it.  The code does not keep this: a
\* check that meets the live guard of another run writes it too.
AlarmMeansFailure == cpu_guard => faults > 0
=============================================================================
