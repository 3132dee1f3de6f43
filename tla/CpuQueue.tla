------------------------------ MODULE CpuQueue ------------------------------
(***************************************************************************)
(* A two-lane CPU campaign of the artifact evaluation and its resumption:  *)
(* the parent (run_cpu_parallel.run), which holds the results lease,       *)
(* rebuilds the queue and starts a lane per NUMA node; the lanes           *)
(* (Review.run), which take experiments ("groups") from the shared         *)
(* WorkQueue file; and the plan executor of a lane, which measures the     *)
(* jobs of a group one after the other and rewrites suite.json after each. *)
(* An executor is a session of its own: it outlives a lane that is killed. *)
(*                                                                         *)
(* Files survive a crash: queue (cpu-work-queue.json), review (each lane's *)
(* review.json), suites (runs/<group>/suite.json), record (the campaign's  *)
(* review.json) and dirs (the attempt directories).  write_json replaces   *)
(* a file atomically.                                                      *)
(***************************************************************************)
EXTENDS Naturals, Sequences, FiniteSets, FiniteSetsExt

CONSTANTS
    Nodes,          \* the NUMA nodes of the layout (PLACEMENT), one lane each
    Experiments,    \* CPU_EXPERIMENTS: a sequence of groups
    Campaigns,      \* records of service, the groups that share one backend
                    \* (service_group), jobs, the number of jobs in each group's plan,
                    \* and attempts, how often the command may be started (bound)
    Cube,           \* the service groups that are measured inside a Cube context
    MaxFaults       \* failures, interruptions and crashes (bound)

Groups == {Experiments[i] : i \in DOMAIN Experiments}
NoNode == 0
NoGroup == "-"

ASSUME QueueAssumption ==
    /\ NoNode \notin Nodes /\ NoGroup \notin Groups
    /\ \A c \in Campaigns :
          /\ Cube \subseteq c.service /\ c.service \subseteq Groups
          /\ c.jobs \in [Groups -> Nat \ {0}] /\ c.attempts \in Nat
    /\ MaxFaults \in Nat

VARIABLES
    campaign, \* the member of Campaigns; never changed
    parent,   \* pc of the campaign process, the attempt it works on, whether it was interrupted
    record,   \* the campaign's review.json: attempt_number and status
    dirs,     \* attempts whose directory has been made
    queue,    \* [Groups -> [status, node]]
    lanes,    \* [Nodes -> [pc, group, plan, gone]]; gone: planned jobs found unavailable
    execs,    \* [Nodes -> [pc, group, plan, gone]]: the executor that has the node's lease
    review,   \* [Nodes -> [Groups -> row status]]
    stale,    \* lanes whose next attempt finds its directory already made
    suites,   \* [Nodes -> [Groups -> [dir, manifest, ok, late]]]; late: recorded
              \* by an executor that had outlived its lane
    starts,   \* times the command was started
    faults

Jobs(g) == 1..campaign.jobs[g]

files == <<record, dirs, queue, review, stale, suites>>
vars == <<parent, files, lanes, execs, starts, faults>>

\* A lane that has exited is "off", or "ok"/"failed" until the parent polls it.
Exited == {"off", "ok", "failed"}
Alive(n) == lanes[n].pc \notin Exited

Off == [pc |-> "off", group |-> NoGroup, plan |-> {}, gone |-> {}]
At(pc) == [Off EXCEPT !.pc = pc]
NoSuite == [dir |-> FALSE, manifest |-> FALSE, ok |-> {}, late |-> {}]

Init ==
    /\ campaign \in Campaigns
    /\ parent = [pc |-> "out", attempt |-> 0, interrupted |-> FALSE]
    /\ record = [attempt |-> 0, status |-> "none"]
    /\ dirs = {} /\ starts = 0 /\ faults = 0
    /\ queue = [g \in Groups |-> [status |-> "pending", node |-> NoNode]]
    /\ lanes = [n \in Nodes |-> Off] /\ execs = lanes /\ stale = {}
    /\ review = [n \in Nodes |-> [g \in Groups |-> "absent"]]
    /\ suites = [n \in Nodes |-> [g \in Groups |-> NoSuite]]

Fails == faults < MaxFaults /\ faults' = faults + 1

-----------------------------------------------------------------------------
(* The campaign process.                                                   *)

\* The lanes inherit the parent's lease: as long as one lives, it is held.
\* Their executors do not.
LeaseFree == parent.pc = "out" /\ \A n \in Nodes : ~Alive(n)

\* run up to the attempt's directory: output itself, or attempt-history/<n>
\* on --resume.  mkdir(exist_ok=False) refuses one that is already there.
Start ==
    LET n == record.attempt + 1
    IN  /\ LeaseFree /\ starts < campaign.attempts /\ record.status # "ok"
        /\ starts' = starts + 1
        /\ IF n \in dirs
           THEN /\ record' = [record EXCEPT !.status = "refused"]
                /\ UNCHANGED <<parent, dirs>>
           ELSE /\ parent' = [pc |-> "recover", attempt |-> n, interrupted |-> FALSE]
                /\ dirs' = dirs \cup {n}
                /\ UNCHANGED record
        /\ UNCHANGED <<queue, review, stale, suites, lanes, execs, faults>>

\* The ValueErrors of recover_groups.
Complete(n, g) == suites[n][g].manifest /\ suites[n][g].ok = Jobs(g)
Recoverable ==
    \A g \in Groups :
       /\ Cardinality({n \in Nodes : review[n][g] # "absent"}) =< 1
       /\ \A n \in Nodes : review[n][g] = "ok" => Complete(n, g)

\* MUTANT of recover_groups: only completed groups are bound to their node.
RecoverCompletedOnly(g) ==
    LET at == {n \in Nodes : review[n][g] = "ok"}
    IN  IF at = {} THEN [status |-> "pending", node |-> NoNode]
        ELSE [status |-> "ok", node |-> CHOOSE n \in at : TRUE]

recover_groups(g) ==
    LET at == {n \in Nodes : review[n][g] # "absent"}
        node == CHOOSE n \in at : TRUE
    IN  IF at = {} THEN [status |-> "pending", node |-> NoNode]
        ELSE [status |-> IF review[node][g] = "ok" THEN "ok" ELSE "pending", node |-> node]

\* WorkQueue.initialize, the first save, and launch_lanes.  A first attempt
\* finds no review of any lane: recover_groups is then all pending.
Launch ==
    /\ parent.pc = "recover"
    /\ IF Recoverable
       THEN /\ queue' = [g \in Groups |-> recover_groups(g)]
            /\ record' = [attempt |-> parent.attempt, status |-> "running"]
            /\ lanes' = [n \in Nodes |-> At("boot")]
            /\ parent' = [parent EXCEPT !.pc = "poll"]
       ELSE /\ record' = [record EXCEPT !.status = "refused"]
            /\ parent' = [parent EXCEPT !.pc = "out"]
            /\ UNCHANGED <<queue, lanes>>
    /\ UNCHANGED <<dirs, review, stale, suites, execs, starts, faults>>

\* launch_lanes' poll: a failed lane stops its peer, two good ones end it.
Poll ==
    /\ parent.pc = "poll"
    /\ \/ /\ \E n \in Nodes : lanes[n].pc = "failed"
          /\ parent' = [parent EXCEPT !.pc = "stop"]
       \/ /\ \A n \in Nodes : lanes[n].pc = "ok"
          /\ parent' = [parent EXCEPT !.pc = "collect"]
    /\ UNCHANGED <<files, lanes, execs, starts, faults>>

\* What is left of a lane's executor when the lane is killed.
Outlives(n) == IF execs[n].pc \in {"made", "jobs"} THEN execs[n] ELSE Off

\* stop_owned: SIGTERM interrupts the lane, which ends its executor; what it
\* had not finished is left as the files have it (terminal_error).  A lane
\* that takes more than the grace period is killed, and its executor is not.
StopLane(n) ==
    /\ parent.pc = "stop" /\ Alive(n)
    /\ lanes' = [lanes EXCEPT ![n] = At("failed")]
    /\ \/ execs' = [execs EXCEPT ![n] = IF lanes[n].pc = "run" THEN Off ELSE @] /\ UNCHANGED faults
       \/ execs' = [execs EXCEPT ![n] = Outlives(n)] /\ Fails
    /\ UNCHANGED <<parent, files, starts>>

Stopped ==
    /\ parent.pc = "stop" /\ \A n \in Nodes : ~Alive(n)
    /\ parent' = [parent EXCEPT !.pc = "collect"]
    /\ UNCHANGED <<files, lanes, execs, starts, faults>>

\* Every experiment in the coverage of exactly one lane, and ok there.
CoverageComplete ==
    \A g \in Groups :
       \E n \in Nodes : review[n][g] = "ok" /\ \A o \in Nodes \ {n} : review[o][g] = "absent"

\* MUTANT of Collect: the rows that are there decide, and none is missed.
CollectRows ==
    /\ parent.pc = "collect"
    /\ record' = [record EXCEPT !.status =
          IF \A g \in Groups, n \in Nodes : review[n][g] \in {"absent", "ok"}
          THEN "ok" ELSE "failed"]
    /\ parent' = [parent EXCEPT !.pc = "out"]
    /\ lanes' = [n \in Nodes |-> Off]
    /\ UNCHANGED <<dirs, queue, review, stale, suites, execs, starts, faults>>

\* The finally of run: coverage from the lanes, analysis and comparison
\* (which may fail), the status, and out.
Collect ==
    /\ parent.pc = "collect"
    /\ \E compared \in BOOLEAN :
          /\ IF compared THEN UNCHANGED faults ELSE Fails
          /\ record' = [record EXCEPT !.status =
                IF CoverageComplete /\ compared /\ ~parent.interrupted
                   /\ \A n \in Nodes : lanes[n].pc = "ok"
                THEN "ok" ELSE "failed"]
    /\ parent' = [parent EXCEPT !.pc = "out"]
    /\ lanes' = [n \in Nodes |-> Off]
    /\ UNCHANGED <<dirs, queue, review, stale, suites, execs, starts>>

Parent == Start \/ Launch \/ Poll \/ (\E n \in Nodes : StopLane(n)) \/ Stopped \/ Collect

-----------------------------------------------------------------------------
(* A lane: Review.run with the work queue.                                 *)

\* Goes to pc with its group and plan, and leaves the parent alone.
Lane(n, pc) ==
    /\ lanes' = [lanes EXCEPT ![n].pc = pc]
    /\ UNCHANGED <<parent, record, dirs, starts>>

\* run_locked_selection: assert_backend_recovery, then the attempt's own
\* directory (the lane's on the first one), which must not be there yet.
Boot(n) ==
    /\ lanes[n].pc = "boot"
    /\ \/ /\ n \notin stale /\ Lane(n, "save")
          /\ stale' = stale \cup {n} /\ UNCHANGED faults
       \/ /\ Lane(n, "failed") /\ UNCHANGED stale
          /\ IF n \in stale THEN UNCHANGED faults ELSE Fails
    /\ UNCHANGED <<queue, review, suites, execs>>

\* Review.__init__ started from completed_rows; run saves before anything
\* else.  prepare and verify follow, which only this lane sees.
Save(n) ==
    /\ lanes[n].pc = "save"
    /\ review' = [review EXCEPT ![n] = [g \in Groups |->
          IF queue[g].status = "ok" /\ queue[g].node = n THEN "ok" ELSE "absent"]]
    /\ stale' = stale \ {n}
    /\ \/ Lane(n, "claim") /\ UNCHANGED faults
       \/ Lane(n, "failed") /\ Fails
    /\ UNCHANGED <<queue, suites, execs>>

Eligible(n) == {g \in Groups : queue[g].status = "pending" /\ queue[g].node \in {NoNode, n}}

\* MUTANT of service_busy: a service group that has finished still counts.
ServiceUsed == \E g \in campaign.service : queue[g].status # "pending"
\* MUTANT of service_busy: services are not told apart.
ServiceNever == FALSE
service_busy == \E g \in campaign.service : queue[g].status = "running"

\* WorkQueue.claim.  "wait" (a group is eligible, but the service is busy)
\* sleeps and asks again: here the action waits for the queue to change.
Claim(n) ==
    LET able == Eligible(n) \ (IF service_busy THEN campaign.service ELSE {})
        over == (\E g \in Groups : queue[g].status = "failed") \/ Eligible(n) = {}
        first == Experiments[Min({i \in DOMAIN Experiments : Experiments[i] \in able})]
    IN  /\ lanes[n].pc = "claim"
        /\ \/ /\ over /\ Lane(n, "analyze")
              /\ UNCHANGED queue
           \/ /\ ~over /\ able # {}
              /\ queue' = [queue EXCEPT ![first] = [status |-> "running", node |-> n]]
              /\ lanes' = [lanes EXCEPT ![n] = [Off EXCEPT !.pc = "checking", !.group = first]]
              /\ UNCHANGED <<parent, record, dirs, starts>>
        /\ UNCHANGED <<review, stale, suites, execs, faults>>

\* MUTANT of prepare_resume: the whole plan is measured again.
PlanAgain(n, g) == Jobs(g)
\* prepare_resume: jobs that were ok are verified and reused.
prepare_resume(n, g) == Jobs(g) \ suites[n][g].ok

\* run_experiment up to the measurement: the row is saved by the first step;
\* doctor, plan or input probe may fail, or find jobs unavailable.  What is
\* left of the plan is measured.  A suite directory without its suite.json
\* makes prepare_resume raise.
Check(n) ==
    LET g == lanes[n].group
        lost == suites[n][g].dir /\ ~suites[n][g].manifest
    IN  /\ lanes[n].pc = "checking"
        /\ review' = [review EXCEPT ![n][g] = "partial"]
        /\ \/ \E gone \in SUBSET Jobs(g) \ {Jobs(g)} :
                 /\ ~lost
                 /\ IF gone = {} THEN UNCHANGED faults ELSE Fails
                 /\ lanes' = [lanes EXCEPT ![n].pc = "planned", ![n].gone = gone,
                                           ![n].plan = prepare_resume(n, g) \ gone]
                 /\ UNCHANGED <<parent, record, dirs, starts>>
           \/ Lane(n, "measured") /\ (IF lost THEN UNCHANGED faults ELSE Fails)
        /\ UNCHANGED <<queue, stale, suites, execs>>

\* The executor takes the lease of its node (acquire_node_lock) and makes the
\* directory.
StartExecutor(n) ==
    /\ lanes[n].pc = "planned" /\ execs[n] = Off /\ Lane(n, "run")
    /\ execs' = [execs EXCEPT ![n] = [lanes[n] EXCEPT !.pc = "made"]]
    /\ suites' = [suites EXCEPT ![n][lanes[n].group].dir = TRUE]
    /\ UNCHANGED <<queue, review, stale, faults>>

\* The jobs the executor's copy of the plan has as successful.
Successful(x) == Jobs(x.group) \ (x.plan \cup x.gone)
Orphan(n) == lanes[n].pc # "run"

\* execute_plan: suite.json, then the jobs in order.
WriteManifest(n) ==
    /\ execs[n].pc = "made"
    /\ execs' = [execs EXCEPT ![n].pc = "jobs"]
    /\ suites' = [suites EXCEPT ![n][execs[n].group] =
                     [dir |-> TRUE, manifest |-> TRUE, ok |-> Successful(execs[n]),
                      late |-> @.late \cap Successful(execs[n])]]
    /\ UNCHANGED <<parent, record, dirs, queue, review, stale, lanes, starts, faults>>

\* The executor is done: its lane hears of it, or nobody.
ExecutorEnds(n, result) == execs' = [execs EXCEPT ![n] = IF Orphan(n) THEN Off ELSE [@ EXCEPT !.pc = result]]

\* execute_review_job and the rewriting of suite.json; a job that fails, in
\* the measurement or in its staging cleanup, leaves the later ones not run.
RunJob(n) ==
    LET x == execs[n]
        j == Min(x.plan)
        rest == [x EXCEPT !.plan = @ \ {j}]
    IN  /\ x.pc = "jobs"
        /\ \/ /\ x.plan # {}
              /\ execs' = [execs EXCEPT ![n] = rest]
              /\ suites' = [suites EXCEPT ![n][x.group].ok = Successful(rest),
                                          ![n][x.group].late = IF Orphan(n) THEN @ \cup {j} ELSE @ \ {j}]
              /\ UNCHANGED faults
           \/ x.plan # {} /\ ExecutorEnds(n, "failed") /\ Fails /\ UNCHANGED suites
           \/ x.plan = {} /\ ExecutorEnds(n, "ok") /\ UNCHANGED <<suites, faults>>
        /\ UNCHANGED <<parent, record, dirs, queue, review, stale, lanes, starts>>

Executor(n) == WriteManifest(n) \/ RunJob(n)

\* The row is saved in review.json before the queue hears of it.  It is ok
\* if the whole plan was available and measured.
Measured(n) ==
    /\ lanes[n].pc = "run" /\ execs[n].pc \in {"ok", "failed"} /\ Lane(n, "measured")
    /\ review' = [review EXCEPT ![n][lanes[n].group] =
          IF execs[n].pc = "ok" /\ lanes[n].gone = {} THEN "ok" ELSE @]
    /\ execs' = [execs EXCEPT ![n] = Off]
    /\ UNCHANGED <<queue, stale, suites, faults>>

\* Closing the Cube context fails, which takes the row back.
CloseFails(n) ==
    /\ lanes[n].pc = "measured" /\ lanes[n].group \in Cube /\ Fails
    /\ review' = [review EXCEPT ![n][lanes[n].group] = "partial"]
    /\ UNCHANGED <<parent, record, dirs, queue, stale, suites, lanes, execs, starts>>

\* WorkQueue.finish; a lane whose group failed returns 1.
Finish(n) ==
    LET g == lanes[n].group
        ok == review[n][g] = "ok"
    IN  /\ lanes[n].pc = "measured"
        /\ IF queue[g] = [status |-> "running", node |-> n]
           THEN /\ queue' = [queue EXCEPT ![g].status = IF ok THEN "ok" ELSE "failed"]
                /\ lanes' = [lanes EXCEPT ![n] = At(IF ok THEN "claim" ELSE "failed")]
           ELSE UNCHANGED queue /\ lanes' = [lanes EXCEPT ![n] = At("failed")]
        /\ UNCHANGED <<parent, record, dirs, starts>>
        /\ UNCHANGED <<review, stale, suites, execs, faults>>

\* The lane's own analysis and comparison.  A lane without one successful
\* job has failed, even if there was nothing left for it to do.
Analyze(n) ==
    /\ lanes[n].pc = "analyze"
    /\ \/ /\ Lane(n, IF \E g \in Groups : review[n][g] = "ok" THEN "ok" ELSE "failed")
          /\ UNCHANGED faults
       \/ Lane(n, "failed") /\ Fails
    /\ UNCHANGED <<queue, review, stale, suites, execs>>

LaneStep(n) ==
    \/ Boot(n) \/ Save(n) \/ Claim(n) \/ Check(n) \/ StartExecutor(n)
    \/ Measured(n) \/ CloseFails(n) \/ Finish(n) \/ Analyze(n)

-----------------------------------------------------------------------------
(* Faults from outside.                                                    *)

\* SIGTERM or SIGHUP to the campaign process.  During recovery nothing has
\* been saved yet; later launch_lanes stops the lanes.
Interrupt ==
    /\ Fails /\ parent.pc \in {"recover", "poll"}
    /\ parent' = [parent EXCEPT !.pc = IF @ = "recover" THEN "out" ELSE "stop", !.interrupted = TRUE]
    /\ UNCHANGED <<files, lanes, execs, starts>>

\* SIGKILL of the campaign process: the lanes are sessions of their own.
ParentKilled ==
    /\ Fails /\ parent.pc # "out"
    /\ parent' = [parent EXCEPT !.pc = "out"]
    /\ UNCHANGED <<files, lanes, execs, starts>>

\* SIGKILL of a lane, or an error it does not survive: its claim and its
\* executor stay.  (One that still waits for the node's lease is dropped.)
LaneKilled(n) ==
    /\ Fails /\ Alive(n)
    /\ lanes' = [lanes EXCEPT ![n] = At("failed")]
    /\ execs' = [execs EXCEPT ![n] = Outlives(n)]
    /\ UNCHANGED <<parent, files, starts>>

\* The host goes down, or the service unit is killed with all its processes.
Crash ==
    /\ Fails /\ ~(LeaseFree /\ \A n \in Nodes : execs[n] = Off)
    /\ parent' = [parent EXCEPT !.pc = "out"]
    /\ lanes' = [n \in Nodes |-> Off] /\ execs' = lanes'
    /\ UNCHANGED <<files, starts>>

Next ==
    /\ \/ Parent
       \/ \E n \in Nodes : LaneStep(n) \/ Executor(n) \/ LaneKilled(n)
       \/ Interrupt \/ ParentKilled \/ Crash
    /\ UNCHANGED campaign

Spec == Init /\ [][Next]_<<campaign, vars>>

\* A started process goes on; nobody has to start the command again.
FairSpec ==
    /\ Spec
    /\ WF_vars(Launch \/ Poll \/ Stopped \/ Collect)
    /\ \A n \in Nodes : WF_vars(LaneStep(n)) /\ WF_vars(Executor(n)) /\ WF_vars(StopLane(n))

-----------------------------------------------------------------------------
(* Properties.                                                             *)

\* The lanes and the queue file agree, over crashes and resumed attempts: a
\* lane that measures a group holds its running claim and no other (finish
\* and claim never raise), and two lanes never use the shared service
\* backend at once; not even when lanes outlive their campaign and the
\* command is started again, which rebuilds the queue.
ClaimsExclusive ==
    /\ \A n \in Nodes : Alive(n) =>
          {g \in Groups : queue[g] = [status |-> "running", node |-> n]} =
             {lanes[n].group} \ {NoGroup}
    /\ \A n, o \in Nodes :
          Alive(n) /\ Alive(o) /\ {lanes[n].group, lanes[o].group} \subseteq campaign.service
          => n = o

\* Jobs of a group whose record the executor at work may rewrite: those the
\* input probe of its attempt found unavailable, and those an executor that had
\* outlived its lane recorded after the plan was made.
Excused(n, g) ==
    IF execs[n].group = g THEN execs[n].gone \cup (suites[n][g].late \cap execs[n].plan) ELSE {}

\* A job that suite.json records as successful is never measured again or
\* forgotten, whatever is interrupted and however often the run is resumed,
\* with the two exceptions of Excused.
CompletedKept ==
    [][\A n \in Nodes, g \in Groups :
          suites[n][g].ok \ suites'[n][g].ok \subseteq Excused(n, g)]_vars

\* "later resumes in the same directory, reusing verified results" (README.md:528).
\* The code does not keep this without the exceptions of CompletedKept.
CompletedAlwaysKept ==
    [][\A n \in Nodes, g \in Groups : suites[n][g].ok \subseteq suites'[n][g].ok]_vars

\* What is on disk agrees wherever it is relied on.  The campaign reports ok
\* only if every experiment was measured to its last job in one lane, and the
\* queue of that attempt says so too; and recover_groups accepts whatever an
\* earlier attempt can leave behind: no experiment in two lanes' coverage, no
\* ok row without its complete suite.
RecordsAgree ==
    /\ record.status = "ok" =>
          \A g \in Groups : \E n \in Nodes :
             Complete(n, g) /\ queue[g] = [status |-> "ok", node |-> n]
    /\ parent.pc = "recover" => Recoverable

\* The lanes end: none waits forever for the service or for a group that is
\* bound to another node.  The one exception is a lane that died with its
\* service claim when no campaign process is left to stop its peer, which
\* then polls the queue forever (cpu_work_queue.py:130).
LanesEnd ==
    (\E n \in Nodes : Alive(n)) ~>
        \/ \A n \in Nodes : ~Alive(n)
        \/ parent.pc = "out" /\ \E g \in campaign.service : queue[g].status = "running" /\ ~Alive(queue[g].node)

\* README.md, "Resume and troubleshoot": a run that was stopped continues
\* with --resume; a run that has its review.json is never refused.  The code
\* does not keep this: a resume that is interrupted while it recovers the
\* groups has made the history directory that the next one insists on making.
ResumeAccepted == record.status = "refused" => record.attempt = 0

\* "Partial groups keep their original node": no group has jobs measured on
\* two nodes.  The code does not keep this: a resumed lane begins its
\* review.json anew, and one that dies before it comes to the group again has
\* lost that the group is its own.
PartialKeepsNode ==
    \A g \in Groups : Cardinality({n \in Nodes : suites[n][g].ok # {}}) =< 1
=============================================================================
