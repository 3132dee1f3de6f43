----------------------------- MODULE JobStorage ------------------------------
(***************************************************************************)
(* One producer on private storage, beside the Cube service: the wrapper   *)
(* run_nvme_job.py (a work directory on NVMe is bound over the suite) or   *)
(* run_memory_job.py (a RAM filesystem), in a mount namespace of its own,  *)
(* with OwnedChildren, the subreaper that reaps adopted processes while    *)
(* the producer runs and all of them before storage is released.           *)
(***************************************************************************)
EXTENDS CubeService, FiniteSets

CONSTANT Kids     \* processes the wrapper adopts (bound.kids of them)

VARIABLES
    job,      \* the wrapper: mode, pc, step, exit code, the flags of run()
    mnt,      \* its private mounts
    place,    \* the producer's output
    own,      \* OwnedChildren: subreaper, producer, the SIGCHLD handler; cp: a
              \* copy of the archive that was interrupted is not reaped yet
    kids      \* adopted processes

jobVars == <<job, mnt, place, own, kids>>
vars == <<cubeVars, jobVars>>

\* The mounts, in the order they are made.
Mounts == [nvme |-> <<"archive", "suite">>, memory |-> <<"archive", "suite", "inputs">>]

\* MUTANT of Stages: nothing is reaped after the archive was copied.
StagesUnreaped ==
    [nvme |-> <<"stop", "reap", "restore", "staging", "copy", "unmount", "dirs", "receipt", "end">>,
     memory |-> <<"stop", "reap", "staging", "copy", "unmount", "reap", "restore",
                  "dirs", "receipt", "end">>]
\* The steps of `finally`.
Stages ==
    [nvme |-> <<"stop", "reap", "restore", "staging", "copy", "unmount", "dirs", "receipt", "end">>,
     memory |-> <<"stop", "reap", "staging", "copy", "reap", "unmount", "reap", "restore",
                  "dirs", "receipt", "end">>]

Init ==
    /\ CubeInit
    /\ job = [mode |-> bound.job, pc |-> "off", at |-> 1, code |-> 1, errors |-> FALSE,
              childok |-> TRUE, archok |-> TRUE, go |-> FALSE, armed |-> TRUE]
    /\ mnt = {}
    /\ place = [made |-> FALSE, kind |-> "small", staging |-> "none", work |-> FALSE,
                suite |-> "none", receipt |-> "none"]
    /\ own = [sub |-> "none", prod |-> "none", pid |-> FALSE, sig |-> FALSE, rpc |-> "idle",
              todo |-> {}, pending |-> FALSE, err |-> FALSE, cp |-> FALSE]
    /\ kids = [k \in Kids |-> "none"]

At(s) == job.pc = "finally" /\ Stages[job.mode][job.at] = s
In(s) == {k \in Kids : kids[k] = s}
Alive == own.prod = "live" \/ In("live") # {}

\* To the `finally`, from an exception.
Raised == [job EXCEPT !.pc = "finally", !.at = 1, !.code = 1]
Failed(j) == [j EXCEPT !.errors = TRUE, !.code = 1]
Next1(j) == [j EXCEPT !.at = @ + 1]

-----------------------------------------------------------------------------
(* Setting up.                                                             *)

\* A new mount namespace starts with a copy of every mount.
unshare ==
    /\ job.mode # "none" /\ job.pc = "off"
    /\ job' = [job EXCEPT !.pc = "release"] /\ held' = env.volume
    /\ UNCHANGED <<env, guard, left, unsaid, op, bound, count, faults, mnt, place, own, kids>>

\* A loop device goes with the last mount of it.
Detached == [env EXCEPT !.loop = IF @ = "detaching" THEN "none" ELSE @]

\* MUTANT of release_inherited_cube_mounts: the copies are left.
release_kept ==
    /\ job.pc = "release"
    /\ job' = [job EXCEPT !.pc = "own"]
    /\ UNCHANGED <<cubeVars, mnt, place, own, kids>>
release_inherited_cube_mounts ==
    /\ job.pc = "release"
    /\ \/ job' = [job EXCEPT !.pc = "own"] /\ held' = FALSE /\ env' = Detached /\ UNCHANGED faults
       \/ Faulty /\ job' = Raised /\ UNCHANGED <<env, held>>
    /\ UNCHANGED <<guard, left, unsaid, op, bound, count, mnt, place, own, kids>>

OwnedChildren ==
    /\ job.pc = "own"
    /\ \/ /\ job' = [job EXCEPT !.pc = "mount"] /\ own' = [own EXCEPT !.sub = "set"]
          /\ UNCHANGED faults
       \/ Faulty /\ job' = Raised /\ UNCHANGED own
    /\ UNCHANGED <<env, guard, left, unsaid, op, held, bound, count, mnt, place, kids>>

\* A mount that is seen is recorded, also when the command failed.
bind_private ==
    /\ job.pc = "mount"
    /\ LET m == Mounts[job.mode][job.at]
       IN  \/ /\ mnt' = mnt \union {m} /\ UNCHANGED faults
              /\ job' = IF job.at < Len(Mounts[job.mode]) THEN Next1(job)
                        ELSE [job EXCEPT !.pc = "launch"]
           \/ /\ Faulty /\ mnt' \in {mnt, mnt \union {m}}
              /\ job' = Raised
    /\ UNCHANGED <<env, guard, left, unsaid, op, held, bound, count, place, own, kids>>

\* Popen and register.
launch ==
    /\ job.pc = "launch"
    /\ \/ /\ job' = [job EXCEPT !.pc = "listen"] /\ own' = [own EXCEPT !.prod = "live"]
          /\ UNCHANGED faults
       \/ /\ Faulty /\ job' = Raised
          /\ own' \in {own, [own EXCEPT !.prod = "live"]}
    /\ UNCHANGED <<env, guard, left, unsaid, op, held, bound, count, mnt, place, kids>>

\* MUTANT of start_live_reaping: the handler is installed, and not called once.
start_live_reaping_later ==
    /\ job.pc = "listen"
    /\ job' = [job EXCEPT !.pc = "wait"]
    /\ own' = [own EXCEPT !.pid = TRUE, !.sig = FALSE]
    /\ UNCHANGED <<cubeVars, mnt, place, kids>>
\* "Adopted exit can precede handler installation": the handler is called once.
start_live_reaping ==
    /\ job.pc = "listen"
    /\ job' = [job EXCEPT !.pc = "wait"]
    /\ own' = [own EXCEPT !.pid = TRUE, !.sig = FALSE, !.rpc = "list"]
    /\ UNCHANGED <<cubeVars, mnt, place, kids>>

-----------------------------------------------------------------------------
(* The producer and the processes it leaves to the wrapper.                *)

\* Output that is a symbolic link is not archived.
ProducerWrites ==
    /\ own.prod = "live" /\ ~place.made
    /\ \E kind \in {"small", "big", "link"}, staging \in {"none", "whole"} :
          place' = [place EXCEPT !.made = TRUE, !.work = TRUE, !.kind = kind, !.staging = staging]
    /\ UNCHANGED <<cubeVars, job, mnt, own, kids>>

ProducerExits ==
    /\ own.prod = "live"
    /\ own' = [own EXCEPT !.prod = "zombie", !.sig = own.pid]
    /\ UNCHANGED <<cubeVars, job, mnt, place, kids>>

Adopted(k) ==
    /\ own.prod = "live" /\ own.sub = "set" /\ job.pc # "gone"
    /\ kids[k] = "none" /\ Cardinality(Kids \ In("none")) < bound.kids
    /\ kids' = [kids EXCEPT ![k] = "live"]
    /\ UNCHANGED <<cubeVars, job, mnt, place, own>>

KidExits(k) ==
    /\ kids[k] = "live"
    /\ kids' = [kids EXCEPT ![k] = "zombie"] /\ own' = [own EXCEPT !.sig = own.pid]
    /\ UNCHANGED <<cubeVars, job, mnt, place>>

-----------------------------------------------------------------------------
(* reap_terminated, the SIGCHLD handler, entered again between any two of  *)
(* its steps; reap_busy holds in the first three.                          *)

Deliver ==
    /\ own.sig /\ own.pid
    /\ own' = IF own.rpc \in {"list", "scan", "clear"}
              THEN [own EXCEPT !.sig = FALSE, !.pending = TRUE]
              ELSE [own EXCEPT !.sig = FALSE, !.rpc = "list"]
    /\ UNCHANGED <<cubeVars, job, mnt, place, kids>>

List ==
    /\ own.rpc = "list"
    /\ own' = [own EXCEPT !.rpc = "scan", !.pending = FALSE, !.todo = In("live") \union In("zombie")]
    /\ UNCHANGED <<cubeVars, job, mnt, place, kids>>

Scan(k) ==
    /\ own.rpc = "scan" /\ k \in own.todo
    /\ \/ /\ own' = [own EXCEPT !.todo = @ \ {k}] /\ UNCHANGED faults
          /\ kids' = IF kids[k] = "zombie" THEN [kids EXCEPT ![k] = "reaped"] ELSE kids
       \/ /\ Faulty /\ UNCHANGED kids
          /\ own' = [own EXCEPT !.rpc = "after", !.todo = {}, !.err = TRUE]
    /\ UNCHANGED <<env, guard, left, unsaid, op, held, bound, count, job, mnt, place>>

Scanned ==
    /\ own.rpc = "scan" /\ own.todo = {}
    /\ own' = [own EXCEPT !.rpc = IF own.pending THEN "list" ELSE "clear"]
    /\ UNCHANGED <<cubeVars, job, mnt, place, kids>>

Cleared ==
    /\ own.rpc = "clear"
    /\ own' = [own EXCEPT !.rpc = "after"]
    /\ UNCHANGED <<cubeVars, job, mnt, place, kids>>

\* MUTANT of Drain: the handler returns once busy is cleared.
DrainNot ==
    /\ own.rpc = "after"
    /\ own' = [own EXCEPT !.rpc = "idle"]
    /\ UNCHANGED <<cubeVars, job, mnt, place, kids>>
\* "Drain that deferred notification before returning."
Drain ==
    /\ own.rpc = "after"
    /\ own' = [own EXCEPT !.rpc = IF own.pending THEN "list" ELSE "idle"]
    /\ UNCHANGED <<cubeVars, job, mnt, place, kids>>

wait ==
    /\ job.pc = "wait" /\ own.rpc = "idle" /\ own.prod = "zombie"
    /\ own' = [own EXCEPT !.prod = "reaped"]
    /\ \E code \in {0, 1} : job' = [job EXCEPT !.pc = "finally", !.at = 1, !.code = code]
    /\ UNCHANGED <<cubeVars, mnt, place, kids>>

\* SIGTERM: the first is an exception, the others are ignored.  One that comes
\* between two `try` statements of the `finally` leaves it; one that comes
\* inside of them is one of their errors.
interrupted ==
    /\ job.armed /\ job.pc \notin {"off", "gone"} /\ Faulty
    /\ job' = IF job.pc = "finally" THEN [job EXCEPT !.pc = "gone", !.code = 1, !.armed = FALSE]
              ELSE [Raised EXCEPT !.armed = FALSE]
    /\ own' = [own EXCEPT !.rpc = "idle", !.todo = {},
                          !.pid = @ /\ job.pc # "finally", !.sig = @ /\ job.pc # "finally"]
    /\ UNCHANGED <<env, guard, left, unsaid, op, held, bound, count, mnt, place, kids>>

-----------------------------------------------------------------------------
(* `finally`.                                                              *)

stop_live_reaping ==
    /\ At("stop")
    /\ own' = [own EXCEPT !.pid = FALSE, !.sig = FALSE]
    /\ job' = Next1(IF own.err THEN [Failed(job) EXCEPT !.childok = FALSE] ELSE job)
    /\ UNCHANGED <<cubeVars, mnt, place, kids>>

\* cleanup: TERM, then KILL, until there is no direct child.
reap(k) ==
    /\ At("reap") /\ own.sub = "set" /\ kids[k] = "zombie"
    /\ kids' = [kids EXCEPT ![k] = "reaped"]
    /\ UNCHANGED <<cubeVars, job, mnt, place, own>>

poll ==
    /\ At("reap") /\ own.sub = "set" /\ own.prod = "zombie"
    /\ own' = [own EXCEPT !.prod = "reaped"]
    /\ UNCHANGED <<cubeVars, job, mnt, place, kids>>

\* cleanup(None) reaps it like any child; without one it just ends.
CopyEnds ==
    /\ own.cp /\ own' = [own EXCEPT !.cp = FALSE]
    /\ UNCHANGED <<cubeVars, job, mnt, place, kids>>

\* What follows a failing cleanup: restore is in the same `try`.
Skip(j) == IF Stages[j.mode][j.at + 1] = "restore" THEN [j EXCEPT !.at = @ + 2] ELSE Next1(j)

\* MUTANT of cleanup: only the producer is waited for.
cleanup_producer ==
    /\ At("reap")
    /\ own.sub = "set" => own.prod # "live" /\ own.prod # "zombie"
    /\ job' = Next1(job)
    /\ UNCHANGED <<cubeVars, mnt, place, own, kids>>
cleanup ==
    /\ At("reap")
    /\ \/ /\ own.sub = "set" => own.prod \notin {"live", "zombie"} /\ In("live") \union In("zombie") = {} /\ ~own.cp
          /\ job' = Next1(job) /\ UNCHANGED faults
       \/ /\ own.sub = "set" /\ Faulty
          /\ job' = Skip([Failed(job) EXCEPT !.childok = FALSE])
    /\ UNCHANGED <<env, guard, left, unsaid, op, held, bound, count, mnt, place, own, kids>>

\* stop_live_reaping raises again what it raised before.
restore ==
    /\ At("restore")
    /\ \/ /\ own.sub = "set" => ~own.err
          /\ own' = IF own.sub = "set" THEN [own EXCEPT !.sub = "restored"] ELSE own
          /\ job' = Next1(job) /\ UNCHANGED faults
       \/ /\ own.sub = "set" /\ IF own.err THEN UNCHANGED faults ELSE Faulty
          /\ job' = Next1([Failed(job) EXCEPT !.childok = FALSE]) /\ UNCHANGED own
    /\ UNCHANGED <<env, guard, left, unsaid, op, held, bound, count, mnt, place, kids>>

\* What there is to archive: NVMe asks for no error so far, memory for RAM
\* and no children.
Archives ==
    place.made /\ place.kind # "link" /\ IF job.mode = "nvme" THEN ~job.errors ELSE job.childok
\* The link is an error, and with it the archive of a memory job has failed.
Refused == place.made /\ place.kind = "link" /\ (job.mode = "memory" => job.childok)

cleanup_reconstructable_staging ==
    /\ At("staging")
    /\ LET j == [job EXCEPT !.go = Archives]
       IN  \/ /\ Refused /\ job' = Next1([Failed(j) EXCEPT !.archok = FALSE])
              /\ UNCHANGED <<place, faults>>
           \/ /\ ~Refused
              /\ job' = Next1(j) /\ UNCHANGED faults
              /\ place' = IF j.go /\ job.code = 0 /\ place.staging = "whole"
                          THEN [place EXCEPT !.staging = "removed"] ELSE place
           \/ /\ j.go /\ job.code = 0 /\ Faulty
              /\ job' = Next1(Failed(j))
              /\ place' \in {place, [place EXCEPT !.staging = IF @ = "whole" THEN "partial" ELSE @]}
    /\ UNCHANGED <<env, guard, left, unsaid, op, held, bound, count, mnt, own, kids>>

\* cp, which a signal may leave behind.  A failed job of more than 2 GiB stays on NVMe, with a pointer to it.
archive ==
    /\ At("copy")
    /\ \/ /\ job' = Next1(job) /\ UNCHANGED <<own, faults>>
          /\ place' = IF ~job.go THEN place
                      ELSE IF job.mode = "nvme" /\ job.code # 0 /\ place.kind = "big"
                      THEN [place EXCEPT !.suite = "pointer"] ELSE [place EXCEPT !.suite = "whole"]
       \/ /\ job.go /\ Faulty
          /\ job' = Next1([Failed(job) EXCEPT !.archok = FALSE])
          /\ place' \in {place, [place EXCEPT !.suite = "partial"]}
          /\ own' \in {own, [own EXCEPT !.cp = TRUE]}
    /\ UNCHANGED <<env, guard, left, unsaid, op, held, bound, count, mnt, kids>>

Last == CHOOSE i \in DOMAIN Mounts[job.mode] :
           Mounts[job.mode][i] \in mnt
           /\ \A h \in DOMAIN Mounts[job.mode] : Mounts[job.mode][h] \in mnt => h <= i

\* MUTANT of MayUnmount: an archive that failed does not keep RAM.
MayUnmountAlways == job.childok
MayUnmount == job.childok /\ (job.mode = "memory" => job.archok)

\* RAM goes with its mount.
Unmounted(m) == [place EXCEPT !.work = @ /\ ~(job.mode = "memory" /\ m = "suite")]

\* Innermost first.  The NVMe wrapper goes on after a failure (with the
\* other mount), memory stops.
unmount_owned ==
    /\ At("unmount")
    /\ IF ~MayUnmount \/ mnt = {}
       THEN job' = Next1(job) /\ UNCHANGED <<mnt, place, faults>>
       ELSE LET m == Mounts[job.mode][Last]
            IN  \/ /\ mnt' = mnt \ {m} /\ place' = Unmounted(m)
                   /\ UNCHANGED <<job, faults>>
                \/ /\ Faulty /\ job' = Next1(Failed(job)) /\ UNCHANGED place
                   /\ mnt' \in IF job.mode = "memory" THEN {mnt} ELSE {mnt, {m}}
    /\ UNCHANGED <<env, guard, left, unsaid, op, held, bound, count, own, kids>>

\* MUTANT of RemovesWork: the work directory goes with the archive directory.
RemovesWorkAlways == job.mode = "nvme"
RemovesWork ==
    job.mode = "nvme" /\ place.suite # "pointer" /\ (place.suite = "whole" \/ ~place.made)

\* archive.rmdir, and rmtree(work).
remove_directories ==
    /\ At("dirs")
    /\ \/ /\ job' = Next1(job) /\ UNCHANGED faults
          /\ place' = [place EXCEPT !.work = @ /\ (job.errors \/ ~RemovesWork)]
       \/ /\ ~job.errors /\ Faulty
          /\ job' = Next1(Failed(job)) /\ UNCHANGED place
    /\ UNCHANGED <<env, guard, left, unsaid, op, held, bound, count, mnt, own, kids>>

final_receipt ==
    /\ At("receipt")
    /\ LET due == place.suite \in {"whole", "pointer"} /\ mnt = {}
       IN  \/ /\ job' = Next1(job) /\ UNCHANGED faults
              /\ place' = IF ~due THEN place
                          ELSE [place EXCEPT !.receipt = IF job.errors THEN "failed" ELSE "ok"]
           \/ due /\ Faulty /\ job' = Next1(Failed(job)) /\ UNCHANGED place
    /\ UNCHANGED <<env, guard, left, unsaid, op, held, bound, count, mnt, own, kids>>

\* The wrapper returns code, or raises.
return ==
    /\ At("end")
    /\ job' = [job EXCEPT !.pc = "gone"]
    /\ UNCHANGED <<cubeVars, mnt, place, own, kids>>

JobKilled ==
    /\ job.pc \notin {"off", "gone"} /\ Faulty
    /\ job' = [job EXCEPT !.pc = "gone", !.code = 1]
    /\ own' = [own EXCEPT !.pid = FALSE, !.sig = FALSE, !.rpc = "idle", !.todo = {}]
    /\ UNCHANGED <<env, guard, left, unsaid, op, held, bound, count, mnt, place, kids>>

\* A mount namespace goes with its last process, its mounts with it.
NamespaceGone ==
    /\ job.pc = "gone" /\ ~Alive /\ ~own.cp /\ (mnt # {} \/ held)
    /\ mnt' = {} /\ held' = FALSE /\ env' = Detached
    /\ place' = IF "suite" \in mnt THEN Unmounted("suite") ELSE place
    /\ UNCHANGED <<guard, left, unsaid, op, bound, count, faults, job, own, kids>>

Next ==
    \/ CubeStep /\ UNCHANGED jobVars
    \/ unshare \/ release_inherited_cube_mounts \/ OwnedChildren \/ bind_private
    \/ launch \/ start_live_reaping \/ wait \/ interrupted
    \/ ProducerWrites \/ ProducerExits
    \/ \E k \in Kids : Adopted(k) \/ KidExits(k) \/ Scan(k) \/ reap(k)
    \/ Deliver \/ List \/ Scanned \/ Cleared \/ Drain
    \/ stop_live_reaping \/ poll \/ CopyEnds \/ cleanup \/ restore
    \/ cleanup_reconstructable_staging \/ archive \/ unmount_owned
    \/ remove_directories \/ final_receipt \/ return
    \/ JobKilled \/ NamespaceGone

Spec == Init /\ [][Next]_vars

-----------------------------------------------------------------------------

\* The measured output is never only where it is about to vanish: while the
\* wrapper lives (for NVMe, ever after) what the producer wrote is in its work
\* directory or whole in the results, and a wrapper that reports success has
\* archived it, without reconstructable copies, released its mounts and left a
\* receipt that says so.
EvidenceKept ==
    /\ place.made /\ (job.pc # "gone" \/ job.mode = "nvme") => place.work \/ place.suite = "whole"
    /\ job.pc = "gone" /\ job.code = 0 /\ place.made =>
          /\ place.suite = "whole" /\ place.receipt = "ok" /\ mnt = {}
          /\ place.staging \in {"none", "removed"}

\* What a job takes over does not outlive its use.  Of adopted processes "leaving
\* its zombie until final cleanup would block the next restore": once the handler
\* has returned and no signal is due, there is none.  Mounts are not released
\* under a process that may use them, nor RAM under an interrupted cp.  And a producer, whenever its namespace was
\* made, "must not hold Cube's loop-backed XFS alive after Cube unmounts it": no
\* loop device waits for a producer to end.
NothingOutlives ==
    /\ job.pc = "wait" /\ own.rpc = "idle" /\ ~own.sig /\ ~own.err => In("zombie") = {}
    /\ At("unmount") /\ job.childok => ~Alive /\ (job.mode = "memory" => ~own.cp)
    /\ own.sub = "restored" => ~Alive
    /\ env.loop = "detaching" => own.prod # "live"

\* The code does not keep this: "failures retain proven resources for recovery"
\* (run_memory_job.py), but the RAM filesystem is in the wrapper's own mount
\* namespace, which goes with the wrapper.
RetainedForRecovery == job.pc = "gone" /\ place.made => place.work \/ place.suite = "whole"
=============================================================================
