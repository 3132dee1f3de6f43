# TLA+ specifications of DeltaBox

DeltaBox checkpoints, restores and branches the sandbox of a software agent, so
that a tree search can return to any earlier node. A checkpoint has two halves:
the files (a layer switch of a patched OverlayFS) and the processes (a CRIU
image, and a SIGSTOPped *warm template* that can be forked again). These modules
model how the halves and the threads, processes and channels around them work
together, the searches and the replay that use them, and the harness that runs
the artifact's experiments over shared services. TLC checks them on small
instances; TLAPS proves the safety of the asynchronous checkpoint for every
instance.

## The system

| Part | Source | State | Operations | What makes it hard | Module |
|---|---|---|---|---|---|
| Asynchronous checkpoint | `backends/deltabox/gsd/async_checkpoint.py` | registry entries, dump futures, permits, writers, images | checkpoint, dump worker, disposal, drain | controller thread and dump worker interleave; dumps fail, time out, or leave a writer behind | AsyncCheckpoint |
| Controller | `gsd/sandbox_controller.py` | registry, active PID, namespace init, template pool | checkpoint, restore (warm, cold), collection, shutdown | a restore must not kill what a dump reads; a failed warm fork falls back to an image | AsyncCheckpoint, TemplateFork, OverlayLayers, GuestReplay |
| Lazy page daemons | same, 338-543 | armed daemons, readers, prestart futures | prestart, take, retire, close | prestart thread against restore, collection and shutdown | LazyPrestart |
| Template channel | `gsd/template_fork.py` | one command FIFO shared by every process, one response FIFO | fork, stash, reap, discard | no request ids; timeouts; signals against self-stops | TemplateFork |
| Overlay layers | `sandbox_controller.py`, `gsd/root_overlay.py` | mounted stack, layer lists, snapshots | sink, switch, freeze, rollback, prune | the lists must describe the mounted stack after any sequence of calls; partial failures | OverlayLayers |
| Agent worker, NPD | `agent/worker`, `agent/npd` | input buffer, pending model calls, epoch | control commands, requests and responses | state in flight across a restore | AgentWorker |
| Decoupled search | `agent/host` | tree, current node | select, restore, step, checkpoint, evaluate | host's belief against the sandbox | DecoupledSearch |
| Driver, backend, shell server | `agent/sandbox_driver.py`, `backends/deltabox/local_backend.py`, `upper/agent/shell_server.py`, `actions/` | mount, namespace, current checkpoint, FIFOs | start, checkpoint, restore, exec, shutdown | a reply that comes after its timeout; a start that fails half-way | ShellSandbox |
| Heavy search | `upper/agent/search.py`, `run_eval.py` | tree, patches, verdicts, counters | select, expand, act, gate, capture, verify, rank | patches and verdicts against the node they belong to | AgentMCTS |
| Guest agent and NPD of a replay | `replay/guest/agent.py`, `mock_npd.py`, `index_sidecar.py`, `control_channel.py` | FIFOs, epoch, pending calls, index | requests, model calls, index operations | what is in the agent is restored, what is outside is not | ReplayAgent |
| Replay | `replay/guest/trace_replay_main.py`, `lifecycle.py` | schedule, expected index, owned processes and dumps | replay loop, settle, abort | failures at every step; nothing may be left behind | GuestReplay |
| CPU campaign | `ae/repro/cpu_work_queue.py`, `ae/scripts/run_cpu_parallel.py`, `run_review.py` | queue, reviews and suites on disk | claim, run, finish, recover, resume | two lanes; kills at every step; resumed attempts | CpuQueue |
| E2B service | `ae/scripts/e2b_service_context.py`, `e2b_working_storage.py` | daemons, RAM storage, drop-ins, guard file | borrow, give back | a step or the process dies with the services changed | E2bService |
| Hosted launcher | `ae/scripts/hosted_launcher.py`, `hosted_cpu_priority.py` | leases, units, transaction and guard files | admit, yield, stop, verify, retry | reviewers against a long background run | HostedAdmission |
| Cube services | `ae/scripts/cube_control_context.py`, `cube_memory_context.py` | five nested contexts, guard file | set up, measure, undo | a cleanup that fails in the middle | CubeService |
| Private job storage | `ae/scripts/run_nvme_job.py`, `run_memory_job.py`, `owned_job_lifecycle.py`, `job_mount_namespace.py` | private mounts, adopted processes, the output | mount, launch, reap, archive, unmount, receipt | a signal handler entered again; failures with the only copy in RAM; mounts inherited from Cube | JobStorage |
| Root-overlay sandbox | `gsd/root_sandbox.py`, `upper/host` | worker PID, snapshots | launch, exec, checkpoint, restore | a second engine with its own error paths | - |

Every part, with those that are left out and why, is in `PROJECT.json` under
"components"; the places where something can go wrong that a test would hardly
reach are under "hazards", at their lines.

How they interact: a search or a replay calls the driver or the controller, which
runs on one thread. A checkpoint forks the active over the template channel,
sinks the overlay, inserts a registry entry and queues a dump. The dump worker
writes the image and disposes of the dump process. A restore joins the dumps it
needs, rolls back the root overlays, kills the active, switches the overlay and
forks a template, or restores an image through CRIU, with a page daemon if it is
lazy. The artifact's campaign runs such replays and the baselines' measurements;
on the hosted machine a launcher admits it to the services it shares.

Modules are composed where parts interact closely: `DecoupledSearch` extends
`AgentWorker`, `AgentMCTS` extends `ShellSandbox`, `GuestReplay` extends
`ReplayAgent`, `HostedAdmission` extends `E2bService`, `JobStorage` extends
`CubeService`, and `AsyncCheckpoint` implements `CheckpointStore`. Where a module
sits above another that is not composed with it, it takes over what the other
one's checks show: for `AgentMCTS` and `GuestReplay` a checkpoint captures files
and processes whole.

## The modules

### AsyncCheckpoint, CheckpointStore

`AsyncCheckpoint` is the core: the controller's call in progress (`pc`, `cid`),
the FIFO dump worker (`queue`, `wpc`, `wid`), the registry with its links, and
the processes (templates, disposable writers, namespace init, active). Memory is
a member of `Contents`.

| Actions | Code |
|---|---|
| `CheckpointCall`, `Lightweight`, `Admit`, `AdmitTimeout`, `Prepare`, `ForkDump`, `Publish`, `Abort` | `AsyncIncremental.checkpoint`, with its error paths |
| `Take`, `AwaitParent`, `DumpCommits`, `DumpFails`, `Dispose`, `Release`, `Complete` | `_run`, `_dispose` |
| `Join*`, `Drain*`, `KillActive`, `WarmFork*`, `Teardown`, `Criu*` | `restore_action`, `drain_before_namespace_teardown` |
| `GC` | `gc_obsolete_snapshots`, `retained_ids` |
| `TemplateDies`, `WriterExitsLate` | what the kernel and the OOM killer may do |

`Abort(FALSE)` covers a writer whose exit cannot be confirmed. `GC` is one step
since only the controller changes the registry. `CriuFails` also stands for an
activation that fails after CRIU. Processes that appear after a timed-out fork
are the subject of `TemplateFork`, not of this module.

`CheckpointStore` is the abstract specification, what `common/backend.py`
promises: a restore brings back exactly the saved state or fails, perhaps losing
the running sandbox, never a saved state. `ImplementsStore` is the refinement.

### LazyPrestart

The controller and the prestart thread share armed daemons under a lock. Actions
are the critical sections of `sandbox_controller.py` 338-543 and the steps of
the restore, collection and shutdown around them.

### TemplateFork

Processes inherit the read end of one command FIFO and stop themselves after
answering. A process has a position, a pending signal state and the snapshot it
was forked at. The host writes a command, wakes one process and waits for a
response with a timeout.

- The kernel drops a SIGSTOP that PID 1 sends to itself, which is why the host
  stops the namespace init.
- `Modes` are the assumptions on timing, one of which a behaviour starts with.
  `prompt`: a process gets to its own SIGSTOP before the next request; the legacy
  path does not wait for the stop. `late`, `lates`: which requests may be
  answered after their timeout, and how often. A bootstrap fork that happens
  late is excluded: it leaves two actives.
- Chunked reads of the FIFO are one line: `CommandsReach` shows there is never
  more than one in it.
- Reaps are taken in any order; the code sorts them.
- A failed warm restore is final here. The fallback is in `AsyncCheckpoint`.

### AgentWorker, DecoupledSearch

`AgentWorker` has the worker's event loop, its FIFOs and the NPD files with the
epoch filter. `DecoupledSearch` extends it with `run_decoupled`: the host, the
driver's checkpoint and restore, UCT with values in hundredths. The exploration
term is a table, rounded, for up to four visits. NPD disk errors are left out.
`verify_cmd` is any command, run in the live sandbox after the checkpoint: it may
change files (`dirty` names the node). The next step then starts from a restore,
but the final patch of the node the search stopped at may have its changes in it.

### OverlayLayers

Directories of an overlay are numbers; for each file a directory holds a
content, a whiteout or nothing. `upper` and `lower` are the kernel's mount,
`current_upper`, `lower_chain`, `snapshots` and `registry` the controller's
books. `View` is the lookup of OverlayFS. For a checkpoint the kernel puts the
old upper on the chain by itself; for a restore it mounts the given chain: this
is modelled from the comment and the use at `sandbox_controller.py` 2116-2135.
`name` tells which directories of /testbed the collector may remove.

| Actions | Code |
|---|---|
| `SinkDirty`, `SinkClean`, `SinkFails` | phase 2 of `_checkpoint_legacy` |
| `FreezeRoot`, `RollbackRoot` | `RootOverlay.checkpoint`, `.restore`, one per covered directory |
| `Register` | the registry insert, and `LocalBackend._cur_id` |
| `Restore`, `Kill`, `RestoreSwitch`, `SwitchFails` | `restore_action` |
| `GC` | `gc_obsolete_snapshots` |

A lightweight checkpoint is taken only after reads (`node_strategy`). A failed
call ends the run, as in every driver. Processes of the active may write until a
restore kills them: a write to a covered directory after its rollback survives
the restore, so `FilesFaithful` speaks of the overlays not written to since
(`written` and `taken` are history variables). An id is used once.

### ShellSandbox, AgentMCTS

`ShellSandbox` is one sandbox of the live agent: driver (`sandbox`), live files,
session and worker (`box`), the two FIFOs, the backend's reader (`host`) and the
checkpoints. A restore rewinds `box`, not the FIFOs.

| Actions | Code |
|---|---|
| `MountOverlay`, `LaunchShellServer`, `BuildController`, `StartFails`, `Shutdown` | `SandboxDriver.start`, `.shutdown` |
| `WorkerReads`, `WorkerReplies` | the loop of `shell_server.py`, `do_bash`, `do_python` |
| `Send`, `Receive`, `GiveUp` | `LocalDeltaBoxBackend._roundtrip_sync` |
| `Checkpoint`, `Restore`, `OperationFails` | backend and driver, with the parent id each of them keeps |

Tests run in a child of the shell server (`bash -lc`): they may write files
(`test_writes`), but cannot move the session's directory or variables. A node
whose own verification wrote files after its patch was captured (`wrote`) has a
patch that is not of its checkpoint, and `RecordsOfNode` leaves it out. A set-up
that fails ends `run_one` before its `try` (`pc = "failed"`): what was started
until then is not torn down, and `SearchEnds` says so.

`AgentMCTS` is `run_one` and `AgentMCTS.run` over it. An iteration selects
(`Select`: the recovery rules in their order, then the library's selector, which
may pick any node with room), restores (`RestoreSelected`), lets the agent act on
a child (`Expand`, `ActOnHost`, `ActInWorker`, `Observe`), captures and verifies
the patch (`AfterAction`, `Verified`, `Recapture`), checkpoints
(`CheckpointChild`) and counts (`EndIteration`, `SearchOver`). `Export` verifies
and ranks the candidates, `Teardown` ends the run. The counters and flags that
steer the search are in `s`; every threshold of the code is a constant, so that
small values reach every rule. The model's choice of an action is
nondeterministic; prompts are left out. An edit deletes no exported file: what
becomes of deletions is OverlayLayers' subject.

### ReplayAgent, GuestReplay

`ReplayAgent` has the agent process (`agent`: epoch seen, unread frames, request
in progress, pending calls, index), which a checkpoint captures, and what stays
outside: FIFOs, `AgentProbe`'s descriptors (`channel`), the mock NPD, the index
sidecar and the epoch file. A file's contents are the events that wrote it, in
order, so that a write of a wrong branch, a lost one and a repeated one show.

`GuestReplay` is `run_replay`. An event of the schedule is a list of calls
(`todo`): `Issue`, `Connect`, `Send`, `Receive`, `BrokenPipe` are one call of
`AgentProbe` with its reopening after a restore; `Checkpoint`, `RestoreWarm`,
`RestoreCold`, `BumpEpoch`, `InvalidateInflight`, `RestoreReturns` the
controller's part; `DumpStarts`, `DumpEnds` the pool; `AbortDumps`,
`SettleDumps`, `ExitNamespaces`, `ExitStack` the end through `ReplayResources`.
`opt` holds the profile: sidecar or index in the agent, message probe, active
worker, reopening of FIFOs, warm templates, collection. `run_replay` ends the
loop when a call fails, except for the index snapshot of the sidecar, which it
replaces by a rebuild (`Failed`). With `carry_on` the client instead goes on with
its next call, as the tests of the channel do and the epochs are meant to survive;
it is checked with cold restores only. With warm ones a frame it left behind can be
read before the epoch moves, and `LiveIsOfPath` does not hold for it.

`owned` tells apart the namespaces that are alive, those the controller learned of
(`published`) and those a pidfd pins, which alone can be killed. `PidfileUnread`
is a restore whose pid file is unreadable: nobody learns of the namespace; where
the code only warns, the model has this in the last event, since it does not
follow a controller with a stale PID. Every wait of `ReplayResources` is bounded:
what outlives its SIGKILL (`Slow`, `Stuck`) is left, and fails the replay.

### CpuQueue

A campaign process and a lane per NUMA node. What is on disk (`queue`, `review`,
`suites`, `record`, `dirs`) survives; everything else goes with its process.

| Actions | Code |
|---|---|
| `Start`, `Launch`, `Poll`, `StopLane`, `Stopped`, `Collect` | `run_cpu_parallel.run`, `recover_groups`, `launch_lanes`, `WorkQueue.initialize` |
| `Boot`, `Save`, `Claim`, `CloseFails`, `Finish`, `Analyze` | `run_locked_selection`, `Review.run`, `WorkQueue.claim`, `.finish` |
| `Check`, `StartExecutor`, `Measured` | `run_experiment`, `prepare_resume` |
| `WriteManifest`, `RunJob` | `execute_plan`, in a process of its own |
| `Interrupt`, `ParentKilled`, `LaneKilled`, `Crash` | signals and power |

The executor holds the lease of its node and is a session of its own: one whose
lane is killed goes on and records jobs nobody planned for (`late`). The input
probe of an attempt may find jobs unavailable (`gone`); the group is then partial,
and the manifest it writes has them as unmeasured. These are the two exceptions of
`CompletedKept`. `ClaimsExclusive` is about lanes: an executor that outlived its
lane may still use the service when the next attempt claims it. `LanesEnd` excepts
a lane that died with its service claim when no campaign process is left to stop
its peer: the peer polls the queue forever.

### E2bService, HostedAdmission

`E2bService` is `service_placement` in steps: stop, stage, place, start, measure,
and in `finally` check, halt, unstage, unplace, restart, verify. A failure before
the storage is released ends the restoration with everything kept (`Retain`); a
later one is recorded and the next operation tried. A step that fails may have had
its effect. `Abandon` is the process being killed.

`HostedAdmission` adds launchers and systemd units. Leases are held by processes,
so they follow from a unit's and a launcher's `pc`. `Starts`, `Lock`, `Admit`,
`Refuse`, `Borrow`, `Transact`, `Finish`, `Interrupted`, `Gone` are a unit
(`hosted_cpu_service`, the runner, `assert_backend_recovery`); `Submit`, `Stop`,
`Yield`, `UnitEnded`, `StopFails` are `run_cpu_service`; `Probe`,
`begin_background_transaction`, `VerifyBackground`,
`finish_background_transaction` are `run_background_cpu`; `Arrive` and `Campaign`
are a reviewer's launcher.

### CubeService

The five nested contexts of `managed_memory_service`, each an operator of its
own (`quiesce_webui`, `mysql_launcher`, `placement`, `memory_service`,
`ram_database`) that says what its steps do to the services. `SetUp` takes the
steps outermost first; `Leave`, `Undo`, `Undone` undo them inside out under the
recovery file. A step may fail without, with a part of, or with all of its effect
(`Partly`); the process may be killed anywhere. The loop device of the RAM volume
goes only with its last mount (`held`, `Waits`: `wait_loop_release`); until then
it is `detaching`. `rebuild` is the restart of MySQL when its masks were
inherited. `unsaid` records that a recovery file could not be written, after
which an outer context restores what an inner one still uses; the properties say
where they except this. `MarkedOrRefused` is about a file being there for whoever
looks: an operation has a directory and a recovery file of its own and does not
read that of an earlier one. The window in which a frozen filesystem could not be
thawed again is not modelled.

### JobStorage

The two wrappers that run one producer on private storage, beside `CubeService`.
`unshare` starts a mount namespace with a copy of what Cube has mounted;
`release_inherited_cube_mounts`, `OwnedChildren`, `bind_private`, `launch`,
`start_live_reaping`, `wait` are `run`, and the steps of its `finally` are listed
in `Stages`, in another order for NVMe than for memory. NVMe goes on after a
failed unmount, memory stops at the first; `MayUnmount` and `RemovesWork` are
what must hold before storage is released. `Deliver`, `List`, `Scan`, `Scanned`,
`Cleared`, `Drain` are `reap_terminated`, cut wherever the signal can enter it
again (`reap_busy` holds in `list`, `scan` and `clear`). A SIGTERM is an error of
the `try` it falls into, or leaves the `finally` between two of them; a SIGKILL
ends the wrapper, and `NamespaceGone` takes its mounts when no process is left.
Archiving runs a `cp` child (`own.cp`), which an interruption leaves behind: the
memory wrapper reaps once more before it unmounts, the NVMe wrapper does not, so
`NothingOutlives` promises the copy's end to memory jobs only. An output that is a
link is refused.

## The runs

| Run | Instance | Shows |
|---|---|---|
| async_three | 3 checkpoints, 2 permits, one fault on record at a time | no dump source is killed, every durable image has its chain, links stay registered |
| async_faults | 2 checkpoints, any faults, fair | the inductive invariant; a restore destroys nothing before it has a target and its writers are done; refinement of `CheckpointStore`; nothing hangs |
| lazy_daemons | 2 images, 3 daemons, 1 armed, fair | no orphan daemon, no image removed under a reader or a daemon being started, calls end |
| lazy_socket | same | violation, below |
| decoupled | 4 iterations, 2 expansions, a verification that may write, fair | tree and statistics belong to the states they name; every step starts from its node's checkpoint; the final patch is of the best node, with nothing of another's verification; the search ends |
| template_channel | 5 processes, 3 snapshots, two modes of timing | one runnable reader, commands reach their addressee, templates and active keep their state |
| overlay_layers | 2 checkpoints, 4 directories, /testbed and one covered directory | every chain shows what it froze; lock-step freeze and rollback; failures in between; pruning; the captured patch |
| agent_search | 3 iterations, or 2 with a failing operation and a late reply; 2 expansions, fair | tests may write files; ids of search, backend and driver agree; recorded patches and verdicts are of their node; a verified patch wins; the run ends, torn down unless its set-up failed |
| guest_replay | schedules of 6 events with branches and with lightweight nodes, 4 profiles, up to 3 faults, fair | files and index are those of the path; no failure without a fault; nothing in flight over a restore; nothing left at the end but an unread namespace and what outlived its wait; it ends |
| cpu_queue | 2 lanes, 2 groups: both on the service with 2 and 1 jobs and 3 attempts, or one on it with 1 job each and 2 attempts; 2 faults, fair | claims are exclusive, ok means measured and an attempt can be recovered, measured jobs are kept and lanes end, each with the exceptions above |
| hosted | background and 2 reviewers, 1 resume, 1 fault, fair | changed services are guarded, storage stays under running daemons, runs exclude each other, a run is resumed or probed again only over services as they were found, a reviewer gets an end |
| private_storage | 2 Cube operations with 3 faults; 1 beside an NVMe job with 1; NVMe and memory jobs with 2 adopted processes and 2 faults | Cube: private storage is held while used, by a loop device too, kept whole after a failure, and marked if the file could be written. Jobs: the output is never only on storage that is released; no zombie, process, copy or mount outlives its use |

The violation is a line of the repository that the code does not keep (quoted
under "findings"): in lazy_socket the durable-image callback runs after a restore
has started its own daemon, and a second one binds the same socket.

### Observed disagreements

These definitions state a line of the repository that the code does not keep.
They are in their modules, and no run checks them; TLC finds a behaviour against
each in the instance named.

| Definition | Line | What happens |
|---|---|---|
| `TeardownAfterEveryWriter` (MCAsyncFaults, `MaxPending = 1`, `FORCE_CRIU_RESTORE = TRUE`) | `replay/diagnostics/lineage/architecture.md:56` | collecting an entry hides from the drain a writer whose cleanup failed; the teardown goes past it |
| `SelectExhausts` (MCDecoupledSearch) | `agent/host/decoupled_mcts.py:69` | UCT ends the search at a finished leaf with expandable nodes left |
| `PatchOfCheckpoint` (MCDecoupledSearch) | `agent/host/decoupled_mcts.py:263` | the search stops at the best node, whose verification has changed files, and takes its patch without restoring it |
| `NoRace` (MCTemplateFork) | `gsd/template_fork.py:24` | a reap that times out leaves a second runnable reader |
| `PatchOfDeleted` (MCOverlayLayers) | `upper/agent/search.py:895` | a deleted file stays in the physical patch |
| `AnswerIsOfRequest` (MCAgentMCTS) | `backends/deltabox/local_backend.py:92` | after a timeout every later reply is of the request before |
| `FailedPatchLoses` (MCAgentMCTS) | the ranking's comment in `upper/agent/run_eval.py` | of two nodes with one patch only one is verified; the other keeps the failed patch in the race |
| `NothingLeftUnsaid` (MCGuestReplay) | `replay/guest/lifecycle.py:1` | after an unreadable pid file a replay ends without an error and leaves the restored namespace |
| `CompletedAlwaysKept` (MCCpuQueue) | `README.md:528` | a resume that finds a measured job's input unavailable writes a manifest without it; a plan made before a left-over executor recorded a job has it measured again |
| `ResumeAccepted` (MCCpuQueue) | `README.md:481` | a resume interrupted while it recovers has made the directory the next one insists on making |
| `PartialKeepsNode` (MCCpuQueue) | `ae/repro/cpu_work_queue.py:45` | a resumed lane that dies early forgets that a group was its own |
| `AlarmMeansFailure` (MCHostedAdmission, `Spec`) | `ae/scripts/hosted_launcher.py:757` | a check that meets another run's live guard raises the persistent alarm |
| `MarkedAlways` (MCJobStorage) | `ae/scripts/cube_control_context.py:331` | a signal between the look for the recovery file and its writing leaves the launcher replaced and unannounced |
| `RetainedForRecovery` (MCJobStorage) | `ae/scripts/run_memory_job.py:5` | after a failure the RAM is kept mounted in the wrapper's own namespace, and goes with the wrapper |

### Bounds

Three checkpoints give a chain with a middle, which is what parent links, pruning
and re-parenting need; two permits for them give overlap and contention. Five
processes are the init, the active, a template, one being forked and one to reap.
Four directories allow two sinks and a restore, or a restore between sinks.
`FewFaults` keeps the three-checkpoint instance small; async_faults has no such
bound. One file is enough for chains, since no step relates two files; it has two
contents in /testbed and one, or none, in the covered directory.

`AgentMCTS`: three nodes besides the root give a branch, a return and a second
branch; thresholds of one or two iterations let every recovery and stop rule fire
within them. One exported file with a failing and a passing content, and one file
a patch leaves out. `GuestReplay`: two branches and a return into the first, and
a lightweight chain that is left and entered again; two paths tell an index or a
write of one from the other. `CpuQueue`: two service groups make a lane wait, a
group beside the service lets it skip; two jobs leave a group half measured;
three attempts let a resume fail and be resumed. Three groups of two jobs, with
three attempts and two faults (5.1 million states), and three of one job were
checked once and hold as well. `HostedAdmission`: two reviewers so that a lease outlives
one of them. `CubeService`: two operations, since the second meets what the first
left. `JobStorage`: two adopted processes, so that one ends while the handler is
at the other; no step relates a job's processes to Cube, so the instance that has
both has none.

### Deadlock

TemplateFork and OverlayLayers stop when their bounds are used up or a call has
failed; GuestReplay, CpuQueue, HostedAdmission and JobStorage when the program
is over and its bound of attempts or operations is used up. Their runs do not
check deadlock; where they promise an end, a stop elsewhere would break that
promise (`ReplayEnds`, `LanesEnd`, `ReviewerServed`). The others do check it.

### Fairness

`AsyncCheckpoint`: weak fairness of the dump worker and of the controller's call;
both are threads, and each wait has a timeout. The outcome of a step (a dump that
fails) is not fair. `LazyPrestart`: the same for its two threads.
`DecoupledSearch`, `AgentMCTS`, `GuestReplay`: the host or driver, the worker, the
NPD and the dump pool are threads or processes the kernel schedules. `CpuQueue`:
a started process goes on; nobody has to start the command again, and no fault
has to happen. `HostedAdmission`: the poll is a timed loop, every process of a
unit goes on, and for a reviewer's unit strong fairness of the results lock
(flock serves its waiters) and of finishing (its queue is finite, although each
experiment borrows the service anew). That the background unit finishes is not
assumed.

## What is proved

`AsyncCheckpointSteps` and `AsyncCheckpointProofs` prove for all ids, contents,
`MaxPending` and `FORCE_CRIU_RESTORE`, from the four assumptions on the constants
in `AsyncCheckpoint`:

| Theorem | Statement |
|---|---|
| Invariance | `Spec => []IInv` |
| TypeCorrect | `Spec => []TypeOK` |
| WritersUntouched, ChainsIntact, AncestorsKept | the invariants of async_three |
| ParentsSettled, NamespaceInitStays | a running dump's parent is settled; a forked agent has its namespace init |
| SlotsAccounted, WritersStayBounded | permits are neither lost nor doubled; they bound the writers |
| TeardownIsLast | the action property `TeardownAfterWriters` |
| RestoresPrepared | what a restore relies on, `RestoreInv` |
| RestoresDestroySafely | the action property `RestoreDestroysSafely` of async_faults |
| ProtocolImplementsStore | the refinement `ImplementsStore` of `CheckpointStore` |

No invariant but the types is inductive by itself. `IInv`
(`AsyncCheckpointInv`) adds what the two threads know of each other: `CallInv`
(a call works on an unpublished id, or on a physical checkpoint), `RegistryInv`
(links stay registered; exactly the physical entries have futures), `WorkerInv`
(unfinished futures are the queued dumps and the running one; the state of each
is fixed by the worker's position), `OrderInv` (a parent is done or ahead in the
queue, so waiting for it ends), `ImageInv` (a durable image has its
predecessor), `AgentInv` (a forked agent has its init) and `WriterInv` (an
unfinished dump has its writer). The permits need a separate part, `SlotInv`,
with finite sets and cardinalities. Each part has a lemma per group of actions;
frame lemmas dispose of the actions that do not touch its variables.

The refinement needs `RestoreInv` on top: the warm template of a registered
checkpoint holds that checkpoint's memory, and past the join of a cold restore
the dump of its target is committed. `StoreSteps` states each action of the
store in terms of the mapped variables; then `Publish` is `Checkpoint`, a
lightweight call `CheckpointLight`, an accepted `RestoreCall` `Begin`, the kill
and the teardown `Lose`, a warm fork or CRIU `Restore`, every refusal and
timeout `GiveUp`, a collection `Forget`, and everything else a stutter.

Only model-checked: the liveness properties (TLAPS here has neither fairness nor
ENABLED) and everything about the other modules.

## Not modelled

Durations, logs and measurements; page contents; the kernel's side of the layer
switch; CRIU inside; the commands that mount and launch namespaces; prompts and
model answers; the semantic parser and the conversion of recorded trees to
schedules; the artifact's downloads, baselines' clients, plots, tables and
comparison; the hosted launcher's policy and path checks; `pycriu`. Of the
controller: strategy selection and predump, the walk to a usable parent image,
the restamp cache, the fixed-PID dump clone, the external restore pool and the
quiesce protocol of the template channel. Of the rest: the root-overlay sandbox
and the disk variant of the Cube context. `PROJECT.json` gives the reason for
each. Most of the repository's lines are such sequential scripts, in which no
state outlives a call and no two actors meet.
