----------------------------- MODULE GuestReplay -----------------------------
(***************************************************************************)
(* A replay of a recorded search tree: run_replay walks a schedule of      *)
(* checkpoints and restores, talks to the agent through AgentProbe, calls  *)
(* the controller, and ReplayResources owns every process it starts.       *)
(*                                                                         *)
(* An event is a list of calls; `todo` holds those left of the current     *)
(* one.  A fault (a deadline, a dump, CRIU or boot step that fails) may    *)
(* hit any of them; opt.faults bounds how many do.  The controller's own    *)
(* protocols are in AsyncCheckpoint, TemplateFork and OverlayLayers: here  *)
(* a checkpoint captures the agent and the files, and a restore puts them  *)
(* back, warm (a fork of a template) or cold (CRIU, in a new namespace).   *)
(***************************************************************************)
EXTENDS ReplayAgent, SequencesExt

CONSTANTS
    Schedules,  \* the schedules replayed
    Abandoning, \* the ones of a client that gives up on calls and carries on
    Options     \* sidecar, probe, active, reopen, warm, gc, fixed (DELTABOX_FIXED_ACTIVE_PID),
                \* exact (exact-parent images), carry_on; faults in one replay (bound)

ASSUME OptionsAssumption ==
    Options \subseteq [sidecar : BOOLEAN, probe : BOOLEAN, active : BOOLEAN,
                       reopen : BOOLEAN, warm : BOOLEAN, gc : BOOLEAN,
                       fixed : BOOLEAN, exact : BOOLEAN, carry_on : BOOLEAN, faults : Nat]

VARIABLES
    schedule,  \* the events
    run,       \* _run_replay: pc, event, calls left, call in progress, last_ckpt_id
    expected,  \* runtime_index_status
    registry,  \* the controller's checkpoints, by event
    restore,   \* how far restore_action is
    pool,      \* OwnedDumpPool: closing, and the state of each submitted dump
    owned,     \* ReplayResources: processes, namespaces made, alive, pinned by a pidfd,
               \* the one ns_init_pid names; those whose pid file could not be read,
               \* and what was still there two seconds after its SIGKILL
    faults

vars == <<agentVars, schedule, run, expected, registry, restore, pool, owned, faults>>

Event == schedule[run.ev]
NoCall == [stage |-> "none", req |-> NoReq]
Faulty == faults < opt.faults

Init ==
    /\ opt \in Options /\ schedule \in (IF opt.carry_on THEN Abandoning ELSE Schedules)
    /\ AgentInit
    /\ run = [pc |-> "sidecar", ev |-> 0, todo |-> <<>>, call |-> NoCall, seq |-> 0,
              last |-> 0, status |-> NotLoaded, error |-> FALSE]
    /\ expected = <<>> /\ registry = <<>> /\ restore = "none"
    /\ pool = [closing |-> FALSE, dumps |-> <<>>]
    /\ owned = [procs |-> {}, made |-> 0, alive |-> {}, pidfds |-> {}, published |-> 0,
                unread |-> {}, late |-> {}, late_procs |-> {}]
    /\ faults = 0

-----------------------------------------------------------------------------
(* Startup: sidecar, NPD, agent in its namespace, controller.              *)

StartIndexSidecar ==
    /\ run.pc = "sidecar" /\ run' = [run EXCEPT !.pc = "npd"]
    /\ owned' = [owned EXCEPT !.procs = @ \cup (IF opt.sidecar THEN {"sidecar"} ELSE {})]
    /\ UNCHANGED <<agentVars, schedule, expected, registry, restore, pool, faults>>

StartMockNpd ==
    /\ run.pc = "npd" /\ run' = [run EXCEPT !.pc = "agent"]
    /\ owned' = [owned EXCEPT !.procs = @ \cup {"mock_npd"}]
    /\ UNCHANGED <<agentVars, schedule, expected, registry, restore, pool, faults>>

\* popen_namespace: the launcher's child is the init of namespace 1.
SpawnAgent ==
    /\ run.pc = "agent" /\ run' = [run EXCEPT !.pc = "boot"]
    /\ owned' = [owned EXCEPT !.procs = @ \cup {"launcher"}, !.made = 1, !.alive = {1}]
    /\ agent' = Booted
    /\ UNCHANGED <<opt, files, epoch, held, fifoVars, channel, npd, sidecar,
                   schedule, expected, registry, restore, pool, faults>>

\* The pid file is there: from now on the namespace is owned.  Without a
\* fixed pid the agent's own file is enough, and the other may come too late.
OwnNamespace ==
    /\ run.pc = "boot" /\ run' = [run EXCEPT !.pc = "controller"]
    /\ \E fds \in {{1}} \cup (IF opt.fixed THEN {} ELSE {{}}) :
          owned' = [owned EXCEPT !.pidfds = fds, !.published = 1]
    /\ UNCHANGED <<agentVars, schedule, expected, registry, restore, pool, faults>>

Control(ctrl, arg) == [ctrl |-> ctrl, arg |-> arg, reset |-> FALSE, fresh |-> FALSE, lw |-> FALSE]
ControlFresh(ctrl, arg) == [Control(ctrl, arg) EXCEPT !.reset = TRUE, !.fresh = TRUE]
AfterReset(c) == [c EXCEPT !.reset = TRUE]
When(cond, calls) == IF cond THEN calls ELSE <<>>

\* The first calls build the index and load the worker.
CreateController ==
    /\ run.pc = "controller"
    /\ run' = [run EXCEPT !.pc = "calls",
                          !.todo = <<Control("worker_index_build", 0)>>
                                   \o When(opt.active, <<Control("active_worker_load", 0)>>)]
    /\ UNCHANGED <<agentVars, schedule, expected, registry, restore, pool, owned, faults>>

\* A process exits, a deadline passes, a constructor raises.
BootFails ==
    /\ run.pc \in {"npd", "agent", "boot", "controller"} /\ Faulty
    /\ run' = [run EXCEPT !.pc = "exit", !.error = TRUE]
    /\ faults' = faults + 1
    /\ UNCHANGED <<agentVars, schedule, expected, registry, restore, pool, owned>>

-----------------------------------------------------------------------------
(* The calls of an event.                                                  *)

CheckpointCalls(ev, e) ==
    When(opt.probe, <<Control("messages", 0)>>)
    \o <<Control("worker_exec", ev.op)>>
    \o When(opt.active, <<ControlFresh("active_worker_status", 0)>>)
    \o <<ControlFresh("worker_index_status", 0), Control("checkpoint", 0)>>
    \o When(opt.sidecar, <<Control("worker_index_snapshot", e)>>)

Calls(e) == IF schedule[e].kind = "ckpt" THEN CheckpointCalls(schedule[e], e)
            ELSE <<Control("restore", 0)>>

\* MUTANT of LightweightCalls: only the node's own command is replayed.
LightweightCallsLast(cmds) ==
    [i \in 1 .. (IF cmds = <<>> THEN 0 ELSE 1) |->
        [Control("worker_exec", Last(cmds)) EXCEPT !.lw = TRUE, !.reset = TRUE]]
\* replay_lightweight_worker_ops.
LightweightCalls(cmds) ==
    [i \in 1..Len(cmds) |-> [Control("worker_exec", cmds[i]) EXCEPT !.lw = TRUE, !.reset = i = 1]]

AfterRestore(target) ==
    When(opt.sidecar, <<AfterReset(Control("worker_index_restore_snapshot", target))>>)
    \o LightweightCalls(registry[target].cmds)
    \o When(opt.probe, <<AfterReset(Control("messages", 0))>>)
    \o When(opt.active, <<ControlFresh("active_worker_status", 0)>>)
    \o <<ControlFresh("worker_index_status", 0)>>

\* MUTANT of ReadyCalls: the cold path trusts the FIFO like the warm one.
ReadyCallsNone(path) == <<>>
\* restore_with_ready: a cold restore ends with a handshake.
ReadyCalls(path) == When(path = "cold", <<ControlFresh("replay_ready", 0)>>)

\* An exception in an event is recorded and ends the loop; before the loop it
\* leaves run_replay.
Raised == [run EXCEPT !.todo = <<>>, !.call = NoCall, !.error = TRUE,
                      !.pc = IF run.ev = 0 THEN "exit" ELSE @]

\* An answer was refused.  run_replay raises; with carry_on the client is one
\* that goes on with its next call, like the tests of the channel.
Rejected == IF opt.carry_on /\ run.ev > 0
            THEN [run EXCEPT !.todo = Tail(@), !.call = NoCall] ELSE Raised

\* _rebuild_sidecar_index_after_restore, instead of the call.
Rebuilding == [run EXCEPT !.todo = <<AfterReset(Control("worker_index_build", 0))>> \o Tail(@),
                          !.call = NoCall]

\* A call got no answer: only a sidecar snapshot is replaced, by a rebuild.
Failed == IF Head(run.todo).ctrl = "worker_index_restore_snapshot" THEN Rebuilding ELSE Rejected

-----------------------------------------------------------------------------
(* AgentProbe.                                                             *)

Closed == [in |-> FALSE, out |-> FALSE, buf |-> <<>>]
OnChannel == run.todo # <<>> /\ Head(run.todo).ctrl \notin {"checkpoint", "restore"}

\* control, control_fresh, request: number the request and stamp its epoch.
Issue ==
    /\ run.pc = "calls" /\ OnChannel /\ run.call.stage = "none"
    /\ LET c == Head(run.todo)
       IN  /\ run' = [run EXCEPT !.seq = @ + 1,
                        !.call = [stage |-> "connect",
                                  req |-> [ctrl |-> c.ctrl, arg |-> c.arg, id |-> run.seq + 1, epoch |-> epoch]]]
           /\ channel' = IF c.reset THEN Closed ELSE channel
           /\ fifo_in' = Kept(fifo_in, HasReader \/ channel'.in)
           /\ fifo_out' = Kept(fifo_out, HasReader \/ channel'.out)
    /\ UNCHANGED <<opt, files, epoch, agent, held, npd, sidecar,
                   schedule, expected, registry, restore, pool, owned, faults>>

\* _connect_until: ENXIO is retried until the FIFO has a reader.
Connect ==
    /\ run.call.stage = "connect" /\ (channel.in \/ HasReader)
    /\ run' = [run EXCEPT !.call.stage = "write"]
    /\ channel' = [channel EXCEPT !.in = TRUE, !.out = TRUE]
    /\ UNCHANGED <<opt, files, epoch, agent, held, fifoVars, npd, sidecar,
                   schedule, expected, registry, restore, pool, owned, faults>>

Send ==
    /\ run.call.stage = "write" /\ HasReader
    /\ run' = [run EXCEPT !.call.stage = "await"]
    /\ fifo_in' = Append(fifo_in, run.call.req)
    /\ UNCHANGED <<opt, files, epoch, agent, held, fifo_out, channel, npd, sidecar,
                   schedule, expected, registry, restore, pool, owned, faults>>

\* Only the idempotent handshake is sent again.
Retried(ctrl) == ctrl = "replay_ready"

\* The reader closed the FIFO after the open and before the write.
BrokenPipe ==
    /\ run.call.stage = "write" /\ ~HasReader
    /\ run' = IF Retried(run.call.req.ctrl) THEN [run EXCEPT !.call = NoCall] ELSE Failed
    /\ channel' = Closed /\ fifo_in' = <<>> /\ fifo_out' = <<>>
    /\ UNCHANGED <<opt, files, epoch, agent, held, npd, sidecar,
                   schedule, expected, registry, restore, pool, owned, faults>>

Deadline ==
    /\ run.call.stage \in {"connect", "await"} /\ Faulty
    /\ run' = Failed /\ faults' = faults + 1
    /\ channel' = Closed
    /\ fifo_in' = Kept(fifo_in, HasReader) /\ fifo_out' = Kept(fifo_out, HasReader)
    /\ UNCHANGED <<opt, files, epoch, agent, held, npd, sidecar,
                   schedule, expected, registry, restore, pool, owned>>

\* control skips what does not carry its ctrl_id and ctrl; request takes any line.
Skipped(reply) ==
    /\ run.call.req.ctrl # "messages"
    /\ <<reply.id, reply.ctrl>> # <<run.call.req.id, run.call.req.ctrl>>

\* What the caller of each request accepts.
Acceptable(reply) ==
    CASE reply.ctrl # run.call.req.ctrl -> FALSE
      [] reply.ctrl = "messages" -> reply.id = run.call.req.id
      [] reply.ctrl = "worker_exec" -> reply.ok \/ reply.result = "TimeoutExpired"
      [] reply.ctrl = "replay_ready" -> reply.result = epoch
      [] reply.ctrl \in {"active_worker_load", "active_worker_status"} -> reply.result
      [] reply.ctrl = "worker_index_restore_snapshot" -> reply.ok => reply.result # NotLoaded
      [] reply.ctrl = "worker_index_status" ->
            /\ reply.result # NotLoaded
            /\ run.ev > 0 /\ Event.kind = "restore" => reply.result = expected[Event.target]
      [] OTHER -> reply.result # NotLoaded

\* The calls left: a snapshot the sidecar lacks is rebuilt, and a test timeout
\* ends the replay of the lightweight commands.
Remaining(reply) ==
    LET rest == Tail(run.todo)
    IN  IF reply.ctrl = "worker_index_restore_snapshot" /\ ~reply.ok
        THEN Rebuilding.todo
        ELSE IF Head(run.todo).lw /\ ~reply.ok THEN SelectSeq(rest, LAMBDA c : ~c.lw)
        ELSE rest

Returned(reply) ==
    [run EXCEPT !.call = NoCall, !.todo = Remaining(reply),
                !.status = IF reply.ctrl = "worker_index_status" THEN reply.result ELSE @]

Recorded(id, index) == [i \in DOMAIN expected \cup {id} |-> IF i = id THEN index ELSE expected[i]]

Receive ==
    LET lines == IF channel.buf = <<>> THEN fifo_out ELSE channel.buf
        reply == Head(lines)
    IN  /\ run.call.stage = "await" /\ lines # <<>>
        /\ fifo_out' = IF channel.buf = <<>> THEN <<>> ELSE fifo_out
        /\ IF Skipped(reply)
           THEN channel' = [channel EXCEPT !.buf = Tail(lines)] /\ UNCHANGED <<run, expected, fifo_in>>
           ELSE /\ run' = IF Acceptable(reply) THEN Returned(reply) ELSE Rejected
                /\ channel' = IF Head(run.todo).fresh THEN Closed ELSE [channel EXCEPT !.buf = Tail(lines)]
                /\ fifo_in' = Kept(fifo_in, HasReader \/ channel'.in)
                /\ expected' = IF reply.ctrl = "worker_index_snapshot" THEN Recorded(run.ev, reply.result)
                               ELSE expected
        /\ UNCHANGED <<opt, files, epoch, agent, held, npd, sidecar,
                       schedule, registry, restore, pool, owned, faults>>

-----------------------------------------------------------------------------
(* The controller: checkpoint, restore, the dump pool, gc.                 *)

At(name) == run.pc = "calls" /\ run.todo # <<>> /\ Head(run.todo).ctrl = name
Next1 == [run EXCEPT !.todo = Tail(@)]

Entry(template) ==
    LET up == registry[run.last]
    IN  [files |-> files, agent |-> agent, parent |-> run.last, template |-> template,
         base |-> IF Event.lw THEN up.base ELSE run.ev,
         cmds |-> IF Event.lw THEN Append(up.cmds, Event.op) ELSE <<>>]

Templates(reg) == {c \in DOMAIN reg : reg[c].template}

\* A template is forked from the agent's loop; a lightweight checkpoint has
\* neither template nor dump.
Checkpoint ==
    /\ At("checkpoint") /\ restore = "none"
    /\ opt.warm => agent.req.ctrl = "none" /\ agent.open
    /\ \E template \in {FALSE} \cup (IF opt.warm /\ ~Event.lw THEN {TRUE} ELSE {}) :
          registry' = [c \in DOMAIN registry \cup {run.ev} |->
                         IF c = run.ev THEN Entry(template) ELSE registry[c]]
    /\ held' = (Templates(registry') # {})
    /\ pool' = [pool EXCEPT !.dumps = IF Event.lw THEN @
                  ELSE [c \in DOMAIN @ \cup {run.ev} |-> IF c = run.ev THEN "queued" ELSE @[c]]]
    /\ run' = [Next1 EXCEPT !.last = run.ev]
    /\ expected' = Recorded(run.ev, run.status)
    /\ UNCHANGED <<opt, files, epoch, agent, fifoVars, channel, npd, sidecar,
                   schedule, restore, owned, faults>>

CheckpointFails ==
    /\ At("checkpoint") /\ Faulty
    /\ run' = Raised /\ faults' = faults + 1
    /\ UNCHANGED <<agentVars, schedule, expected, registry, restore, pool, owned>>

Settled(c) == pool.dumps[c] \in {"done", "failed"}

\* Not checkpointed or pruned; or no image, and no template or its fork failed.
RestoreUnavailable ==
    /\ At("restore") /\ restore = "none"
    /\ \/ Event.target \notin DOMAIN registry
       \/ pool.dumps[registry[Event.target].base] = "failed"
    /\ run' = Raised
    /\ UNCHANGED <<agentVars, schedule, expected, registry, restore, pool, owned, faults>>

Base == registry[registry[Event.target].base]

\* The child runs from the captured state before the epoch moves.
RestoreWarm ==
    /\ At("restore") /\ restore = "none" /\ Event.target \in DOMAIN registry
    /\ Base.template
    /\ agent' = Base.agent /\ files' = Base.files /\ restore' = "warm"
    /\ UNCHANGED <<opt, epoch, held, fifoVars, channel, npd, sidecar,
                   schedule, run, expected, registry, pool, owned, faults>>

\* No template, or its fork failed.  The dump is joined, all writers of the
\* namespace are drained, the namespace dies with every template, and CRIU
\* makes another one.
ColdReady ==
    /\ At("restore") /\ restore = "none" /\ Event.target \in DOMAIN registry
    /\ \A c \in DOMAIN pool.dumps : Settled(c)
    /\ pool.dumps[registry[Event.target].base] = "done"

NamespaceGone ==
    /\ registry' = [c \in DOMAIN registry |-> [registry[c] EXCEPT !.template = FALSE]]
    /\ held' = FALSE
    /\ fifo_in' = Kept(fifo_in, channel.in) /\ fifo_out' = Kept(fifo_out, channel.out)

RestoreCold ==
    /\ ColdReady
    /\ NamespaceGone
    /\ agent' = [Base.agent EXCEPT !.run = ~opt.exact]
    /\ files' = Base.files /\ restore' = "criu"
    /\ owned' = [owned EXCEPT !.made = @ + 1, !.alive = (@ \ {owned.published}) \cup {owned.made + 1}]
    /\ UNCHANGED <<opt, epoch, channel, npd, sidecar, schedule, run, expected, pool, faults>>

CriuFails ==
    /\ ColdReady /\ Faulty
    /\ NamespaceGone
    /\ agent' = Dead /\ files' = Base.files
    /\ owned' = [owned EXCEPT !.alive = @ \ {owned.published}]
    /\ run' = Raised /\ faults' = faults + 1
    /\ UNCHANGED <<opt, epoch, channel, npd, sidecar, schedule, expected, restore, pool>>

\* MUTANT of Owns: the new namespace is registered only when the restore returns.
OwnsReturned(failed, new) == IF failed THEN {} ELSE new
\* The finally of restore_with_ready: whatever was published is owned.
Owns(failed, new) == new

\* CRIU's pid file is read, its pid published, and a root left stopped woken.
PublishRestored ==
    /\ restore = "criu" /\ restore' = "cold"
    /\ owned' = [owned EXCEPT !.published = owned.made]
    /\ agent' = [agent EXCEPT !.run = TRUE]
    /\ UNCHANGED <<opt, files, epoch, held, fifoVars, channel, npd, sidecar,
                   schedule, run, expected, registry, pool, faults>>

\* The pid file cannot be read, or names no namespace init: an exact-parent
\* restore raises, another only warns.  What a controller with a stale pid
\* does in later events is not followed (bound: the warning comes in the last).
PidfileUnread ==
    /\ restore = "criu" /\ Faulty
    /\ opt.exact \/ run.ev = Len(schedule)
    /\ owned' = [owned EXCEPT !.unread = {owned.made}]
    /\ faults' = faults + 1
    /\ run' = (IF opt.exact THEN Raised ELSE run)
    /\ restore' = (IF opt.exact THEN "none" ELSE "cold")
    /\ UNCHANGED <<agentVars, schedule, expected, registry, pool>>

\* SIGCONT fails after an exact-parent restore was published.
WakeFails ==
    /\ restore = "criu" /\ opt.exact /\ Faulty
    /\ owned' = [owned EXCEPT !.published = owned.made, !.pidfds = @ \cup Owns(TRUE, {owned.made})]
    /\ run' = Raised /\ restore' = "none" /\ faults' = faults + 1
    /\ UNCHANGED <<agentVars, schedule, expected, registry, pool>>

\* _bump_epoch; the warm path returns here.
BumpEpoch ==
    /\ restore \in {"warm", "cold"}
    /\ epoch' = epoch + 1
    /\ restore' = IF restore = "warm" THEN "return" ELSE "abort"
    /\ UNCHANGED <<opt, files, agent, held, fifoVars, channel, npd, sidecar,
                   schedule, run, expected, registry, pool, owned, faults>>

\* The rest of _invalidate_inflight_llm.  Without a reader the open fails.
InvalidateInflight ==
    /\ restore = "abort" /\ restore' = "published"
    /\ npd' = [npd EXCEPT !.resp = {}]
    /\ fifo_in' = IF HasReader
                  THEN Append(fifo_in, [NoReq EXCEPT !.ctrl = "abort_pending_all", !.epoch = epoch])
                  ELSE fifo_in
    /\ UNCHANGED <<opt, files, epoch, agent, held, fifo_out, channel, sidecar,
                   schedule, run, expected, registry, pool, owned, faults>>

\* restore_action returns, or raises after it published the new namespace.
RestoreReturns ==
    /\ restore \in {"return", "published"}
    /\ \E failed \in {FALSE} \cup (IF restore = "published" /\ Faulty THEN {TRUE} ELSE {}) :
          /\ owned' = [owned EXCEPT !.pidfds = @ \cup
                          IF restore = "return" THEN {}
                          ELSE Owns(failed, {owned.published} \cap owned.alive)]
          /\ faults' = IF failed THEN faults + 1 ELSE faults
          /\ run' = IF failed THEN Raised
                    ELSE [run EXCEPT !.last = Event.target,
                            !.todo = ReadyCalls(IF restore = "return" THEN "warm" ELSE "cold")
                                     \o AfterRestore(Event.target)]
    /\ restore' = "none"
    /\ UNCHANGED <<agentVars, schedule, expected, registry, pool>>

\* One worker, in the order of submission.  Once closing, a job raises
\* before it starts its command.
DumpStarts ==
    \E c \in DOMAIN pool.dumps :
       /\ pool.dumps[c] = "queued"
       /\ \A b \in DOMAIN pool.dumps : pool.dumps[b] # "running" /\ (b < c => Settled(b))
       /\ pool' = [pool EXCEPT !.dumps[c] = IF pool.closing THEN "failed" ELSE "running"]
       /\ UNCHANGED <<agentVars, schedule, run, expected, registry, restore, owned, faults>>

DumpEnds ==
    \E c \in DOMAIN pool.dumps : \E failed \in {FALSE} \cup (IF Faulty THEN {TRUE} ELSE {}) :
       /\ pool.dumps[c] = "running"
       /\ pool' = [pool EXCEPT !.dumps[c] = IF failed THEN "failed" ELSE "done"]
       /\ faults' = IF failed THEN faults + 1 ELSE faults
       /\ UNCHANGED <<agentVars, schedule, run, expected, registry, restore, owned>>

\* retained_ids: what is kept keeps its ancestors.
Kin(keep) == LET up[c \in DOMAIN registry \cup {0}] ==
                   IF c = 0 THEN {} ELSE {c} \cup up[registry[c].parent]
             IN  UNION {up[c] : c \in keep}

\* _memcurve_reachability_gc: targets of the remaining schedule, and the current one.
Reachable ==
    {schedule[e].target : e \in {n \in run.ev + 1 .. Len(schedule) : schedule[n].kind = "restore"}}
        \cup {run.last}

Pruned == IF ~opt.gc \/ run.ev = 0 THEN registry
          ELSE Restrict(registry, Kin(Reachable \cap DOMAIN registry))

-----------------------------------------------------------------------------
(* The loop, and the way out.                                              *)

\* The event is over: prune, then break, end, or go on.
EndEvent ==
    LET over == run.error \/ run.ev = Len(schedule)
    IN  /\ run.pc = "calls" /\ run.todo = <<>> /\ restore = "none"
        /\ registry' = Pruned /\ held' = (Templates(registry') # {})
        /\ run' = [run EXCEPT !.pc = IF run.error THEN "abort" ELSE IF over THEN "drain" ELSE @,
                              !.ev = IF over THEN @ ELSE @ + 1,
                              !.todo = IF over THEN <<>> ELSE Calls(run.ev + 1)]
        /\ UNCHANGED <<opt, files, epoch, agent, fifoVars, channel, npd, sidecar,
                       schedule, expected, restore, pool, owned, faults>>

\* At most one thing outlives its SIGKILL by more than the code waits for.
Slow(set) == {{}} \cup (IF Faulty THEN {{x} : x \in set} ELSE {})
Slowed(late) == IF late THEN faults + 1 ELSE faults

\* OwnedDumpPool.abort: close admission, stop the running command.  It gives
\* up on a command that does not die, and on the worker thread after 3 s.
Running == {c \in DOMAIN pool.dumps : pool.dumps[c] = "running"}
Aborted(stuck) ==
    [closing |-> TRUE,
     dumps |-> [c \in DOMAIN pool.dumps |->
                  IF c \in stuck THEN "stuck" ELSE IF c \in Running THEN "failed" ELSE pool.dumps[c]]]
Stuck == \E c \in DOMAIN pool.dumps : pool.dumps[c] = "stuck"

\* _kill_namespaces: only what a pidfd pins is killed, and waited for 2 s.
KillNamespaces(slow) ==
    LET left == owned.alive \ owned.pidfds
    IN  /\ owned' = [owned EXCEPT !.alive = left \cup slow, !.pidfds = {}, !.late = @ \cup slow]
        /\ agent' = IF owned.made \in left THEN agent ELSE Dead
        /\ held' = (held /\ left # {})
        /\ fifo_in' = Kept(fifo_in, channel.in \/ left # {})
        /\ fifo_out' = Kept(fifo_out, channel.out \/ left # {})

KillAndAbort(slow, stuck) ==
    /\ KillNamespaces(slow) /\ pool' = Aborted(stuck)
    /\ faults' = Slowed(slow \cup stuck # {})

Pinned == owned.pidfds \cap owned.alive

\* abort_dumps, after an event raised.  A command that does not die raises
\* out of run_replay.
AbortDumps ==
    /\ run.pc = "abort"
    /\ \E slow \in Slow(Pinned), stuck \in Slow(Running) :
          /\ slow = {} \/ stuck = {}
          /\ KillAndAbort(slow, stuck)
          /\ run' = [run EXCEPT !.pc = IF stuck = {} THEN "settle" ELSE "exit"]
    /\ UNCHANGED <<opt, files, epoch, channel, npd, sidecar, schedule, expected, registry, restore>>

\* shutdown(wait=True) and settle_dumps: a failed dump fails the replay.
SettleDumps ==
    /\ run.pc \in {"drain", "settle"}
    /\ \A c \in DOMAIN pool.dumps : Settled(c)
    /\ run' = [run EXCEPT !.pc = "exit",
                          !.error = @ \/ \E c \in DOMAIN pool.dumps : pool.dumps[c] = "failed"]
    /\ UNCHANGED <<agentVars, schedule, expected, registry, restore, pool, owned, faults>>

\* ReplayResources.__exit__: namespaces, then the controller's pool; what
\* goes wrong in it fails the replay.
ExitNamespaces ==
    /\ run.pc = "exit"
    /\ \E slow \in Slow(Pinned), stuck \in Slow(Running) :
          /\ slow = {} \/ stuck = {}
          /\ KillAndAbort(slow, stuck)
          /\ run' = [run EXCEPT !.pc = "stack", !.error = @ \/ slow \cup stuck # {}]
    /\ UNCHANGED <<opt, files, epoch, channel, npd, sidecar, schedule, expected, registry, restore>>

\* _stop_launcher_children: the launcher's own child is namespace 1.
LauncherChildren == IF "launcher" \in owned.procs THEN {1} \cap owned.alive ELSE {}

\* The callbacks, last registered first: the channel, the launcher's child,
\* the launcher, mock_npd, the sidecar.
ExitStack ==
    LET left == owned.alive \ LauncherChildren
    IN  /\ run.pc = "stack" /\ (Stuck \/ \A c \in DOMAIN pool.dumps : Settled(c))
        /\ \E slow \in Slow(LauncherChildren), procs \in Slow(owned.procs) :
              LET late == slow # {} \/ procs # {}
              IN  /\ slow = {} \/ procs = {}
                  /\ owned' = [owned EXCEPT !.procs = procs, !.late_procs = procs,
                                 !.alive = left \cup slow \cup (@ \cap owned.late), !.late = @ \cup slow]
                  /\ faults' = Slowed(late)
                  /\ run' = [run EXCEPT !.pc = "exited", !.error = @ \/ late]
        /\ agent' = IF owned.made \in left THEN agent ELSE Dead
        /\ channel' = Closed
        /\ UNCHANGED <<opt, files, epoch, held, fifoVars, npd, sidecar,
                       schedule, expected, registry, restore, pool>>

Boot == StartIndexSidecar \/ StartMockNpd \/ SpawnAgent \/ OwnNamespace \/ CreateController
Probe == Issue \/ Connect \/ Send \/ BrokenPipe \/ Receive
Controller ==
    \/ Checkpoint \/ RestoreUnavailable \/ RestoreWarm \/ RestoreCold
    \/ PublishRestored \/ BumpEpoch \/ InvalidateInflight \/ RestoreReturns
Loop == EndEvent \/ AbortDumps \/ SettleDumps \/ ExitNamespaces \/ ExitStack
Driver == Boot \/ Probe \/ Controller \/ Loop
Pool == DumpStarts \/ DumpEnds
Worker == AgentStep /\ UNCHANGED <<schedule, run, expected, registry, restore, pool, owned, faults>>
Npd == NpdStep /\ "mock_npd" \in owned.procs
       /\ UNCHANGED <<schedule, run, expected, registry, restore, pool, owned, faults>>
Fault == BootFails \/ Deadline \/ CheckpointFails \/ CriuFails \/ PidfileUnread \/ WakeFails

Next == Driver \/ Pool \/ Worker \/ Npd \/ Fault

Spec == Init /\ [][Next]_vars

\* The driver is one thread of one process; the agent, the NPD and the dump
\* worker are processes of their own that nothing keeps from running.
FairSpec == Spec /\ WF_vars(Driver) /\ WF_vars(Pool) /\ WF_vars(Worker) /\ WF_vars(Npd)

-----------------------------------------------------------------------------
(* Properties.                                                             *)

\* Reference: the files along the schedule's path to checkpoint e.
Before(e) == IF e = 1 THEN 0
             ELSE IF schedule[e - 1].kind = "ckpt" THEN e - 1 ELSE schedule[e - 1].target
FilesAt == LET f[e \in 0 .. Len(schedule)] ==
                 IF e = 0 THEN NoFile
                 ELSE IF schedule[e].kind = "restore" THEN f[schedule[e].target]
                 ELSE Wrote(f[Before(e)], schedule[e].op)
           IN  f

\* Between two events the testbed holds exactly the writes of the events on
\* the path to the current node, each once and in order, and the agent (or
\* the sidecar) has the index recorded for that node: whatever mix of warm,
\* cold and lightweight restores led there (run_replay's event loop).  For a
\* client that gives up on calls: no write of a branch it left, and none twice.
LiveIsOfPath ==
    (run.pc = "calls" /\ run.ev > 0 /\ run.todo = <<>> /\ ~run.error)
        => IF opt.carry_on
           THEN \A p \in Paths : /\ Range(files[p]) \subseteq Range(FilesAt[run.ev][p])
                                 /\ IsInjective(files[p])
           ELSE files = FilesAt[run.ev] /\ Index = expected[run.last]

\* A replay fails only when something failed: no reopened FIFO, stale frame,
\* late handshake, missing snapshot or pruned checkpoint makes run_replay
\* report an error by itself.
FailsOnlyByFault == run.error => faults > 0

\* No request, model call, response or notification is in flight when the
\* agent is captured or replaced, so that no answer of a branch that was left
\* can reach the agent that was put back.
NothingInFlight == ~opt.carry_on =>
    /\ \A c \in DOMAIN registry :
          /\ registry[c].agent.pending = {} /\ registry[c].agent.buf = <<>>
          /\ registry[c].agent.req.ctrl = "none"
    /\ restore # "none" => npd.queue = <<>> /\ npd.notify = <<>> /\ npd.resp = {} /\ fifo_out = <<>>

\* When run_replay has left its with block, every namespace, process and dump
\* it ever started is gone, wherever startup, a restore or an event failed.
\* Two things may be left: a restored namespace whose pid file could not be
\* read, which nobody knows of; and what did not exit within the seconds the
\* code waits after a SIGKILL, and then the replay has failed.
NothingLeft ==
    run.pc = "exited" =>
        /\ owned.alive \subseteq owned.unread \cup owned.late
        /\ owned.procs \subseteq owned.late_procs
        /\ agent.run => owned.unread # {}
        /\ Stuck \/ \A c \in DOMAIN pool.dumps : Settled(c)
        /\ Stuck \/ owned.late # {} \/ owned.late_procs # {} => run.error

\* "Own replay processes and namespaces, including partial startup/restore."
\* (lifecycle.py:1).  After an unread pid file a replay without an error leaves
\* the restored namespace behind; kept beside the code, checked by no run.
NothingLeftUnsaid == run.pc = "exited" /\ ~run.error => owned.alive = {}

\* Every replay ends, and it stops nowhere else: no call waits for an answer
\* that cannot come, also when the calls a restored agent believes in flight
\* are at its cap.
ReplayEnds == <>(run.pc = "exited")
=============================================================================
