---------------------------- MODULE ShellSandbox ----------------------------
(***************************************************************************)
(* One sandbox as the live agent uses it: the SandboxDriver that mounts    *)
(* it, launches shell_server and tears it down, the LocalDeltaBoxBackend   *)
(* that checkpoints, restores and sends requests, and the shell_server at  *)
(* the other end of the two FIFOs.                                         *)
(*                                                                         *)
(* Requests and replies carry no number in the code; `id` is a ghost that  *)
(* says which request a reply answers, and `wrote` one that says whether   *)
(* the command changed files.  The FIFOs are outside the sandbox: a        *)
(* restore rewinds the worker and its files, not what is in the pipes.     *)
(***************************************************************************)
EXTENDS Naturals, Sequences, FiniteSets

CONSTANTS
    Files,      \* paths of the repository
    Exported,   \* the paths a patch keeps (keep_path, _filter_patch_paths)
    Contents,   \* what a file may hold
    Absent,     \* the file does not exist
    base_lower, \* the repository as cloned: [Files -> Contents \cup {Absent}]
    Good,       \* the contents of exported files that pass the focused tests
    Sessions,   \* cwd, env and Python globals of the worker
    Options     \* options of a run; what its tests may write, as <<file, content>>;
                \* how many replies may be late, and how many operations of the
                \* driver may fail (bounds)

ASSUME FilesAssumption ==
    /\ Exported \subseteq Files
    /\ base_lower \in [Files -> Contents \cup {Absent}]
    /\ Good \subseteq Contents /\ Absent \notin Contents
ASSUME SessionsAssumption == 0 \in Sessions
ASSUME BoundsAssumption ==
    Options \subseteq [max_iterations : Nat \ {0}, host_verify : BOOLEAN,
                       apply_test_patch : BOOLEAN,
                       test_writes : SUBSET (Files \X Contents), late : Nat, faults : Nat]

VARIABLES
    sandbox,     \* driver: mounted, proc, ctrl; faults so far
    box,         \* the live sandbox: files, session, and the worker process
    cmd_in,      \* SHELL_CMD_IN: requests written and not yet read
    cmd_out,     \* SHELL_CMD_OUT: replies written and not yet read
    host,        \* backend: the open reader's buffer, the request awaited
    opt,         \* the options of this run
    late,        \* requests given up on
    ckpts,       \* driver._ckpts: what each checkpoint holds, and its parent
    cur          \* backend._cur_id and driver._current_ckpt_id

channelVars == <<cmd_in, cmd_out, host, late, opt>>
sandboxVars == <<sandbox, box, channelVars, ckpts, cur>>

NoRequest == [id |-> 0, op |-> "none", to |-> 0]
NoCkpt == 0

Idle == [state |-> "idle", req |-> NoRequest, buf |-> <<>>]

\* fault handling: one more operation of the driver has failed.
Faulty == sandbox.faults < opt.faults

SandboxInit ==
    /\ sandbox = [mounted |-> FALSE, proc |-> "none", owner |-> FALSE,
                  ctrl |-> FALSE, faults |-> 0]
    /\ box = [files |-> base_lower, session |-> 0, worker |-> Idle]
    /\ cmd_in = <<>> /\ cmd_out = <<>> /\ late = 0 /\ opt \in Options
    /\ host = [buf |-> <<>>, await |-> NoRequest, sent |-> 0]
    /\ ckpts = <<>> /\ cur = [backend |-> NoCkpt, driver |-> NoCkpt]

-----------------------------------------------------------------------------
(* SandboxDriver.start: mount, launch, attach.  A step that raises leaves  *)
(* what the earlier ones made.                                             *)

MountOverlay ==
    /\ ~sandbox.mounted
    /\ sandbox' = [sandbox EXCEPT !.mounted = TRUE]

\* The owner of the PID namespace may stay unknown: its pid file has 2 s to appear.
LaunchShellServer ==
    /\ sandbox.mounted /\ sandbox.proc = "none"
    /\ \E known \in {TRUE} \cup (IF Faulty THEN {FALSE} ELSE {}) :
          sandbox' = [sandbox EXCEPT !.proc = "running", !.owner = known,
                                     !.faults = IF known THEN @ ELSE @ + 1]

BuildController ==
    /\ sandbox.proc = "running" /\ ~sandbox.ctrl
    /\ sandbox' = [sandbox EXCEPT !.ctrl = TRUE]

Start == MountOverlay \/ LaunchShellServer \/ BuildController

StartFails ==
    /\ Faulty /\ ~sandbox.ctrl
    /\ sandbox' = [sandbox EXCEPT !.faults = @ + 1]

\* SandboxDriver.shutdown after ctrl.shutdown: ask the worker to exit, kill
\* the namespace, unmount.  Without a known owner it raises before the unmount.
Shutdown ==
    IF sandbox.proc = "running" /\ ~sandbox.owner
    THEN UNCHANGED sandbox
    ELSE \E unmounted \in {TRUE} \cup (IF Faulty THEN {FALSE} ELSE {}) :
            sandbox' = [sandbox EXCEPT !.proc = IF @ = "none" THEN @ ELSE "dead",
                                       !.mounted = @ /\ ~unmounted, !.ctrl = FALSE,
                                       !.faults = IF unmounted THEN @ ELSE @ + 1]

-----------------------------------------------------------------------------
(* The worker: shell_server's loop.                                        *)

\* do_bash: a command may be refused or be killed at its timeout; otherwise
\* it writes files, moves the session (cd, export), runs tests ("env": they
\* could not run) or only reads.  Tests are run by a child of the server: they
\* may write files too, and cannot move the session.
do_bash(b, req) ==
    LET done(c, out) == [files |-> c.files, session |-> c.session, out |-> out]
    IN  CASE req.op = "write" -> {done([b EXCEPT !.files = req.to], "ok"), done(b, "error")}
          [] req.op = "cd"    -> {done([b EXCEPT !.session = req.to], "ok")}
          [] req.op = "test"  ->
                LET result == IF \A f \in Exported : b.files[f] \in Good THEN "pass" ELSE "fail"
                IN  {done(c, out) : out \in {result, "env"},
                        c \in {b} \cup {[b EXCEPT !.files[w[1]] = w[2]] : w \in opt.test_writes}}
          [] req.op = "look"  -> {done(b, "ok")}

\* do_python: runs in the worker's own globals.
do_python(b, req) ==
    {[files |-> b.files, session |-> req.to, out |-> "ok"],
     [files |-> b.files, session |-> b.session, out |-> "error"]}

Outcomes(b, req) == IF req.op = "python" THEN do_python(b, req) ELSE do_bash(b, req)

\* select finds the FIFO readable; readline takes a line and buffers the rest.
WorkerReads ==
    /\ sandbox.proc = "running" /\ box.worker.state = "idle" /\ cmd_in # <<>>
    /\ LET lines == box.worker.buf \o cmd_in
       IN  box' = [box EXCEPT !.worker = [state |-> "busy", req |-> Head(lines), buf |-> Tail(lines)]]
    /\ cmd_in' = <<>>
    /\ UNCHANGED <<sandbox, cmd_out, host, late, opt, ckpts, cur>>

WorkerReplies ==
    /\ sandbox.proc = "running" /\ box.worker.state = "busy"
    /\ \E o \in Outcomes(box, box.worker.req) :
          /\ box' = [files |-> o.files, session |-> o.session,
                     worker |-> [box.worker EXCEPT !.state = "idle", !.req = NoRequest]]
          /\ cmd_out' = Append(cmd_out, [id |-> box.worker.req.id, out |-> o.out,
                                      wrote |-> o.files # box.files])
    /\ UNCHANGED <<sandbox, cmd_in, host, late, opt, ckpts, cur>>

Worker == WorkerReads \/ WorkerReplies

-----------------------------------------------------------------------------
(* LocalDeltaBoxBackend.exec_action: one request, one line back.           *)

\* _roundtrip_sync up to select.
Send(op, to) ==
    LET req == [id |-> host.sent + 1, op |-> op, to |-> to]
    IN  /\ cmd_in' = Append(cmd_in, req)
        /\ host' = [host EXCEPT !.await = req, !.sent = @ + 1]
        /\ UNCHANGED <<cmd_out, late, opt>>

Awaiting == host.await # NoRequest

\* The FIFO is readable: readline takes a line and buffers the rest.
Reply == Head(host.buf \o cmd_out)
Receive ==
    /\ Awaiting /\ cmd_out # <<>>
    /\ host' = [host EXCEPT !.await = NoRequest, !.buf = Tail(@ \o cmd_out)]
    /\ cmd_out' = <<>>
    /\ UNCHANGED <<cmd_in, late, opt>>

\* Nothing came within timeout_s + 30 s: _close_io drops the buffer and the
\* call raises.  The request stays with the worker, or in the FIFO.
GiveUp ==
    /\ Awaiting /\ cmd_out = <<>> /\ late < opt.late
    /\ host' = [host EXCEPT !.await = NoRequest, !.buf = <<>>]
    /\ late' = late + 1
    /\ UNCHANGED <<cmd_in, cmd_out, opt>>

-----------------------------------------------------------------------------
(* Checkpoint and restore of the whole sandbox (the controller's part is   *)
(* OverlayLayers, AsyncCheckpoint and TemplateFork).                       *)

\* parent_ckpt_id or self._current_ckpt_id or "root".
ParentId == IF cur.backend # NoCkpt THEN cur.backend ELSE cur.driver

Checkpoint ==
    /\ ckpts' = Append(ckpts, [box |-> box, parent |-> ParentId])
    /\ cur' = [backend |-> Len(ckpts) + 1, driver |-> Len(ckpts) + 1]
    /\ UNCHANGED <<box, channelVars, sandbox>>

\* MUTANT of Restore: the backend keeps the id of the branch it left.
RestoreKeepsBackend(id) ==
    /\ box' = ckpts[id].box
    /\ cur' = [cur EXCEPT !.driver = id]
    /\ UNCHANGED <<sandbox, channelVars, ckpts>>
Restore(id) ==
    /\ box' = ckpts[id].box
    /\ cur' = [backend |-> id, driver |-> id]
    /\ UNCHANGED <<sandbox, channelVars, ckpts>>

\* checkpoint_action or restore_action raises; neither id is assigned.
OperationFails ==
    /\ Faulty
    /\ sandbox' = [sandbox EXCEPT !.faults = @ + 1]
    /\ UNCHANGED <<box, channelVars, ckpts, cur>>
=============================================================================
