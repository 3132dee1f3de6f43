----------------------------- MODULE ReplayAgent -----------------------------
(***************************************************************************)
(* The process a replay checkpoints, and what stays outside it: agent.py's *)
(* loop over its FIFOs, the mock NPD that answers model calls, the index   *)
(* sidecar, and the epoch file that a restore advances.                    *)
(*                                                                         *)
(* A file's contents are the events that wrote it, in order.  The memory   *)
(* of the agent (epoch seen, unread frames, pending calls, index) is what  *)
(* a checkpoint captures; FIFOs, responses, sidecar and epoch are not.     *)
(***************************************************************************)
EXTENDS Naturals, Sequences, FiniteSets, Functions

CONSTANTS
    Paths,             \* files of the testbed
    LLM_INFLIGHT_CAP,  \* model calls the agent keeps outstanding
    NotLoaded          \* an index that was never built

ASSUME CapAssumption == LLM_INFLIGHT_CAP \in Nat \ {0}
ASSUME PathsAssumption == NotLoaded \notin [Paths -> Seq(Nat)]

VARIABLES
    opt,       \* options of this run
    files,     \* the testbed
    epoch,     \* NPD_EPOCH_FILE
    agent,     \* the live agent process
    held,      \* stopped templates keep both FIFOs open
    fifo_in,   \* PIPE_IN
    fifo_out,  \* PIPE_OUT
    channel,   \* AgentProbe: _in_fd, _out_fd, _out_buf
    npd,       \* mock_npd: requests, responses on disk, notifications
    sidecar    \* index_sidecar: tables, the current one, snapshots

fifoVars == <<fifo_in, fifo_out>>
agentVars == <<opt, files, epoch, agent, held, fifoVars, channel, npd, sidecar>>

NoReq == [ctrl |-> "none", arg |-> 0, id |-> 0, epoch |-> 0]
NoFile == [p \in Paths |-> <<>>]

Booted == [run |-> TRUE, open |-> TRUE, seen |-> 0, buf |-> <<>>, req |-> NoReq,
           now |-> 0, pending |-> {}, index |-> NotLoaded, loaded |-> FALSE]
Dead == [Booted EXCEPT !.run = FALSE, !.open = FALSE]

AgentInit ==
    /\ files = NoFile /\ epoch = 0 /\ agent = Dead /\ held = FALSE
    /\ fifo_in = <<>> /\ fifo_out = <<>>
    /\ channel = [in |-> FALSE, out |-> FALSE, buf |-> <<>>]
    /\ npd = [queue |-> <<>>, written |-> FALSE, resp |-> {}, notify |-> <<>>]
    /\ sidecar = [tables |-> <<>>, cur |-> 0, snaps |-> <<>>]

\* A FIFO keeps its contents while some process has it open.
Kept(fifo, open) == IF open THEN fifo ELSE <<>>
HasReader == (agent.run /\ agent.open) \/ held

-----------------------------------------------------------------------------
(* The index: in the agent's memory, or in the sidecar.                    *)

\* _cow_for_update: the tables are copied before they change.
RefreshCopied(s, new) ==
    [s EXCEPT !.tables = Append(@, new), !.cur = Len(s.tables) + 1]

Table(s) == IF s.cur = 0 THEN NotLoaded ELSE s.tables[s.cur]
Index == IF opt.sidecar THEN Table(sidecar) ELSE agent.index

\* _worker_index_build, _worker_index_refresh_path.
SetIndex(new) ==
    IF opt.sidecar
    THEN sidecar' = RefreshCopied(sidecar, new)
    ELSE UNCHANGED sidecar

worker_index_snapshot(id) ==
    sidecar' = [sidecar EXCEPT !.snaps = [i \in DOMAIN @ \cup {id} |->
                                            IF i = id THEN sidecar.cur ELSE @[i]]]

worker_index_restore_snapshot(id) ==
    sidecar' = IF id \in DOMAIN sidecar.snaps
               THEN [sidecar EXCEPT !.cur = sidecar.snaps[id]] ELSE sidecar

-----------------------------------------------------------------------------
(* The operations of one worker_exec: edits refresh the index, shell       *)
(* commands and tests do not; a test may reach its timeout.                *)

Wrote(f, op) == [p \in Paths |-> IF p \in op.edit \cup op.shell THEN Append(f[p], op.ev) ELSE f[p]]

Refreshed(index, op) ==
    IF index = NotLoaded THEN index
    ELSE [p \in Paths |-> IF p \in op.edit THEN Wrote(files, [op EXCEPT !.shell = {}])[p] ELSE index[p]]

worker_exec(op) ==
    /\ files' = Wrote(files, op)
    /\ IF op.edit = {} THEN UNCHANGED sidecar ELSE SetIndex(Refreshed(Index, op))
    /\ agent' = [agent EXCEPT !.req = NoReq,
                              !.index = IF opt.sidecar \/ op.edit = {} THEN @ ELSE Refreshed(@, op)]

-----------------------------------------------------------------------------
(* agent.py's main loop.                                                   *)

Done == agent' = [agent EXCEPT !.req = NoReq]

Write(ok, result) ==
    fifo_out' = Append(fifo_out, [ctrl |-> agent.req.ctrl, id |-> agent.req.id,
                                  ok |-> ok, result |-> result])

\* MUTANT of SyncEpoch: calls of older epochs stay pending.
SyncEpochKeepsPending ==
    LET e == IF agent.req.ctrl = "none" THEN epoch ELSE agent.now
    IN  /\ agent.run /\ agent.open /\ agent.seen # e
        /\ agent' = [agent EXCEPT !.seen = e, !.open = ~opt.reopen]
        /\ fifo_in' = Kept(fifo_in, ~opt.reopen \/ held \/ channel.in)
        /\ fifo_out' = Kept(fifo_out, ~opt.reopen \/ held \/ channel.out)
        /\ UNCHANGED <<opt, files, epoch, held, channel, npd, sidecar>>
\* sync_epoch: at the top of the loop, and with a request in hand.  Calls of
\* other epochs leave `pending` with their responses; the FIFOs are reopened,
\* which first closes them.
SyncEpoch ==
    LET e == IF agent.req.ctrl = "none" THEN epoch ELSE agent.now
        stale == {r \in agent.pending : r.epoch # e}
    IN  /\ agent.run /\ agent.open /\ agent.seen # e
        /\ agent' = [agent EXCEPT !.seen = e, !.pending = @ \ stale, !.open = ~opt.reopen]
        /\ npd' = [npd EXCEPT !.resp = @ \ stale]
        /\ fifo_in' = Kept(fifo_in, ~opt.reopen \/ held \/ channel.in)
        /\ fifo_out' = Kept(fifo_out, ~opt.reopen \/ held \/ channel.out)
        /\ UNCHANGED <<opt, files, epoch, held, channel, sidecar>>

reopen_runner_fifos ==
    /\ agent.run /\ ~agent.open
    /\ agent' = [agent EXCEPT !.open = TRUE]
    /\ UNCHANGED <<opt, files, epoch, held, fifoVars, channel, npd, sidecar>>

\* A frame, buffered or read, unless the calls in flight are at the cap.  The
\* epoch it is checked against is read here.
ReadRequest ==
    /\ agent.run /\ agent.open /\ agent.req.ctrl = "none"
    /\ Cardinality(agent.pending) < LLM_INFLIGHT_CAP
    /\ LET frames == IF agent.buf = <<>> THEN fifo_in ELSE agent.buf
       IN  /\ frames # <<>>
           /\ agent' = [agent EXCEPT !.req = Head(frames), !.buf = Tail(frames), !.now = epoch]
           /\ fifo_in' = IF agent.buf = <<>> THEN <<>> ELSE fifo_in
    /\ UNCHANGED <<opt, files, epoch, held, fifo_out, channel, npd, sidecar>>

InHand(ctrl) ==
    /\ agent.run /\ agent.open /\ agent.req.ctrl = ctrl /\ agent.seen = agent.now

Fresh == agent.req.epoch = agent.now

StaleRequest ==
    /\ agent.run /\ agent.open /\ agent.req.ctrl # "none" /\ agent.seen = agent.now /\ ~Fresh
    /\ Done
    /\ UNCHANGED <<opt, files, epoch, held, fifoVars, channel, npd, sidecar>>

ReplayReady ==
    /\ InHand("replay_ready") /\ Fresh
    /\ Done /\ Write(TRUE, agent.now)
    /\ UNCHANGED <<opt, files, epoch, held, fifo_in, channel, npd, sidecar>>

AbortPendingAll ==
    /\ InHand("abort_pending_all") /\ Fresh
    /\ agent' = [agent EXCEPT !.req = NoReq, !.pending = {}]
    /\ npd' = [npd EXCEPT !.resp = @ \ agent.pending]
    /\ UNCHANGED <<opt, files, epoch, held, fifoVars, channel, sidecar>>

ActiveWorker ==
    /\ InHand("active_worker_load") \/ InHand("active_worker_status")
    /\ Fresh
    /\ agent' = [agent EXCEPT !.req = NoReq, !.loaded = @ \/ agent.req.ctrl = "active_worker_load"]
    /\ Write(TRUE, agent'.loaded)
    /\ UNCHANGED <<opt, files, epoch, held, fifo_in, channel, npd, sidecar>>

IndexBuild ==
    /\ InHand("worker_index_build") /\ Fresh
    /\ SetIndex(files)
    /\ agent' = [agent EXCEPT !.req = NoReq, !.index = IF opt.sidecar THEN @ ELSE files]
    /\ Write(TRUE, files)
    /\ UNCHANGED <<opt, files, epoch, held, fifo_in, channel, npd>>

IndexStatus ==
    /\ InHand("worker_index_status") /\ Fresh
    /\ Done /\ Write(TRUE, Index)
    /\ UNCHANGED <<opt, files, epoch, held, fifo_in, channel, npd, sidecar>>

IndexSnapshot ==
    /\ InHand("worker_index_snapshot") /\ Fresh
    /\ worker_index_snapshot(agent.req.arg)
    /\ Done /\ Write(TRUE, Index)
    /\ UNCHANGED <<opt, files, epoch, held, fifo_in, channel, npd>>

IndexRestoreSnapshot ==
    /\ InHand("worker_index_restore_snapshot") /\ Fresh
    /\ worker_index_restore_snapshot(agent.req.arg)
    /\ Done /\ Write(agent.req.arg \in DOMAIN sidecar.snaps, Table(sidecar'))
    /\ UNCHANGED <<opt, files, epoch, held, fifo_in, channel, npd>>

WorkerExec ==
    /\ InHand("worker_exec") /\ Fresh
    /\ worker_exec(agent.req.arg)
    /\ \E result \in {"done"} \cup (IF agent.req.arg.test THEN {"TimeoutExpired"} ELSE {}) :
          Write(result = "done", result)
    /\ UNCHANGED <<opt, epoch, held, fifo_in, channel, npd>>

\* A task: the payload is on disk before the rid is in the FIFO.
SendLlmRequest ==
    LET rid == [epoch |-> epoch, id |-> agent.req.id]
    IN  /\ InHand("messages") /\ Fresh
        /\ agent' = [agent EXCEPT !.req = NoReq, !.pending = @ \cup {rid}]
        /\ npd' = [npd EXCEPT !.queue = Append(@, rid)]
        /\ UNCHANGED <<opt, files, epoch, held, fifoVars, channel, sidecar>>

\* MUTANT of Consumed: the response is read and left on disk.
ConsumedKept(rid) == npd.resp
\* _read_response_file reads the response and unlinks it.
Consumed(rid) == npd.resp \ {rid}

\* One notification: a rid that is not pending is dropped, its file left alone.
Notified ==
    LET rid == Head(npd.notify)
    IN  /\ agent.run /\ agent.open /\ agent.req.ctrl = "none"
        /\ npd.notify # <<>>
        /\ IF rid \in agent.pending
           THEN /\ agent' = [agent EXCEPT !.pending = @ \ {rid}]
                /\ npd' = [npd EXCEPT !.notify = Tail(@), !.resp = Consumed(rid)]
                /\ fifo_out' = Append(fifo_out, [ctrl |-> "messages", ok |-> TRUE, result |-> rid \in npd.resp,
                                                 id |-> IF rid \in npd.resp THEN rid.id ELSE 0])
           ELSE /\ npd' = [npd EXCEPT !.notify = Tail(@)]
                /\ UNCHANGED <<agent, fifo_out>>
        /\ UNCHANGED <<opt, files, epoch, held, fifo_in, channel, sidecar>>

\* mock_npd: the response file, then the notification.
NpdWrites ==
    /\ npd.queue # <<>> /\ ~npd.written
    /\ npd' = [npd EXCEPT !.resp = @ \cup {Head(npd.queue)}, !.written = TRUE]
    /\ UNCHANGED <<opt, files, epoch, agent, held, fifoVars, channel, sidecar>>

NpdNotifies ==
    /\ npd.written
    /\ npd' = [npd EXCEPT !.queue = Tail(@), !.written = FALSE, !.notify = Append(@, Head(npd.queue))]
    /\ UNCHANGED <<opt, files, epoch, agent, held, fifoVars, channel, sidecar>>

AgentStep ==
    \/ SyncEpoch \/ reopen_runner_fifos \/ ReadRequest \/ StaleRequest
    \/ ReplayReady \/ AbortPendingAll \/ ActiveWorker
    \/ IndexBuild \/ IndexStatus \/ IndexSnapshot \/ IndexRestoreSnapshot
    \/ WorkerExec \/ SendLlmRequest \/ Notified

NpdStep == NpdWrites \/ NpdNotifies
=============================================================================
