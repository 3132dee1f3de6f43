----------------------------- MODULE AgentWorker -----------------------------
(***************************************************************************)
(* The checkpointable agent of the decoupled search and its two channels:  *)
(* the in-sandbox worker loop (agent/worker/agent_worker.py), the host's   *)
(* control client (agent/host/worker_client.py) over the agent.in and      *)
(* agent.out FIFOs, and the NPD daemon (agent/npd/npd.py), which stays     *)
(* outside the sandbox and calls the model for the worker.                 *)
(*                                                                         *)
(* A restore rolls the worker's memory back.  FIFOs, response files, the   *)
(* NPD and the epoch file are not rolled back: what was in flight stays in *)
(* flight.                                                                 *)
(***************************************************************************)
EXTENDS Naturals, Sequences, FiniteSets

CONSTANT Actions   \* what the model may answer: kinds of action

VARIABLES
    up,          \* the worker process runs
    worker,      \* its memory: path, ready, pending, in_buf
    agent_in, agent_out,          \* the control FIFOs
    req_fifo, notify_fifo,        \* the NPD FIFOs
    tasks,       \* _process calls of the NPD pool, by phase
    responses,   \* files of NPD_RESP_DIR
    epoch,       \* NPD_EPOCH_FILE
    rids,        \* number of request ids drawn (uuid4 in the code)
    seq          \* WorkerClient._seq: the ctrl_id of the last call

fifoVars == <<agent_in, agent_out>>
npdVars == <<req_fifo, notify_fifo, tasks, responses>>
channelVars == <<up, worker, fifoVars, npdVars, epoch, rids, seq>>

NoCtrl == 0   \* ctrl_id of a command the host client did not send

\* The memory of a freshly started worker: STATE, pending and the buffers.
NewWorker == [path |-> <<>>, ready |-> FALSE, pending |-> {}, in_buf |-> <<>>]

ChannelInit ==
    /\ up = TRUE /\ worker = NewWorker
    /\ agent_in = <<>> /\ agent_out = <<>>
    /\ req_fifo = <<>> /\ notify_fifo = <<>> /\ tasks = {} /\ responses = {}
    /\ epoch = 0 /\ rids = 0 /\ seq = 0

Elements(s) == {s[k] : k \in 1..Len(s)}

-----------------------------------------------------------------------------
(* WorkerClient: one request, one reply.                                   *)

\* call: a fresh ctrl_id, then the frame is written to agent.in.
Send(ctrl) ==
    /\ seq' = seq + 1
    /\ agent_in' = Append(agent_in, [ctrl |-> ctrl, ctrl_id |-> seq + 1])

\* The first line of agent.out is the reply to the call in progress.
Answered == agent_out # <<>> /\ Head(agent_out).ctrl_id = seq

\* Mutant of SkipReply: a reply with another ctrl_id is not skipped.
SkipReplyNever ==
    FALSE /\ UNCHANGED channelVars

\* call skips the stale replies of an abandoned branch.
SkipReply ==
    /\ agent_out # <<>> /\ ~Answered
    /\ agent_out' = Tail(agent_out)
    /\ UNCHANGED <<up, worker, agent_in, npdVars, epoch, rids, seq>>

-----------------------------------------------------------------------------
(* agent_worker.main: one action is one turn of the loop.                  *)

Reply(obj) == agent_out' = Append(agent_out, obj)
Ok(id, act) == [ctrl_id |-> id, ok |-> TRUE, action |-> act]
Error(id) == [ctrl_id |-> id, ok |-> FALSE, action |-> <<>>]

\* The lines a turn has before it: what is buffered, or all of the FIFO.
Lines == IF worker.in_buf # <<>> THEN worker.in_buf ELSE agent_in

\* _send_llm_request: the id carries the epoch of its submission.
SendLlmRequest(ctrl_id, rest) ==
    LET rid == [epoch |-> epoch, n |-> rids + 1] IN
    /\ rids' = rids + 1
    /\ req_fifo' = Append(req_fifo, rid)
    /\ worker' = [worker EXCEPT !.in_buf = rest,
                                !.pending = @ \cup {[rid |-> rid, ctrl_id |-> ctrl_id]}]

\* A host command is read only while no model call is outstanding.
WorkerCommand ==
    /\ up /\ worker.pending = {} /\ Lines # <<>>
    /\ agent_in' = IF worker.in_buf # <<>> THEN agent_in ELSE <<>>
    /\ LET req == Head(Lines)
           rest == Tail(Lines)
           Idle == worker' = [worker EXCEPT !.in_buf = rest]
       IN  CASE req.ctrl = "state" ->
                  Reply(Ok(req.ctrl_id, <<>>)) /\ Idle /\ UNCHANGED <<req_fifo, rids>>
             [] req.ctrl = "init" ->
                  /\ worker' = [worker EXCEPT !.in_buf = rest, !.path = <<>>,
                                              !.ready = TRUE]
                  /\ Reply(Ok(req.ctrl_id, <<>>)) /\ UNCHANGED <<req_fifo, rids>>
             [] req.ctrl = "step" /\ worker.ready ->
                  SendLlmRequest(req.ctrl_id, rest) /\ UNCHANGED agent_out
             [] OTHER ->      \* not initialised, or an unknown command
                  Reply(Error(req.ctrl_id)) /\ Idle /\ UNCHANGED <<req_fifo, rids>>
    /\ UNCHANGED <<up, notify_fifo, tasks, responses, epoch, seq>>

\* Mutant of WorkerNotify: the executed action is not kept in the state.
WorkerNotifyForgets ==
    /\ up /\ worker.in_buf = <<>> /\ notify_fifo # <<>>
    /\ worker.pending = {} => agent_in = <<>>
    /\ notify_fifo' = <<>>
    /\ LET mine == {p \in worker.pending : p.rid \in Elements(notify_fifo)}
           found == {r \in responses : \E p \in mine : r.rid = p.rid}
       IN  /\ responses' = responses \ found
           /\ IF mine = {}
              THEN UNCHANGED <<worker, agent_out>>
              ELSE \E p \in mine :
                     IF \E r \in found : r.ok
                     THEN \E r \in found :
                            /\ worker' = [worker EXCEPT !.pending = @ \ mine]
                            /\ Reply(Ok(p.ctrl_id, r.action))
                     ELSE /\ worker' = [worker EXCEPT !.pending = @ \ mine]
                          /\ Reply(Error(p.ctrl_id))
    /\ UNCHANGED <<up, agent_in, req_fifo, tasks, epoch, rids, seq>>

\* The notifications are read when no command is: one for a rid that is not
\* pending is dropped; the response of the pending one is executed.
WorkerNotify ==
    /\ up /\ worker.in_buf = <<>> /\ notify_fifo # <<>>
    /\ worker.pending = {} => agent_in = <<>>
    /\ notify_fifo' = <<>>
    /\ LET mine == {p \in worker.pending : p.rid \in Elements(notify_fifo)}
           found == {r \in responses : \E p \in mine : r.rid = p.rid}
       IN  /\ responses' = responses \ found
           /\ IF mine = {}
              THEN UNCHANGED <<worker, agent_out>>
              ELSE \E p \in mine :
                     IF \E r \in found : r.ok
                     THEN \E r \in found :
                            /\ worker' = [worker EXCEPT !.pending = @ \ mine,
                                                        !.path = Append(@, r.action)]
                            /\ Reply(Ok(p.ctrl_id, r.action))
                     ELSE /\ worker' = [worker EXCEPT !.pending = @ \ mine]
                          /\ Reply(Error(p.ctrl_id))
    /\ UNCHANGED <<up, agent_in, req_fifo, tasks, epoch, rids, seq>>

Worker == WorkerCommand \/ WorkerNotify

-----------------------------------------------------------------------------
(* npd.py.                                                                 *)

\* main: every rid line becomes a _process call of the pool.
NpdTake ==
    /\ req_fifo # <<>>
    /\ tasks' = tasks \cup {[rid |-> Head(req_fifo), at |-> "chat", resp |-> <<>>]}
    /\ req_fifo' = Tail(req_fifo)
    /\ UNCHANGED <<up, worker, fifoVars, notify_fifo, responses, epoch, rids, seq>>

\* _chat returns an answer or raises; then the epoch filter.
NpdChat(t, act) ==
    /\ t.at = "chat"
    /\ LET resp == [rid |-> t.rid, ok |-> act # "error",
                    action |-> [kind |-> act, n |-> t.rid.n]] IN
       tasks' = (tasks \ {t}) \cup
                IF t.rid.epoch < epoch THEN {}
                ELSE {[rid |-> t.rid, at |-> "write", resp |-> resp]}
    /\ UNCHANGED <<up, worker, fifoVars, req_fifo, notify_fifo, responses, epoch, rids, seq>>

\* The response file is renamed into place.
NpdWrite(t) ==
    /\ t.at = "write"
    /\ responses' = responses \cup {t.resp}
    /\ tasks' = (tasks \ {t}) \cup {[t EXCEPT !.at = "notify"]}
    /\ UNCHANGED <<up, worker, fifoVars, req_fifo, notify_fifo, epoch, rids, seq>>

NpdNotify(t) ==
    /\ t.at = "notify"
    /\ notify_fifo' = Append(notify_fifo, t.rid)
    /\ tasks' = tasks \ {t}
    /\ UNCHANGED <<up, worker, fifoVars, req_fifo, responses, epoch, rids, seq>>

Npd ==
    \/ NpdTake
    \/ \E t \in tasks :
         \/ NpdWrite(t) \/ NpdNotify(t)
         \/ \E act \in Actions \cup {"error"} : NpdChat(t, act)

\* A request of the worker that has not come back to it.
InFlight == worker.pending # {} \/ req_fifo # <<>> \/ tasks # {} \/ notify_fifo # <<>>
=============================================================================
