---------------------------- MODULE TemplateFork ----------------------------
(***************************************************************************)
(* The warm-template control channel: TemplatePool and the controller's    *)
(* calls on the host side, handle_template_message on the agent side.      *)
(*                                                                         *)
(* The active agent and every template forked from it share ONE command    *)
(* FIFO; whichever of them is runnable takes the next line.  The host      *)
(* keeps all but one stopped, asks the active to leave a stopped copy of   *)
(* itself behind (a template), and restores by killing the active and      *)
(* waking a template, which forks the next active.                         *)
(*                                                                         *)
(* A process is runnable, stopped by SIGSTOP, dead (a zombie) or free, and *)
(* is at one of five places of its loop.  Memory is a version number that  *)
(* a step of workload replaces.  SIGCONT has no effect on a process that   *)
(* has not yet stopped itself, and a process that the host stops just      *)
(* before its own SIGSTOP stops again when it is resumed.                  *)
(*                                                                         *)
(* This is the stashing checkpoint (DELTABOX_CHECKPOINT_STASH_TEMPLATE)    *)
(* with the first active at PID 1 of the namespace.  A failed warm restore *)
(* is final: the cold path of an active-subtree image is refused unless    *)
(* the environment allows clearing the pool.                               *)
(***************************************************************************)
EXTENDS Naturals, Sequences, FiniteSets

CONSTANTS
  Procs,        \* process ids
  Init1,        \* ns_init_pid, the first active, PID 1 of the namespace
  Snapshots,    \* checkpoint ids
  NoProc,
  Modes         \* instances of the next four to start in:
                \*   versions  bound: steps of workload
                \*   lates     bound: answers that come after their request's timeout
                \*   late      the requests that may time out before a coming answer
                \*   prompt    TRUE: a process stops itself before the next request

ASSUME ProcsAssumption == Init1 \in Procs /\ NoProc \notin Procs
ASSUME ModesAssumption ==
  Modes \subseteq [versions : Nat, lates : Nat, prompt : BOOLEAN,
                   late : SUBSET {"fork", "stash", "reap"}]

VARIABLES
  st,         \* process -> "free", "run", "stop" or "dead"
  at,         \* process -> "loop", "closing", "reply" or "halt"
  answer,     \* process -> the response it is about to write
  mem,        \* process -> version of the memory it holds
  parent,     \* process -> the process that would reap it
  ctrl_in,    \* CTRL_IN_FIFO: commands
  ctrl_out,   \* CTRL_OUT_FIFO: responses
  agent_pid,
  templates,  \* TemplatePool.templates: checkpoint -> process or NoProc
  reaps,      \* _pending_cleanup_reaps: pairs <<template, dead child>>
  call,       \* the host call in progress: where it is and what it is about
  taken,      \* history: checkpoint -> version of the active when it was taken
  believed,   \* history: version the caller believes the active holds
  late,       \* answers that have come late
  mode        \* the instance

procVars == <<st, at, answer, mem, parent>>
hostVars == <<agent_pid, templates, reaps, taken, believed, late, mode>>
vars == <<procVars, ctrl_in, ctrl_out, call, hostVars>>

NoAnswer == [mode |-> "none", by |-> Init1, child |-> Init1]
Idle == [pc |-> "idle", op |-> "none", target |-> NoProc, child |-> NoProc,
         id |-> "none", queue |-> {}]
Registered == {templates[s] : s \in Snapshots} \ {NoProc}

-----------------------------------------------------------------------------
(* Signals. *)

SigCont(f, p) == IF f[p] = "stop" THEN [f EXCEPT ![p] = "run"] ELSE f
SigStop(f, p) == IF f[p] = "run" THEN [f EXCEPT ![p] = "stop"] ELSE f

\* The kernel drops a SIGSTOP that PID 1 of a namespace sends itself.
SelfStop(f, p) == IF p = Init1 THEN f ELSE SigStop(f, p)

\* not _pid_gone_or_zombie
Alive(p) == st[p] \in {"run", "stop"}

-----------------------------------------------------------------------------
(* The agent side. *)

Init ==
  /\ st = [p \in Procs |-> IF p = Init1 THEN "run" ELSE "free"]
  /\ at = [p \in Procs |-> "loop"]
  /\ answer = [p \in Procs |-> NoAnswer]
  /\ mem = [p \in Procs |-> IF p = Init1 THEN 1 ELSE 0]
  /\ parent = [p \in Procs |-> Init1]
  /\ ctrl_in = <<>>
  /\ ctrl_out = <<>>
  /\ agent_pid = Init1
  /\ templates = [s \in Snapshots |-> NoProc]
  /\ reaps = {}
  /\ call = Idle
  /\ taken = [s \in Snapshots |-> 0]
  /\ believed = 1
  /\ late = 0
  /\ mode \in Modes

\* A process at its select() takes one command.
Take(p, op) ==
  /\ st[p] = "run" /\ at[p] = "loop"
  /\ ctrl_in # <<>> /\ Head(ctrl_in).op = op
  /\ ctrl_in' = Tail(ctrl_in)

\* {"op":"fork"}: the child goes back to the loop as the next active, the
\* parent answers and then stops itself.
ReadFork(p, c) ==
  /\ Take(p, "fork")
  /\ st[c] = "free"
  /\ st' = [st EXCEPT ![c] = "run"]
  /\ at' = [at EXCEPT ![c] = "loop", ![p] = "reply"]
  /\ mem' = [mem EXCEPT ![c] = mem[p]]
  /\ parent' = [parent EXCEPT ![c] = p]
  /\ answer' = [answer EXCEPT ![p] = [mode |-> "fork", by |-> p, child |-> c]]
  /\ UNCHANGED <<ctrl_out, call, hostVars>>

\* {"op":"stash_template"}: a helper forks the template, writes the response
\* and exits; the active waits for the helper.  The template, reparented to
\* PID 1, stops itself on its own time.
ReadStash(p, c) ==
  /\ Take(p, "stash")
  /\ st[c] = "free"
  /\ st' = [st EXCEPT ![c] = "run"]
  /\ at' = [at EXCEPT ![c] = "halt", ![p] = "reply"]
  /\ mem' = [mem EXCEPT ![c] = mem[p]]
  /\ parent' = [parent EXCEPT ![c] = Init1]
  /\ answer' = [answer EXCEPT ![p] = [mode |-> "stash", by |-> p, child |-> c]]
  /\ UNCHANGED <<ctrl_out, call, hostVars>>

\* {"op":"reap_pid"}: waitpid of one dead child frees its process id.
ReadReap(p) ==
  /\ Take(p, "reap")
  /\ LET c == Head(ctrl_in).child IN
       /\ st' = IF st[c] = "dead" /\ parent[c] = p THEN [st EXCEPT ![c] = "free"] ELSE st
       /\ answer' = [answer EXCEPT ![p] = [mode |-> "reap", by |-> p, child |-> c]]
  /\ at' = [at EXCEPT ![p] = "reply"]
  /\ UNCHANGED <<mem, parent, ctrl_out, call, hostVars>>

\* _write_response, and what the handler does after it.
Respond(p) ==
  /\ st[p] = "run" /\ at[p] = "reply"
  /\ ctrl_out' = Append(ctrl_out, answer[p])
  /\ at' = [at EXCEPT ![p] = IF answer[p].mode = "stash" THEN "loop" ELSE "halt"]
  /\ answer' = [answer EXCEPT ![p] = NoAnswer]
  /\ UNCHANGED <<st, mem, parent, ctrl_in, call, hostVars>>

\* os.kill(os.getpid(), SIGSTOP), and back to the loop when resumed.
Halt(p) ==
  /\ st[p] = "run" /\ at[p] = "halt"
  /\ at' = [at EXCEPT ![p] = "loop"]
  /\ st' = SelfStop(st, p)
  /\ UNCHANGED <<answer, mem, parent, ctrl_in, ctrl_out, call, hostVars>>

\* Between calls the caller has the workload done by whichever process reads
\* the request; the reply precedes the worker's last file operations.
Work(p) ==
  /\ call.pc = "idle"
  /\ st[p] = "run" /\ at[p] = "loop"
  /\ \A q \in Procs : mem[q] < mode.versions
  /\ LET v == 1 + CHOOSE m \in {mem[q] : q \in Procs} : \A q \in Procs : mem[q] <= m IN
       /\ mem' = [mem EXCEPT ![p] = v]
       /\ believed' = v
  /\ at' = [at EXCEPT ![p] = "closing"]
  /\ UNCHANGED <<st, answer, parent, ctrl_in, ctrl_out, call, agent_pid, templates,
                 reaps, taken, late, mode>>

\* The worker has closed its files and is back at its select().
Settle(p) ==
  /\ st[p] = "run" /\ at[p] = "closing"
  /\ at' = [at EXCEPT ![p] = "loop"]
  /\ UNCHANGED <<st, answer, mem, parent, ctrl_in, ctrl_out, call, hostVars>>

-----------------------------------------------------------------------------
(* The host side: one request on the channel. *)

\* A process between its response and its own SIGSTOP.
Halting == {p \in Procs : st[p] = "run" /\ at[p] = "halt"}

\* _drain_pending: responses of requests that timed out are thrown away.
Drain ==
  /\ call.pc = "drain"
  /\ mode.prompt => Halting = {}
  /\ ctrl_out' = <<>>
  /\ call' = [call EXCEPT !.pc = "send"]
  /\ UNCHANGED <<procVars, ctrl_in, hostVars>>

\* _drain_pending_commands, the write of the command, and the SIGCONT of
\* every request but a stash.
\*
\* Mutant of Send: without the SIGCONT.
SendUnwoken ==
  /\ call.pc = "send"
  /\ ctrl_in' = <<[op |-> call.op, child |-> IF call.op = "reap" THEN call.child ELSE Init1]>>
  /\ call' = [call EXCEPT !.pc = "wait"]
  /\ UNCHANGED <<procVars, ctrl_out, hostVars>>

Send ==
  /\ call.pc = "send"
  /\ ctrl_in' = <<[op |-> call.op, child |-> IF call.op = "reap" THEN call.child ELSE Init1]>>
  /\ st' = IF call.op = "stash" THEN st ELSE SigCont(st, call.target)
  /\ call' = [call EXCEPT !.pc = "wait"]
  /\ UNCHANGED <<at, answer, mem, parent, ctrl_out, hostVars>>

\* _read_response_line skips a response of another mode.
SkipResponse ==
  /\ call.pc = "wait"
  /\ ctrl_out # <<>> /\ Head(ctrl_out).mode # call.op
  /\ ctrl_out' = Tail(ctrl_out)
  /\ UNCHANGED <<procVars, ctrl_in, call, hostVars>>

\* The response the host is waiting for has arrived.
Arrived(op) ==
  /\ call.pc = "wait" /\ call.op = op
  /\ ctrl_out # <<>> /\ Head(ctrl_out).mode = op
  /\ ctrl_out' = Tail(ctrl_out)

\* Nothing that is runnable will ever write the response.
Hopeless ==
  /\ ctrl_out = <<>>
  /\ \A p \in Procs : st[p] = "run" => at[p] = "loop" /\ ctrl_in = <<>>

\* The request times out: because no answer comes, or before one comes.
TimesOut(op) ==
  /\ call.pc = "wait" /\ call.op = op
  /\ \A i \in 1..Len(ctrl_out) : ctrl_out[i].mode # op
  /\ \/ Hopeless /\ late' = late
     \/ op \in mode.late /\ late < mode.lates /\ late' = late + 1

\* await_fork stops PID 1 again; it ignores its own SIGSTOP.
StopInit(f, p) == IF p = Init1 THEN SigStop(f, p) ELSE f

-----------------------------------------------------------------------------
(* The host side: checkpoints. *)

\* Before a legacy checkpoint the dead actives are reaped by the templates
\* that are their parents, one request after another, the active held stopped.
Cleanup ==
  /\ call' = [call EXCEPT !.pc = "reap", !.queue = reaps]
  /\ reaps' = {}
  /\ st' = SigStop(st, agent_pid)

Checkpoint(s) ==
  /\ call.pc = "idle"
  /\ taken[s] = 0
  /\ taken' = [taken EXCEPT ![s] = believed]
  /\ call' = [Idle EXCEPT !.pc = IF reaps = {} THEN "template" ELSE "cleanup", !.id = s]
  /\ UNCHANGED <<procVars, ctrl_in, ctrl_out, agent_pid, templates, reaps, believed, late, mode>>

DrainCleanup ==
  /\ call.pc = "cleanup"
  /\ Cleanup
  /\ UNCHANGED <<at, answer, mem, parent, ctrl_in, ctrl_out, agent_pid, templates,
                 taken, believed, late, mode>>

\* A template that is gone is skipped.
ReapNext ==
  /\ call.pc = "reap"
  /\ \E q \in call.queue :
       call' = [call EXCEPT !.queue = @ \ {q}, !.op = "reap", !.target = q[1],
                            !.child = q[2], !.pc = IF Alive(q[1]) THEN "drain" ELSE "reap"]
  /\ UNCHANGED <<procVars, ctrl_in, ctrl_out, hostVars>>

\* request_reap_pid ends, answered or not; PID 1 is stopped again.
ReapEnds ==
  /\ \/ Arrived("reap") /\ UNCHANGED late
     \/ TimesOut("reap") /\ UNCHANGED ctrl_out
  /\ st' = StopInit(st, call.target)
  /\ call' = [call EXCEPT !.pc = "reap"]
  /\ UNCHANGED <<at, answer, mem, parent, ctrl_in, agent_pid, templates, reaps, taken,
                 believed, mode>>

\* Mutant of CleanupDone: the active stays stopped.
CleanupDoneStopped ==
  /\ call.pc = "reap" /\ call.queue = {}
  /\ call' = [call EXCEPT !.pc = "template"]
  /\ UNCHANGED <<procVars, ctrl_in, ctrl_out, hostVars>>

CleanupDone ==
  /\ call.pc = "reap" /\ call.queue = {}
  /\ st' = SigCont(st, agent_pid)
  /\ call' = [call EXCEPT !.pc = "template"]
  /\ UNCHANGED <<at, answer, mem, parent, ctrl_in, ctrl_out, hostVars>>

\* The first checkpoint moves the active off PID 1 by a fork; a later one
\* stops every template again and asks the active for a stash.
Template ==
  /\ call.pc = "template"
  /\ mode.prompt => Halting = {}
  /\ call' = [call EXCEPT !.pc = "drain", !.target = agent_pid,
                          !.op = IF agent_pid = Init1 THEN "fork" ELSE "stash"]
  /\ st' = IF agent_pid = Init1 THEN st
           ELSE [p \in Procs |-> IF p \in Registered /\ p # agent_pid THEN SigStop(st, p)[p]
                                 ELSE st[p]]
  /\ UNCHANGED <<at, answer, mem, parent, ctrl_in, ctrl_out, hostVars>>

\* request_stash_template ends; without a template the checkpoint goes on,
\* to be restored from its image.
StashEnds ==
  /\ \/ /\ Arrived("stash")
        /\ templates' = [templates EXCEPT ![call.id] = Head(ctrl_out).child]
        /\ UNCHANGED late
     \/ TimesOut("stash") /\ UNCHANGED <<ctrl_out, templates>>
  /\ call' = Idle
  /\ UNCHANGED <<procVars, ctrl_in, agent_pid, reaps, taken, believed, mode>>

\* request_fork of the bootstrap ends: the old active is the template.
BootstrapEnds ==
  /\ call.target = agent_pid
  /\ \/ /\ Arrived("fork")
        /\ templates' = [templates EXCEPT ![call.id] = call.target]
        /\ agent_pid' = Head(ctrl_out).child
        /\ st' = StopInit(st, call.target)
        /\ UNCHANGED late
     \/ TimesOut("fork") /\ UNCHANGED <<ctrl_out, templates, agent_pid, st>>
  /\ call' = Idle
  /\ UNCHANGED <<at, answer, mem, parent, ctrl_in, reaps, taken, believed, mode>>

-----------------------------------------------------------------------------
(* The host side: restores and garbage collection. *)

\* The active is killed and waited for; if a template is its parent the
\* zombie is left for a later cleanup.
\*
\* Mutant of Restore: any template will do.
RestoreAny(s) ==
  /\ call.pc = "idle"
  /\ templates[s] # NoProc
  /\ st' = [st EXCEPT ![agent_pid] = "dead"]
  /\ reaps' = IF parent[agent_pid] \in Registered
              THEN reaps \union {<<parent[agent_pid], agent_pid>>} ELSE reaps
  /\ \E p \in Registered :
       call' = [Idle EXCEPT !.pc = "drain", !.op = "fork", !.target = p, !.id = s]
  /\ UNCHANGED <<at, answer, mem, parent, ctrl_in, ctrl_out, agent_pid, templates, taken,
                 believed, late, mode>>

Restore(s) ==
  /\ call.pc = "idle"
  /\ templates[s] # NoProc
  /\ st' = [st EXCEPT ![agent_pid] = "dead"]
  /\ reaps' = IF parent[agent_pid] \in Registered
              THEN reaps \union {<<parent[agent_pid], agent_pid>>} ELSE reaps
  /\ call' = [Idle EXCEPT !.pc = "drain", !.op = "fork", !.target = templates[s], !.id = s]
  /\ UNCHANGED <<at, answer, mem, parent, ctrl_in, ctrl_out, agent_pid, templates, taken,
                 believed, late, mode>>

\* await_fork of a restore ends: the child is the active, or the call fails.
RestoreEnds ==
  /\ call.target # agent_pid
  /\ \/ /\ Arrived("fork")
        /\ agent_pid' = Head(ctrl_out).child
        /\ believed' = taken[call.id]
        /\ st' = StopInit(st, call.target)
        /\ call' = Idle
        /\ UNCHANGED late
     \/ /\ TimesOut("fork")
        /\ call' = [call EXCEPT !.pc = "failed"]
        /\ UNCHANGED <<ctrl_out, agent_pid, believed, st>>
  /\ UNCHANGED <<at, answer, mem, parent, ctrl_in, templates, reaps, taken, mode>>

\* gc_obsolete_snapshots discards the template of a pruned checkpoint, never
\* that of PID 1; the children of the killed process pass to PID 1.
Discard(s) ==
  /\ call.pc = "idle"
  /\ templates[s] \notin {NoProc, Init1, agent_pid}
  /\ st' = [st EXCEPT ![templates[s]] = "dead"]
  /\ parent' = [p \in Procs |-> IF parent[p] = templates[s] THEN Init1 ELSE parent[p]]
  /\ templates' = [templates EXCEPT ![s] = NoProc]
  /\ UNCHANGED <<at, answer, mem, ctrl_in, ctrl_out, call, agent_pid, reaps, taken,
                 believed, late, mode>>

Agent ==
  \E p \in Procs : \/ \E c \in Procs : ReadFork(p, c) \/ ReadStash(p, c)
                   \/ ReadReap(p) \/ Respond(p) \/ Halt(p) \/ Settle(p)

Host == \/ Drain \/ Send \/ SkipResponse
        \/ DrainCleanup \/ ReapNext \/ ReapEnds \/ CleanupDone
        \/ Template \/ StashEnds \/ BootstrapEnds \/ RestoreEnds

Next == \/ Agent \/ Host
        \/ \E p \in Procs : Work(p)
        \/ \E s \in Snapshots : Checkpoint(s) \/ Restore(s) \/ Discard(s)

Spec == Init /\ [][Next]_vars

-----------------------------------------------------------------------------
(* Properties. *)

\* The processes that would take the next line written to a FIFO.
Readers == {p \in Procs : st[p] = "run" /\ at[p] # "halt"}

\* Between two calls exactly one process reads the FIFOs, and it is the one
\* the controller takes for the active: forks, stashes, kills, stops and
\* resumes of all the calls before, in whatever order the processes got to
\* their own SIGSTOP, leave no second runnable reader and no stopped active.
OneRunnableReader == mode.prompt /\ call.pc = "idle" => Readers = {agent_pid}

\* A registered template is alive, is not the active, and holds the memory
\* the active had when the checkpoint was taken, however many times it has
\* been woken since to fork or to reap, and although responses carry no
\* request id.  Between two calls the active holds what the caller believes it
\* holds: the restored checkpoint and the work done since.
MemoryFaithful ==
  /\ \A s \in Snapshots :
       templates[s] # NoProc =>
         /\ Alive(templates[s])
         /\ templates[s] # agent_pid
         /\ mem[templates[s]] = taken[s]
  /\ call.pc = "idle" => mem[agent_pid] = believed

\* When processes stop themselves before the next request, a command is taken
\* by the process it is meant for (a stash by the active, a fork or a reap by
\* the process that the request in progress woke for it), and a warm restore
\* of a registered template is always answered: no wake-up is lost, and no
\* earlier command attaches to the next request.
CommandsReach ==
  [][mode.prompt =>
       /\ call'.pc # "failed"
       /\ Len(ctrl_in') <= 1
       /\ \A p \in Procs :
            at[p] = "loop" /\ at'[p] = "reply" =>
              p = IF Head(ctrl_in).op = "stash" THEN agent_pid ELSE call.target]_vars

\* Two runnable readers never race on one message: while a command is in the
\* FIFO at most one process is at its select().  The code does not keep this:
\* a reap that is given up after 50 ms leaves its template runnable.
NoRace == ctrl_in # <<>> => Cardinality({p \in Procs : st[p] = "run" /\ at[p] = "loop"}) <= 1
=============================================================================
