--------------------------- MODULE AsyncCheckpoint ---------------------------
(***************************************************************************)
(* The asynchronous exact-parent checkpoint protocol of DeltaBox           *)
(* (backends/deltabox/gsd/async_checkpoint.py) together with the parts of  *)
(* SandboxController it depends on: restore_action, _kill_active_subtree   *)
(* and gc_obsolete_snapshots.                                              *)
(*                                                                         *)
(* Two threads run concurrently.  The CONTROLLER thread executes one API   *)
(* call at a time (checkpoint, restore, gc); `pc` says how far the call    *)
(* has come.  The DUMP WORKER is the single thread of _dump_pool; it runs  *)
(* _run for one submitted checkpoint after the other.  The environment may *)
(* kill a stopped template, or let a SIGKILLed writer exit late.           *)
(*                                                                         *)
(* A process is represented by the memory contents it holds, or by Gone.   *)
(***************************************************************************)
EXTENDS Naturals, Sequences, FiniteSets

CONSTANTS
    Ids,                 \* checkpoint ids (uuid4 in the code: never reused)
    NoId,                \* Python's None where an id is expected
    Contents,            \* possible memory contents of the agent
    Gone,                \* no such process, no such image
    MaxPending,          \* DELTABOX_ASYNC_MAX_PENDING
    FORCE_CRIU_RESTORE   \* DELTABOX_FORCE_CRIU_RESTORE = "1"

ASSUME NoIdAssumption == NoId \notin Ids /\ NoId \notin Contents
ASSUME GoneAssumption == Gone \notin Contents
ASSUME MaxPendingAssumption == MaxPending \in Nat \ {0}
ASSUME ForceAssumption == FORCE_CRIU_RESTORE \in BOOLEAN

VARIABLES
    registry,     \* the keys of controller.registry
    used,         \* ids handed out so far, published or not
    node,         \* registry entry: parent_id, prev_ckpt_id, effective_restore_id
    state,        \* entry["state"]
    future,       \* entry["dump_future"]
    dispose_done, \* ids whose entry["dispose_done"] is True
    taken,        \* history: the agent's memory when the checkpoint was taken
    image,        \* the image directory mem_path, after os.replace
    templates,    \* keys of template_pool.templates
    tmpl,         \* the SIGSTOPped warm template process of an id
    writer,       \* the disposable dump process of an id
    killed,       \* writers that got SIGKILL and have not exited
    init_tmpl,    \* id whose template is the namespace init (ns_init_pid)
    agent,        \* "init": agent_pid = ns_init_pid, "child", or "dead"
    mem,          \* memory of the active agent, Gone when it is dead
    slots,        \* free permits of the BoundedSemaphore
    failed,       \* self.failed is set
    pc, cid, cparent, cold_ok,   \* the controller's call in progress
    queue, wpc, wid              \* the dump worker

regVars  == <<registry, used, node, taken>>
dumpVars == <<state, future, dispose_done, image>>
procVars == <<templates, tmpl, writer, killed, init_tmpl, agent, mem>>
callVars == <<pc, cid, cparent, cold_ok>>
workVars == <<queue, wpc, wid>>
vars == <<regVars, dumpVars, procVars, slots, failed, callVars, workVars>>

Node == [parent_id : Ids \cup {NoId}, prev_ckpt_id : Ids \cup {NoId},
         effective_restore_id : Ids \cup {NoId}]

\* The id whose memory image a restore of i uses.
Effective(i) == node[i].effective_restore_id
Prev(i) == node[i].prev_ckpt_id

Done(i) == future[i] \in {"result", "exception"}
Pending(i) == future[i] = "pending"

Queued == {queue[k] : k \in 1..Len(queue)}

NoNode == [parent_id |-> NoId, prev_ckpt_id |-> NoId, effective_restore_id |-> NoId]

-----------------------------------------------------------------------------
(* The call in progress goes on, or returns to its caller.                 *)
Goto(label) == pc' = label /\ UNCHANGED <<cid, cparent, cold_ok>>
Return == pc' = "idle" /\ cid' = NoId /\ cparent' = NoId /\ cold_ok' = TRUE

Init ==
    /\ registry = {} /\ used = {}
    /\ node = [i \in Ids |-> NoNode]
    /\ state = [i \in Ids |-> "none"]
    /\ future = [i \in Ids |-> "none"]
    /\ dispose_done = {}
    /\ mem \in Contents
    /\ taken = [i \in Ids |-> Gone]
    /\ image = [i \in Ids |-> Gone]
    /\ templates = {}
    /\ tmpl = [i \in Ids |-> Gone]
    /\ writer = [i \in Ids |-> Gone]
    /\ killed = {} /\ init_tmpl = NoId /\ agent = "init"
    /\ slots = MaxPending /\ failed = FALSE
    /\ pc = "idle" /\ cid = NoId /\ cparent = NoId /\ cold_ok = TRUE
    /\ queue = << >> /\ wpc = "idle" /\ wid = NoId

\* The agent executes a step for the host between two API calls.
Work ==
    /\ pc = "idle" /\ agent # "dead"
    /\ mem' \in Contents \ {mem}
    /\ UNCHANGED <<regVars, dumpVars, templates, tmpl, writer, killed,
                   init_tmpl, agent, slots, failed, callVars, workVars>>

-----------------------------------------------------------------------------
(* checkpoint                                                              *)

\* A previous failed transaction, or an unknown parent, raises at once.
CheckpointCall(parent) ==
    /\ pc = "idle" /\ ~failed
    /\ parent # NoId => parent \in registry /\ Effective(parent) \in registry
    /\ used # Ids                       \* bound: the ids TLC may hand out
    /\ pc' = "admit" /\ cparent' = parent
    /\ UNCHANGED <<regVars, dumpVars, procVars, slots, failed, cid, cold_ok,
                   workVars>>

\* raw_command = "lightweight": a logical node that borrows its parent's
\* effective image; no writer, admission slot or fork.
Lightweight(parent, i) ==
    /\ pc = "idle" /\ ~failed
    /\ parent \in registry /\ Effective(parent) \in registry
    /\ i \in Ids \ used
    /\ used' = used \cup {i}
    /\ registry' = registry \cup {i}
    /\ node' = [node EXCEPT ![i] = [parent_id |-> parent, prev_ckpt_id |-> NoId,
                                    effective_restore_id |-> Effective(parent)]]
    /\ UNCHANGED <<taken, dumpVars, procVars, slots, failed, callVars, workVars>>

Admit(i) ==
    /\ pc = "admit" /\ slots > 0 /\ i \in Ids \ used
    /\ slots' = slots - 1
    /\ used' = used \cup {i}
    /\ cid' = i /\ pc' = "prepare"
    /\ UNCHANGED <<registry, node, taken, dumpVars, procVars, failed, cparent,
                   cold_ok, workVars>>

\* TimeoutError: neither self.failed nor the semaphore changes.
AdmitTimeout ==
    /\ pc = "admit" /\ slots = 0
    /\ Return
    /\ UNCHANGED <<regVars, dumpVars, procVars, slots, failed, workVars>>

\* Move the active off the namespace init (which stays behind as this
\* checkpoint's template), or stash a template of a non-init active.
Prepare ==
    /\ pc = "prepare" /\ agent \in {"init", "child"}
    /\ templates' = templates \cup {cid}
    /\ tmpl' = [tmpl EXCEPT ![cid] = mem]
    /\ init_tmpl' = IF agent = "init" THEN cid ELSE init_tmpl
    /\ agent' = "child"
    /\ Goto("fork")
    /\ UNCHANGED <<regVars, dumpVars, writer, killed, mem, slots, failed, workVars>>

\* The second copy of the stopped agent: the disposable dump process.
ForkDump ==
    /\ pc = "fork" /\ tmpl[cid] # Gone
    /\ writer' = [writer EXCEPT ![cid] = mem]
    /\ Goto("publish")
    /\ UNCHANGED <<regVars, dumpVars, templates, tmpl, killed, init_tmpl, agent,
                   mem, slots, failed, workVars>>

\* Insert the WARM_READY entry, submit _run and return to the caller.
Publish ==
    /\ pc = "publish"
    /\ registry' = registry \cup {cid}
    /\ node' = [node EXCEPT ![cid] =
                  [parent_id |-> cparent,
                   prev_ckpt_id |-> IF cparent = NoId THEN NoId
                                                      ELSE Effective(cparent),
                   effective_restore_id |-> cid]]
    /\ taken' = [taken EXCEPT ![cid] = mem]
    /\ state' = [state EXCEPT ![cid] = "WARM_READY"]
    /\ future' = [future EXCEPT ![cid] = "pending"]
    /\ queue' = Append(queue, cid)
    /\ Return
    /\ UNCHANGED <<used, dispose_done, image, procVars, slots, failed, wpc, wid>>

\* Mutant of Abort: discards the template without the ns_init_pid check.
AbortDiscardsInit(disposed) ==
    /\ pc \in {"prepare", "fork", "publish"}
    /\ failed' = TRUE
    /\ slots' = slots + 1
    /\ templates' = templates \ {cid}
    /\ tmpl' = [tmpl EXCEPT ![cid] = Gone]
    /\ writer' = [writer EXCEPT ![cid] = Gone]
    /\ Return
    /\ UNCHANGED <<regVars, dumpVars, killed, init_tmpl, agent, mem, workVars>>

\* Any step between admission and submission may raise.  The template is
\* discarded unless it is the namespace init; the dump process is disposed
\* of, which may itself time out; the permit is returned.
Abort(disposed) ==
    /\ pc \in {"prepare", "fork", "publish"}
    /\ failed' = TRUE
    /\ slots' = slots + 1
    /\ IF cid \in templates /\ init_tmpl # cid
         THEN /\ templates' = templates \ {cid}
              /\ tmpl' = [tmpl EXCEPT ![cid] = Gone]
         ELSE UNCHANGED <<templates, tmpl>>
    /\ IF disposed
         THEN writer' = [writer EXCEPT ![cid] = Gone] /\ UNCHANGED killed
         ELSE /\ writer[cid] # Gone
              /\ killed' = killed \cup {cid} /\ UNCHANGED writer
    /\ Return
    /\ UNCHANGED <<regVars, dumpVars, init_tmpl, agent, mem, workVars>>

-----------------------------------------------------------------------------
(* _run, on the single dump worker                                         *)

\* The images a restore of i, or a dump on top of i, has to read.
ChainPresent(i) ==
    \E S \in SUBSET Ids :
        /\ i \in S
        /\ \A j \in S : image[j] # Gone /\ Prev(j) \in S \cup {NoId}

Take ==
    /\ wpc = "idle" /\ queue # << >>
    /\ wid' = Head(queue) /\ queue' = Tail(queue)
    /\ wpc' = "parent"
    /\ UNCHANGED <<regVars, dumpVars, procVars, slots, failed, callVars>>

\* parent["dump_future"].result(): raises if the parent failed.
AwaitParent ==
    /\ wpc = "parent"
    /\ Prev(wid) # NoId => Done(Prev(wid))
    /\ IF Prev(wid) = NoId \/ state[Prev(wid)] = "DURABLE_READY"
         THEN /\ state' = [state EXCEPT ![wid] = "DUMPING"]
              /\ wpc' = "dump"
         ELSE /\ state' = [state EXCEPT ![wid] = "DURABLE_FAILED"]
              /\ wpc' = "dispose"
    /\ UNCHANGED <<regVars, future, dispose_done, image, procVars, slots, failed,
                   callVars, queue, wid>>

\* CRIU succeeds, the staging directory replaces the final one.
DumpCommits ==
    /\ wpc = "dump" /\ writer[wid] # Gone
    /\ Prev(wid) # NoId => ChainPresent(Prev(wid))
    /\ image' = [image EXCEPT ![wid] = writer[wid]]
    /\ state' = [state EXCEPT ![wid] = "DURABLE_READY"]
    /\ wpc' = "dispose"
    /\ UNCHANGED <<regVars, future, dispose_done, procVars, slots, failed,
                   callVars, queue, wid>>

DumpFails ==
    /\ wpc = "dump"
    /\ state' = [state EXCEPT ![wid] = "DURABLE_FAILED"]
    /\ wpc' = "dispose"
    /\ UNCHANGED <<regVars, future, dispose_done, image, procVars, slots, failed,
                   callVars, queue, wid>>

\* _dispose: SIGKILL through the pidfd and at most two seconds for the exit.
Dispose(exited) ==
    /\ wpc = "dispose"
    /\ IF exited
         THEN /\ writer' = [writer EXCEPT ![wid] = Gone]
              /\ dispose_done' = dispose_done \cup {wid}
              /\ UNCHANGED <<state, killed>>
         ELSE /\ writer[wid] # Gone
              /\ killed' = killed \cup {wid}
              /\ state' = [state EXCEPT ![wid] = "DURABLE_FAILED"]
              /\ UNCHANGED <<writer, dispose_done>>
    /\ wpc' = "release"
    /\ UNCHANGED <<regVars, future, image, templates, tmpl, init_tmpl, agent, mem,
                   slots, failed, callVars, queue, wid>>

Release ==
    /\ wpc = "release"
    /\ slots' = slots + 1
    /\ wpc' = "complete"
    /\ UNCHANGED <<regVars, dumpVars, procVars, failed, callVars, queue, wid>>

\* Mutant of Complete: the exception of a failed dump is never delivered.
CompleteOnSuccess ==
    /\ wpc = "complete"
    /\ future' = IF state[wid] = "DURABLE_READY" THEN [future EXCEPT ![wid] = "result"]
                                                ELSE future
    /\ wpc' = "idle" /\ wid' = NoId
    /\ UNCHANGED <<regVars, state, dispose_done, image, procVars, slots, failed,
                   callVars, queue>>

Complete ==
    /\ wpc = "complete"
    /\ future' = [future EXCEPT ![wid] =
                    IF state[wid] = "DURABLE_READY" THEN "result" ELSE "exception"]
    /\ wpc' = "idle" /\ wid' = NoId
    /\ UNCHANGED <<regVars, state, dispose_done, image, procVars, slots, failed,
                   callVars, queue>>

-----------------------------------------------------------------------------
(* restore_action                                                          *)

\* template_pool.get: a template whose process is gone is dropped.
RestoreCall(target, allow_cold_fallback) ==
    /\ pc = "idle" /\ target \in registry
    /\ LET e == Effective(target)
           live == e \in templates /\ tmpl[e] # Gone
           warm == live /\ ~FORCE_CRIU_RESTORE
       IN  /\ templates' = IF live THEN templates ELSE templates \ {e}
           /\ IF warm \/ allow_cold_fallback
                THEN /\ pc' = IF warm THEN "warm_kill" ELSE "join"
                     /\ cid' = e /\ cold_ok' = allow_cold_fallback
                     /\ UNCHANGED cparent
                ELSE Return
    /\ UNCHANGED <<regVars, dumpVars, tmpl, writer, killed, init_tmpl, agent, mem,
                   slots, failed, workVars>>

\* _join_durable_dump, before (join) or after (fallback_join) the kill.
Join ==
    /\ pc \in {"join", "fallback_join"} /\ Done(cid)
    /\ IF future[cid] = "result"
         THEN Goto(IF pc = "join" THEN "drain" ELSE "teardown")
         ELSE Return
    /\ UNCHANGED <<regVars, dumpVars, procVars, slots, failed, workVars>>

JoinTimeout ==
    /\ pc \in {"join", "fallback_join"} /\ Pending(cid)
    /\ Return
    /\ UNCHANGED <<regVars, dumpVars, procVars, slots, failed, workVars>>

\* drain_before_namespace_teardown looks at the exact-parent entries.
Detached == {i \in registry : future[i] # "none"}

\* Mutant of Drained: a finished future is taken for a finished writer.
DrainedByFuture == \A i \in Detached : Done(i)

Drained == \A i \in Detached : Done(i) /\ i \in dispose_done

DrainPasses ==
    /\ pc = "drain" /\ Drained
    /\ Goto("cold_kill")
    /\ UNCHANGED <<regVars, dumpVars, procVars, slots, failed, workVars>>

\* dispose_done is not True for a finished dump: its cleanup failed.
DrainRefuses ==
    /\ pc \in {"drain", "teardown"}
    /\ \E i \in Detached : Done(i) /\ i \notin dispose_done
    /\ Return
    /\ UNCHANGED <<regVars, dumpVars, procVars, slots, failed, workVars>>

DrainTimeout ==
    /\ pc \in {"drain", "teardown"}
    /\ \E i \in Detached : Pending(i)
    /\ Return
    /\ UNCHANGED <<regVars, dumpVars, procVars, slots, failed, workVars>>

\* The death of the namespace init takes every process of the namespace.
NamespaceDies ==
    /\ tmpl' = [i \in Ids |-> Gone]
    /\ writer' = [i \in Ids |-> Gone] /\ killed' = {}
    /\ agent' = "dead" /\ mem' = Gone /\ init_tmpl' = NoId

\* _kill_active_subtree spares pooled templates and unfinished dumps.
Protected == {i \in registry : Pending(i)}

KillActive(victims) ==
    /\ pc \in {"warm_kill", "cold_kill"}
    /\ victims \subseteq {i \in Ids : writer[i] # Gone} \ Protected
    /\ IF agent = "init"
         THEN NamespaceDies
         ELSE /\ agent' = "dead" /\ mem' = Gone
              /\ writer' = [i \in Ids |-> IF i \in victims THEN Gone ELSE writer[i]]
              /\ killed' = killed \ victims
              /\ UNCHANGED <<tmpl, init_tmpl>>
    /\ Goto(IF pc = "warm_kill" THEN "warm_fork" ELSE "teardown")
    /\ UNCHANGED <<regVars, dumpVars, templates, slots, failed, workVars>>

\* Mutant of WarmForkReplies: the namespace init answers the fork command.
WarmForkFromInit ==
    /\ pc = "warm_fork" /\ tmpl[cid] # Gone /\ init_tmpl # NoId
    /\ agent' = "child" /\ mem' = tmpl[init_tmpl]
    /\ Return
    /\ UNCHANGED <<regVars, dumpVars, templates, tmpl, writer, killed, init_tmpl,
                   slots, failed, workVars>>

WarmForkReplies ==
    /\ pc = "warm_fork" /\ tmpl[cid] # Gone
    /\ agent' = "child" /\ mem' = tmpl[cid]
    /\ Return
    /\ UNCHANGED <<regVars, dumpVars, templates, tmpl, writer, killed, init_tmpl,
                   slots, failed, workVars>>

\* Timeout, or the template is gone: fall back to CRIU where that is allowed.
WarmForkFails ==
    /\ pc = "warm_fork"
    /\ IF cold_ok THEN Goto("fallback_join") ELSE Return
    /\ UNCHANGED <<regVars, dumpVars, procVars, slots, failed, workVars>>

\* The second drain, then SIGKILL and waitpid of the namespace init.
Teardown ==
    /\ pc = "teardown" /\ Drained
    /\ NamespaceDies
    /\ Goto("criu")
    /\ UNCHANGED <<regVars, dumpVars, templates, slots, failed, workVars>>

CriuRestores ==
    /\ pc = "criu" /\ ChainPresent(cid)
    /\ mem' = image[cid] /\ agent' = "init"
    /\ templates' = {}
    /\ Return
    /\ UNCHANGED <<regVars, dumpVars, tmpl, writer, killed, init_tmpl, slots,
                   failed, workVars>>

CriuFails ==
    /\ pc = "criu"
    /\ Return
    /\ UNCHANGED <<regVars, dumpVars, procVars, slots, failed, workVars>>

-----------------------------------------------------------------------------
(* gc_obsolete_snapshots                                                   *)

Links(i) == {node[i].parent_id, node[i].prev_ckpt_id, node[i].effective_restore_id}

\* Mutant of retained_ids: pending writers are not kept.
RetainedWithoutPending(requested) ==
    {i \in registry :
        \A S \in SUBSET registry :
            (/\ requested \subseteq S
             /\ \A j \in S : Links(j) \cap registry \subseteq S) => i \in S}

\* Mutant of retained_ids: no ancestor closure.
RetainedWithoutClosure(requested) == registry \cap (requested \cup Protected)

\* Mutant of retained_ids: only the physical parent keeps an ancestor.
RetainedPhysical(requested) ==
    {i \in registry :
        \A S \in SUBSET registry :
            (/\ requested \cup Protected \subseteq S
             /\ \A j \in S : {Prev(j)} \cap registry \subseteq S) => i \in S}

\* retained_ids: the least set that holds the requested ids and every pending
\* writer, and is closed under the three ancestor links within the registry.
retained_ids(requested) ==
    {i \in registry :
        \A S \in SUBSET registry :
            (/\ requested \cup Protected \subseteq S
             /\ \A j \in S : Links(j) \cap registry \subseteq S) => i \in S}

\* keep stands for keep_ids or the keep_n newest, plus the lazy-page readers.
\* A pruned entry is dropped with its template and its image directory.
GC(keep) ==
    /\ pc = "idle" /\ keep \subseteq registry
    /\ LET kept == retained_ids(keep \cup (registry \cap {init_tmpl}))
           pruned == registry \ kept
           discarded == pruned \cap templates
           Drop(f, v) == [i \in Ids |-> IF i \in pruned THEN v ELSE f[i]]
       IN  /\ registry' = kept
           /\ node' = Drop(node, NoNode) /\ taken' = Drop(taken, Gone)
           /\ state' = Drop(state, "none") /\ future' = Drop(future, "none")
           /\ dispose_done' = dispose_done \ pruned
           /\ image' = Drop(image, Gone)
           /\ templates' = templates \ pruned
           /\ IF init_tmpl \in discarded
                THEN NamespaceDies
                ELSE /\ tmpl' = [i \in Ids |-> IF i \in discarded THEN Gone
                                                                 ELSE tmpl[i]]
                     /\ UNCHANGED <<writer, killed, agent, mem, init_tmpl>>
    /\ UNCHANGED <<used, slots, failed, callVars, workVars>>

-----------------------------------------------------------------------------
(* The environment                                                         *)

TemplateDies(i) ==
    /\ tmpl[i] # Gone /\ i # init_tmpl
    /\ tmpl' = [tmpl EXCEPT ![i] = Gone]
    /\ UNCHANGED <<regVars, dumpVars, templates, writer, killed, init_tmpl, agent,
                   mem, slots, failed, callVars, workVars>>

\* A writer that outlived the two seconds of _dispose exits at last.
WriterExitsLate(i) ==
    /\ i \in killed
    /\ writer' = [writer EXCEPT ![i] = Gone] /\ killed' = killed \ {i}
    /\ UNCHANGED <<regVars, dumpVars, templates, tmpl, init_tmpl, agent, mem,
                   slots, failed, callVars, workVars>>

-----------------------------------------------------------------------------
\* The steps that carry a call on; a timeout is never what a caller relies on.
Continue ==
    \/ \E i \in Ids : Admit(i)
    \/ Prepare \/ ForkDump \/ Publish
    \/ \E disposed \in BOOLEAN : Abort(disposed)
    \/ Join \/ DrainPasses \/ DrainRefuses
    \/ \E victims \in SUBSET Ids : KillActive(victims)
    \/ WarmForkReplies \/ WarmForkFails
    \/ Teardown \/ CriuRestores \/ CriuFails

Calls ==
    \/ Work
    \/ \E parent \in Ids \cup {NoId} : CheckpointCall(parent)
    \/ \E parent \in Ids, i \in Ids : Lightweight(parent, i)
    \/ \E target \in Ids, cold \in BOOLEAN : RestoreCall(target, cold)
    \/ \E keep \in SUBSET Ids : GC(keep)

Timeouts == AdmitTimeout \/ JoinTimeout \/ DrainTimeout

Worker ==
    \/ Take \/ AwaitParent \/ DumpCommits \/ DumpFails
    \/ \E exited \in BOOLEAN : Dispose(exited)
    \/ Release \/ Complete

Environment ==
    \E i \in Ids : TemplateDies(i) \/ WriterExitsLate(i)

Next == Calls \/ Continue \/ Timeouts \/ Worker \/ Environment

Spec == Init /\ [][Next]_vars

\* Both threads are scheduled and their blocking calls are bounded: CRIU and
\* every wait have a timeout, so a thread that can take a step takes one.
FairSpec == Spec /\ WF_vars(Worker) /\ WF_vars(Continue)

-----------------------------------------------------------------------------
(* Properties                                                              *)

RegType ==
    /\ registry \subseteq used /\ used \subseteq Ids
    /\ node \in [Ids -> Node]
    /\ taken \in [Ids -> Contents \cup {Gone}]

DumpType ==
    /\ state \in [Ids -> {"none", "WARM_READY", "DUMPING", "DURABLE_READY",
                          "DURABLE_FAILED"}]
    /\ future \in [Ids -> {"none", "pending", "result", "exception"}]
    /\ dispose_done \subseteq used
    /\ image \in [Ids -> Contents \cup {Gone}]

ProcType ==
    /\ templates \subseteq used /\ killed \subseteq used
    /\ tmpl \in [Ids -> Contents \cup {Gone}]
    /\ writer \in [Ids -> Contents \cup {Gone}]
    /\ init_tmpl \in used \cup {NoId}
    /\ agent \in {"init", "child", "dead"}
    /\ mem \in Contents \cup {Gone}

CallType ==
    /\ pc \in {"idle", "admit", "prepare", "fork", "publish", "join",
               "fallback_join", "drain", "warm_kill", "cold_kill", "warm_fork",
               "teardown", "criu"}
    /\ cid \in used \cup {NoId} /\ cparent \in registry \cup {NoId}
    /\ cold_ok \in BOOLEAN

WorkType ==
    /\ queue \in Seq(used)
    /\ wpc \in {"idle", "parent", "dump", "dispose", "release", "complete"}
    /\ wid \in used \cup {NoId}

\* Every variable keeps its type; ids in use were handed out, the call in
\* progress names a registered parent, and no permit is ever overdrawn.
TypeOK ==
    /\ RegType /\ DumpType /\ ProcType /\ CallType /\ WorkType
    /\ slots \in Nat /\ failed \in BOOLEAN

\* Who holds a permit of the semaphore: the checkpoint being built, the
\* submitted dumps, and the running one until _run releases it.
Owners ==
    Queued \cup (IF pc \in {"prepare", "fork", "publish"} THEN {cid} ELSE {})
           \cup (IF wpc \in {"parent", "dump", "dispose", "release"} THEN {wid}
                                                                     ELSE {})

\* Every permit is free or held by exactly one unfinished checkpoint: the
\* release in checkpoint's finally and the one in _run never both happen for
\* one checkpoint, and neither is skipped, on any path.
SlotAccounting == slots + Cardinality(Owners) = MaxPending

\* At most MaxPending dump processes are alive, apart from those that already
\* got SIGKILL and whose exit _dispose could not confirm in time.
WritersBounded ==
    Cardinality({i \in Ids : writer[i] # Gone} \ killed) <= MaxPending

\* The submitted dumps, and the running one until it is disposed of.
Dumping ==
    Queued \cup (IF wpc \in {"parent", "dump", "dispose"} THEN {wid} ELSE {})

\* Until _run disposes of it, the process a dump reads is alive, holds the
\* memory of its checkpoint, and is reachable from the registry, through which
\* _kill_active_subtree and gc_obsolete_snapshots protect it.
WriterUntouched ==
    \A i \in Dumping : i \in registry /\ Pending(i) /\ writer[i] = taken[i]

\* A registered DURABLE_READY checkpoint has its image, with the memory of
\* that checkpoint, and so has its whole physical ancestry: neither a failed
\* parent nor the garbage collector leaves a dangling --prev-images-dir.
ChainIntact ==
    \A i \in registry :
        state[i] = "DURABLE_READY" => image[i] = taken[i] /\ ChainPresent(i)

\* Logical parent, physical parent and effective target of a registered
\* checkpoint are registered, and the effective one is a physical checkpoint.
AncestorsRegistered ==
    \A i \in registry :
        /\ Links(i) \subseteq registry \cup {NoId}
        /\ Effective(i) # NoId /\ Effective(Effective(i)) = Effective(i)

\* The single worker never blocks on the future of a parent: parents are
\* submitted first, so the wait in _run cannot run into its own queue.
ParentSettled ==
    wpc = "parent" /\ Prev(wid) # NoId => Done(Prev(wid))

\* A non-init agent has a living namespace init above it: neither the cleanup
\* of a failed checkpoint nor the collector kills the template that is it.
NamespaceInitAlive ==
    agent = "child" => init_tmpl # NoId /\ tmpl[init_tmpl] # Gone

\* A namespace is torn down only when no registered checkpoint has a live dump
\* process: drain_before_namespace_teardown is a barrier for all of them.
TeardownAfterWriters ==
    [][Teardown => \A i \in registry : writer[i] = Gone]_vars

\* "cold teardown ... must not pass a cleanup that is unfinished or that
\* cleanup_error says failed" (replay/diagnostics/lineage/architecture.md):
\* as long as every published dump went through _run's own cleanup (no
\* checkpoint was aborted), no dump process is left at the teardown.  The code
\* does not keep this: the collector drops an entry whose cleanup failed.
TeardownAfterEveryWriter ==
    [][Teardown /\ ~failed => \A i \in Ids : writer[i] = Gone]_vars

\* What a restore destroys, it may: the namespace only when no registered
\* checkpoint has a live dump process in it, and the running agent only once
\* there is a template in the pool or a complete durable image of the target.
RestoreDestroysSafely ==
    [][/\ Teardown => \A i \in registry : writer[i] = Gone
       /\ agent # "dead" /\ agent' = "dead" =>
            cid \in templates \/ (future[cid] = "result" /\ ChainPresent(cid))]_vars

\* The labels of restore_action.
Restoring == {"join", "fallback_join", "drain", "warm_kill", "cold_kill",
              "warm_fork", "teardown", "criu"}

\* The protocol implements the store of whole sandbox states: a checkpoint
\* keeps the agent's memory, and a warm or cold restore, over whatever
\* interleaving of dumps, failures and collections, brings back exactly the
\* memory of its target or leaves no agent; nothing else costs the agent.
Store == INSTANCE CheckpointStore WITH
            cur <- mem, Dead <- Gone, Absent <- Gone, None <- NoId,
            saved <- [i \in Ids |-> IF i \in registry THEN taken[Effective(i)]
                                                     ELSE Gone],
            wanted <- IF pc \in Restoring THEN taken[cid] ELSE NoId
ImplementsStore == Store!StoreSpec

\* The dump future of a published checkpoint completes, on every path.
FutureCompletes == \A i \in Ids : Pending(i) ~> Done(i)

\* A checkpoint or restore call returns without the help of its timeouts.
CallReturns == pc # "idle" ~> pc = "idle"

\* Neither a dump nor a call waits for ever: the single dump worker, the
\* permits, the parents' futures and the joins of a restore never form a cycle.
NothingHangs == FutureCompletes /\ CallReturns
=============================================================================
