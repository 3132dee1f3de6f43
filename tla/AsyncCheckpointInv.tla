------------------------- MODULE AsyncCheckpointInv -------------------------
(***************************************************************************)
(* The inductive invariant of AsyncCheckpoint.  Each part strengthens one  *)
(* of the safety properties by what the two threads know about each other. *)
(***************************************************************************)
EXTENDS AsyncCheckpoint

Building == {"prepare", "fork", "publish"}

\* The call in progress works on a fresh id, or on a physical checkpoint.
CallInv ==
    /\ pc \in Building => cid \in used \ registry
    /\ pc \in Restoring => cid \in registry /\ Effective(cid) = cid
    /\ pc \notin Building \cup {"admit"} => cparent = NoId

\* Only registered checkpoints have dump state; the links stay registered.
RegistryInv ==
    /\ \A i \in Ids : /\ i \notin registry => future[i] = "none"
                      /\ future[i] = "none" => state[i] = "none"
    /\ \A i \in registry :
         /\ Links(i) \subseteq registry \cup {NoId}
         /\ Effective(i) \in registry
         /\ Effective(Effective(i)) = Effective(i)
         /\ Effective(i) = i <=> future[i] # "none"
         /\ Prev(i) # NoId => Effective(Prev(i)) = Prev(i)

\* The dump a worker position stands for.
Running == IF wpc = "idle" THEN {} ELSE {wid}

\* The unfinished futures are exactly the submitted dumps and the running one.
WorkerInv ==
    /\ \A j, k \in 1..Len(queue) : queue[j] = queue[k] => j = k
    /\ wpc # "idle" => wid \in registry /\ wid \notin Queued
    /\ \A i \in Ids : Pending(i) <=> i \in Queued \cup Running
    /\ \A i \in Queued : state[i] = "WARM_READY"
    /\ wpc = "parent" => state[wid] = "WARM_READY"
    /\ wpc = "dump" => state[wid] = "DUMPING"
    /\ wpc \in {"dispose", "release", "complete"} =>
         state[wid] \in {"DURABLE_READY", "DURABLE_FAILED"}
    /\ \A i \in registry : Done(i) =>
         state[i] = IF future[i] = "result" THEN "DURABLE_READY" ELSE "DURABLE_FAILED"

\* A submitted dump finds its parent finished, running or queued before it.
OrderInv ==
    /\ \A k \in 1..Len(queue) :
         LET p == Prev(queue[k])
         IN  \/ p = NoId \/ Done(p) \/ p \in Running
             \/ \E j \in 1..(k - 1) : queue[j] = p
    /\ wpc # "idle" => Prev(wid) = NoId \/ Done(Prev(wid))

\* Images of committed dumps stand on the images of committed parents.
ImageInv ==
    \A i \in registry :
        /\ state[i] \in {"DUMPING", "DURABLE_READY"} =>
             Prev(i) = NoId \/ future[Prev(i)] = "result"
        /\ state[i] = "DURABLE_READY" => image[i] = taken[i]

\* The processes of the namespace, below the init that holds it.
AgentInv ==
    /\ mem = Gone <=> agent = "dead"
    /\ init_tmpl = NoId =>
         agent # "child" /\ \A i \in Ids : tmpl[i] = Gone /\ writer[i] = Gone
    /\ init_tmpl # NoId =>
         agent # "init" /\ init_tmpl \in templates /\ tmpl[init_tmpl] # Gone
    /\ pc = "criu" => agent = "dead" /\ init_tmpl = NoId
    /\ pc \in {"fork", "publish"} => agent = "child"

\* The dump processes: one per unfinished dump, and those that outlived their
\* SIGKILL, whose cleanup nobody has confirmed.
WriterInv ==
    /\ WriterUntouched
    /\ \A i \in registry : future[i] # "none" => taken[i] # Gone
    /\ pc = "publish" => writer[cid] = mem
    /\ \A i \in Ids : writer[i] # Gone =>
         i \in killed \/ i \in Dumping \/ (pc = "publish" /\ i = cid)
    /\ \A i \in killed :
         /\ i \notin Dumping /\ (pc \in Building => cid # i)
         /\ i \in registry => future[i] # "none"
    /\ \A i \in dispose_done : i \in registry /\ i \notin Dumping /\ i \notin killed

\* The permits, with the finiteness that makes counting them meaningful.
SlotInv == IsFiniteSet(Owners) /\ SlotAccounting

IInv ==
    /\ TypeOK /\ CallInv /\ RegistryInv /\ WorkerInv /\ OrderInv
    /\ ImageInv /\ AgentInv /\ WriterInv

\* The warm template of a checkpoint holds the memory of that checkpoint.
TemplateInv ==
    /\ \A i \in Ids : tmpl[i] # Gone => i \in used
    /\ \A i \in registry : tmpl[i] # Gone => tmpl[i] = taken[i]
    /\ pc \in {"fork", "publish"} => tmpl[cid] \in {Gone, mem}

\* What a restore has made sure of before it destroys anything.
TargetInv ==
    /\ pc \in {"drain", "cold_kill", "teardown", "criu"} => future[cid] = "result"
    /\ pc = "warm_kill" => cid \in templates

RestoreInv == TemplateInv /\ TargetInv
=============================================================================
