---------------------------- MODULE LazyPrestart ----------------------------
(***************************************************************************)
(* The lazy-pages daemons of SandboxController: daemons started ahead of   *)
(* a restore for an image that has become durable, taken over by a restore *)
(* as the reader that serves the page faults of the restored agent, and    *)
(* stopped when the collector drops the image or the controller shuts      *)
(* down.                                                                   *)
(*                                                                         *)
(* Three threads: the CONTROLLER (restore_action, gc_obsolete_snapshots,   *)
(* shutdown), the DUMP WORKER, whose futures run _on_durable_image, and    *)
(* the single PRESTART thread of _lazy_prestart_pool.  One action is one   *)
(* section under _lazy_prestart_lock or one call outside it.               *)
(***************************************************************************)
EXTENDS Naturals, Sequences

CONSTANTS
    Images,            \* mem_path of the checkpoints
    NoImage,
    Daemons,           \* daemon processes, each started at most once (a bound)
    NoDaemon,
    lazy_prestart_max  \* DELTABOX_CRIU_LAZY_PRESTART_MAX

ASSUME NoImageAssumption == NoImage \notin Images
ASSUME NoDaemonAssumption == NoDaemon \notin Daemons
ASSUME MaxAssumption == lazy_prestart_max \in Nat \ {0}

VARIABLES
    dump,        \* per image: "none", "running", "done" (future set), "seen" (callback ran)
    registered,  \* images whose entry is in the registry
    present,     \* images whose directory exists
    prestarted,  \* _lazy_prestarted, in insertion order: images
    armed,       \* the daemon of each image in _lazy_prestarted
    futures,     \* keys of _lazy_prestart_futures
    retired,     \* _lazy_prestart_retired
    closing,     \* _lazy_prestart_closing
    readers,     \* _lazy_page_daemons
    alive,       \* daemons that run
    image,       \* deltabox_mem_path of a started daemon
    socket,      \* daemon bound to lazy-pages.socket of an image
    jobs,        \* queue of the prestart pool
    ppc, pimg, pproc, evicted,   \* the prestart thread
    cpc, cimg, cproc             \* the controller thread

dumpVars == <<dump, registered, present>>
listVars == <<prestarted, armed, futures, retired, closing>>
procVars == <<alive, image, socket>>
preVars == <<ppc, pimg, pproc, evicted>>
ctlVars == <<cpc, cimg, cproc>>
vars == <<dumpVars, listVars, readers, procVars, jobs, preVars, ctlVars>>

Started == {d \in Daemons : image[d] # NoImage}
Idle == {prestarted[k] : k \in 1..Len(prestarted)}

Init ==
    /\ dump = [p \in Images |-> "none"] /\ registered = {} /\ present = {}
    /\ prestarted = <<>> /\ armed = [p \in Images |-> NoDaemon]
    /\ futures = {} /\ retired = {} /\ closing = FALSE
    /\ readers = {} /\ alive = {} /\ image = [d \in Daemons |-> NoImage]
    /\ socket = [p \in Images |-> NoDaemon] /\ jobs = <<>>
    /\ ppc = "idle" /\ pimg = NoImage /\ pproc = NoDaemon /\ evicted = {}
    /\ cpc = "idle" /\ cimg = NoImage /\ cproc = NoDaemon

-----------------------------------------------------------------------------
(* Starting and stopping a daemon.                                         *)

\* The daemon is ready: the socket file was unlinked, and it bound a new one.
Spawn(p, d) ==
    /\ d \in Daemons \ Started /\ p \in present
    /\ alive' = alive \cup {d}
    /\ image' = [image EXCEPT ![d] = p]
    /\ socket' = [socket EXCEPT ![p] = d]

\* terminate(), then kill(), and wait(): the process has exited.
Stop(ds) ==
    /\ alive' = alive \ ds
    /\ UNCHANGED <<image, socket>>

Refused(p) == closing \/ p \in retired

\* _schedule_lazy_prestart: one request per image, none once it is retired.
Schedule(p) ==
    IF Refused(p) \/ p \in Idle \/ p \in futures
    THEN UNCHANGED <<futures, jobs>>
    ELSE futures' = futures \cup {p} /\ jobs' = Append(jobs, p)

\* dict.pop(p): the image is no longer armed.
Pop(p) ==
    /\ prestarted' = SelectSeq(prestarted, LAMBDA q : q # p)
    /\ armed' = [armed EXCEPT ![p] = NoDaemon]

-----------------------------------------------------------------------------
(* The dump worker.                                                        *)

\* checkpoint publishes the entry with its future; _watch_lazy_prestart.
Checkpoint(p) ==
    /\ cpc = "idle" /\ dump[p] = "none"
    /\ dump' = [dump EXCEPT ![p] = "running"]
    /\ registered' = registered \cup {p}
    /\ UNCHANGED <<present, listVars, readers, procVars, jobs, preVars, ctlVars>>

\* The image is in place and future.set_result has woken the waiters.
DumpDone(p) ==
    /\ dump[p] = "running"
    /\ dump' = [dump EXCEPT ![p] = "done"]
    /\ present' = present \cup {p}
    /\ UNCHANGED <<registered, listVars, readers, procVars, jobs, preVars, ctlVars>>

\* The dump failed: its callback schedules nothing.
DumpFailed(p) ==
    /\ dump[p] = "running"
    /\ dump' = [dump EXCEPT ![p] = "seen"]
    /\ UNCHANGED <<registered, present, listVars, readers, procVars, jobs, preVars, ctlVars>>

\* set_result then runs the callback, on the dump worker.
OnDurableImage(p) ==
    /\ dump[p] = "done"
    /\ dump' = [dump EXCEPT ![p] = "seen"]
    /\ Schedule(p)
    /\ UNCHANGED <<registered, present, prestarted, armed, retired, closing, readers,
                   procVars, preVars, ctlVars>>

-----------------------------------------------------------------------------
(* The prestart thread: _prestart_lazy_pages_daemon.                       *)

PreGoto(label) == ppc' = label /\ UNCHANGED pimg

\* The images popped, oldest first, while len(_lazy_prestarted) >= max.
Evictions == IF Len(prestarted) >= lazy_prestart_max
             THEN Len(prestarted) - lazy_prestart_max + 1 ELSE 0

\* First section under the lock: give up, or make room.
PreBegin ==
    /\ ppc = "idle" /\ jobs # <<>>
    /\ jobs' = Tail(jobs) /\ pimg' = Head(jobs)
    /\ IF Refused(Head(jobs))
       THEN ppc' = "finally" /\ UNCHANGED <<prestarted, armed, evicted>>
       ELSE LET old == {prestarted[k] : k \in 1..Evictions} IN
            /\ ppc' = "evict"
            /\ evicted' = {armed[p] : p \in old}
            /\ prestarted' = SubSeq(prestarted, Evictions + 1, Len(prestarted))
            /\ armed' = [p \in Images |-> IF p \in old THEN NoDaemon ELSE armed[p]]
    /\ UNCHANGED <<dumpVars, futures, retired, closing, readers, procVars, pproc, ctlVars>>

\* Stops the evicted daemons, then checks that the image directory exists.
PreEvict ==
    /\ ppc = "evict"
    /\ Stop(evicted) /\ evicted' = {}
    /\ PreGoto(IF pimg \in present THEN "spawn" ELSE "finally")
    /\ UNCHANGED <<dumpVars, listVars, readers, jobs, pproc, ctlVars>>

PreSpawn(d) ==
    /\ ppc = "spawn" /\ Spawn(pimg, d)
    /\ pproc' = d /\ PreGoto("keep")
    /\ UNCHANGED <<dumpVars, listVars, readers, jobs, evicted, ctlVars>>

\* Mutant of PreSpawnFails: the request never completes.
PreSpawnFailsSilently ==
    /\ ppc = "spawn" /\ ppc' = "idle" /\ pimg' = NoImage
    /\ UNCHANGED <<dumpVars, listVars, readers, procVars, jobs, pproc, evicted, ctlVars>>

\* The daemon died, never signalled ready, or its directory went away.
PreSpawnFails ==
    /\ ppc = "spawn" /\ PreGoto("finally")
    /\ UNCHANGED <<dumpVars, listVars, readers, procVars, jobs, pproc, evicted, ctlVars>>

\* Second section under the lock: arm the daemon unless the image was retired.
PreKeep ==
    /\ ppc = "keep"
    /\ IF Refused(pimg)
       THEN PreGoto("drop") /\ UNCHANGED <<prestarted, armed, pproc>>
       ELSE /\ prestarted' = Append(prestarted, pimg)
            /\ armed' = [armed EXCEPT ![pimg] = pproc]
            /\ pproc' = NoDaemon /\ PreGoto("finally")
    /\ UNCHANGED <<dumpVars, futures, retired, closing, readers, procVars, jobs, evicted,
                   ctlVars>>

PreDrop ==
    /\ ppc = "drop" /\ Stop({pproc}) /\ pproc' = NoDaemon /\ PreGoto("finally")
    /\ UNCHANGED <<dumpVars, listVars, readers, jobs, evicted, ctlVars>>

\* The finally clause: the request is over, its future completes.
PreFinally ==
    /\ ppc = "finally"
    /\ futures' = futures \ {pimg}
    /\ ppc' = "idle" /\ pimg' = NoImage
    /\ cpc' = IF cpc = "wait" /\ cimg = pimg THEN "take again" ELSE cpc
    /\ UNCHANGED <<dumpVars, prestarted, armed, retired, closing, readers, procVars, jobs,
                   pproc, evicted, cimg, cproc>>

Prestart ==
    \/ PreBegin \/ PreEvict \/ PreSpawnFails \/ PreKeep \/ PreDrop \/ PreFinally
    \/ \E d \in Daemons : PreSpawn(d)

-----------------------------------------------------------------------------
(* The controller thread: a cold lazy restore.                             *)

CtlGoto(label) == cpc' = label /\ UNCHANGED <<cimg, cproc>>
Return == cpc' = "idle" /\ cimg' = NoImage /\ cproc' = NoDaemon

\* restore_action has joined the dump of the image and ended the active agent.
RestoreCall(p) ==
    /\ cpc = "idle" /\ p \in registered \cap present /\ dump[p] # "running"
    /\ cpc' = "take" /\ cimg' = p /\ UNCHANGED cproc
    /\ UNCHANGED <<dumpVars, listVars, readers, procVars, jobs, preVars>>

\* A live daemon becomes a reader; a dead one is replaced by a new start.
Adopt(d) ==
    IF d \in alive
    THEN readers' = readers \cup {d} /\ cproc' = d /\ cpc' = "criu" /\ UNCHANGED cimg
    ELSE CtlGoto("start") /\ UNCHANGED readers

\* _take_lazy_pages_daemon: the armed daemon, or the request in flight.
TakeArmed ==
    /\ cpc \in {"take", "take again"} /\ cimg \in Idle
    /\ Adopt(armed[cimg]) /\ Pop(cimg)
    /\ UNCHANGED <<dumpVars, futures, retired, closing, procVars, jobs, preVars>>

TakePending ==
    /\ cpc = "take" /\ cimg \notin Idle /\ cimg \in futures
    /\ CtlGoto("wait")
    /\ UNCHANGED <<dumpVars, listVars, readers, procVars, jobs, preVars>>

TakeNothing ==
    /\ cpc \in {"take", "take again"} /\ cimg \notin Idle
    /\ cpc = "take" => cimg \notin futures
    /\ CtlGoto("start")
    /\ UNCHANGED <<dumpVars, listVars, readers, procVars, jobs, preVars>>

\* pending.result(timeout=10) raises: the restore fails.
WaitTimeout ==
    /\ cpc = "wait" /\ Return
    /\ UNCHANGED <<dumpVars, listVars, readers, procVars, jobs, preVars>>

\* _start_lazy_pages_daemon forgets the readers that exited.
Start(d) ==
    /\ cpc = "start" /\ Spawn(cimg, d)
    /\ readers' = (readers \cap alive) \cup {d}
    /\ cproc' = d /\ cpc' = "criu" /\ UNCHANGED cimg
    /\ UNCHANGED <<dumpVars, listVars, jobs, preVars>>

StartFails ==
    /\ cpc = "start" /\ readers' = readers \cap alive /\ Return
    /\ UNCHANGED <<dumpVars, listVars, procVars, jobs, preVars>>

\* CRIU connected the restored agent; a new daemon is asked for the next restore.
CriuDone ==
    /\ cpc = "criu" /\ Schedule(cimg) /\ Return
    /\ UNCHANGED <<dumpVars, prestarted, armed, retired, closing, readers, procVars, preVars>>

CriuFails ==
    /\ cpc = "criu" /\ Stop({cproc}) /\ readers' = readers \cap (alive \ {cproc}) /\ Return
    /\ UNCHANGED <<dumpVars, listVars, jobs, preVars>>

-----------------------------------------------------------------------------
(* The controller thread: the collector and the shutdown.                  *)

\* Mutant of Pinned: only the newest request pins its image.
PinnedNewest == IF cproc \in readers \cap alive THEN {image[cproc]} ELSE {}

\* _lazy_reader_ids: the images live readers pin.
Pinned == {image[d] : d \in readers \cap alive}

\* Mutant of Collect: the idle daemon of the image is forgotten.
CollectForgets(p) ==
    /\ cpc = "idle" /\ p \in registered \ Pinned /\ dump[p] # "running"
    /\ readers' = readers \cap alive
    /\ registered' = registered \ {p}
    /\ retired' = retired \cup {p} /\ Pop(p)
    /\ cpc' = "collect" /\ cimg' = p /\ cproc' = NoDaemon
    /\ UNCHANGED <<dump, present, futures, closing, procVars, jobs, preVars>>

\* gc_obsolete_snapshots drops an entry: its image is retired first.
Collect(p) ==
    /\ cpc = "idle" /\ p \in registered \ Pinned /\ dump[p] # "running"
    /\ readers' = readers \cap alive
    /\ registered' = registered \ {p}
    /\ retired' = retired \cup {p} /\ Pop(p)
    /\ cpc' = "collect" /\ cimg' = p /\ cproc' = armed[p]
    /\ UNCHANGED <<dump, present, futures, closing, procVars, jobs, preVars>>

\* The idle daemon is stopped before the directory is removed.
Remove ==
    /\ cpc = "collect"
    /\ Stop({cproc}) /\ present' = present \ {cimg} /\ Return
    /\ UNCHANGED <<dump, registered, listVars, readers, jobs, preVars>>

\* shutdown: the dump pool has ended, with its callbacks; _close_lazy_prestart.
Shutdown ==
    /\ cpc = "idle" /\ \A p \in Images : dump[p] \in {"none", "seen"}
    /\ closing' = TRUE /\ CtlGoto("close")
    /\ UNCHANGED <<dumpVars, prestarted, armed, futures, retired, readers, procVars, jobs,
                   preVars>>

\* The prestart pool has ended: the idle daemons and then the readers are stopped.
Close ==
    /\ cpc = "close" /\ jobs = <<>> /\ ppc = "idle"
    /\ Stop({armed[p] : p \in Idle} \cup readers)
    /\ prestarted' = <<>> /\ armed' = [p \in Images |-> NoDaemon]
    /\ readers' = {} /\ CtlGoto("closed")
    /\ UNCHANGED <<dumpVars, futures, retired, closing, jobs, preVars>>

\* The steps that carry a call of the controller on, without its timeout.
Continue ==
    \/ TakeArmed \/ TakePending \/ TakeNothing \/ StartFails
    \/ CriuDone \/ CriuFails \/ Remove \/ Close
    \/ \E d \in Daemons : Start(d)

Calls == Shutdown \/ \E p \in Images : Checkpoint(p) \/ RestoreCall(p) \/ Collect(p)

DumpWorker == \E p \in Images : DumpDone(p) \/ DumpFailed(p) \/ OnDurableImage(p)

\* A daemon ends by itself: its agent has all its pages, or it crashed.
DaemonExits(d) ==
    /\ d \in alive /\ alive' = alive \ {d}
    /\ UNCHANGED <<dumpVars, listVars, readers, image, socket, jobs, preVars, ctlVars>>

\* After shutdown the controller makes no further call.
Closed == cpc = "closed" /\ UNCHANGED vars

Next ==
    \/ Calls \/ Continue \/ WaitTimeout \/ Prestart \/ DumpWorker \/ Closed
    \/ \E d \in Daemons : DaemonExits(d)

Spec == Init /\ [][Next]_vars

\* Both threads are scheduled, and every call they block in is bounded.
FairSpec == Spec /\ WF_vars(Continue) /\ WF_vars(Prestart)

-----------------------------------------------------------------------------
(* Properties.                                                             *)

\* Every running daemon is known to somebody who will stop it: it is armed, a
\* reader, or in the hands of a thread that is about to stop, arm or use it.
\* At most lazy_prestart_max are armed, each for its own image, and after
\* shutdown none runs, whatever was starting when it was called.
NoOrphanDaemon ==
    /\ alive \subseteq readers \cup {armed[p] : p \in Idle} \cup evicted \cup {pproc, cproc}
    /\ Len(prestarted) <= lazy_prestart_max
    /\ \A p \in Images : IF p \in Idle THEN image[armed[p]] = p ELSE armed[p] = NoDaemon
    /\ cpc = "closed" => alive = {}

\* The collector and the page daemons do not pull images from under each other:
\* the image a live reader serves pages from is kept, and a daemon that finishes
\* starting after its image was retired is stopped, never armed.
ImagesKept ==
    /\ \A d \in readers \cap alive : image[d] \in present \cap registered
    /\ Idle \cap retired = {}

\* A restore, a collection and a shutdown come to their end without the
\* timeout of the wait for a daemon that is just being started.
CallEnds == cpc \notin {"idle", "closed"} ~> cpc \in {"idle", "closed"}

\* While CRIU restores from an image, its socket belongs to the daemon the
\* restore took ("Two daemons must never bind the same image socket").  The code
\* does not keep this.
SocketHeld == cpc = "criu" => socket[cimg] = cproc

=============================================================================
