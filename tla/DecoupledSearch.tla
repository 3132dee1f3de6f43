--------------------------- MODULE DecoupledSearch ---------------------------
(***************************************************************************)
(* The decoupled tree search (agent/host/decoupled_mcts.py): the host      *)
(* drives one checkpointable worker.  It selects a node by UCT, restores   *)
(* the sandbox unless it is already there, asks the worker for one step,   *)
(* checkpoints the result as a child and propagates its value.             *)
(*                                                                         *)
(* The driver's checkpoint and restore act on the worker of AgentWorker;   *)
(* the restored worker runs before the epoch is bumped.                    *)
(***************************************************************************)
EXTENDS AgentWorker

LOCAL INSTANCE FiniteSetsExt

CONSTANTS
    max_iter,        \* config["max_iter"]
    max_expansions,  \* config["max_expansions"]
    verify_cmd       \* config["verify_cmd"] is given

ASSUME IterAssumption == max_iter \in 1..4   \* the extent of the table Bonus
ASSUME ExpansionsAssumption == max_expansions \in Nat \ {0}
ASSUME VerifyAssumption == verify_cmd \in BOOLEAN

VARIABLES
    pc,      \* where run_decoupled is
    tree,    \* nodes, by id + 1: parent, action, snap, visits, value, reward, depth
    current, \* the node the host takes the sandbox to be at
    target,  \* the node to expand, or the best one at the end
    action,  \* the action of the last step
    it,      \* iterations started
    final,   \* the loop is over
    dirty,   \* the node whose verification has changed the files since the last restore
    patch    \* what final_patch is the diff of: the worker's path, and dirty

posVars == <<current, target, action, it, final>>
hostVars == <<pc, tree, posVars, dirty, patch>>
vars == <<channelVars, hostVars>>

NoNode == 0
Root == 1
Nodes == 1..Len(tree)
Finished(n) == n # Root /\ tree[n].action.kind = "finish"
Children(n) == {c \in Nodes : tree[c].parent = n}

NewNode(p, act) ==
    [parent |-> p, action |-> act, snap |-> worker, visits |-> 0, value |-> 0,
     reward |-> 0, depth |-> IF p = NoNode THEN 0 ELSE tree[p].depth + 1]

Init ==
    /\ ChannelInit
    /\ pc = "init" /\ tree = <<>> /\ current = NoNode /\ target = NoNode
    /\ action = <<>> /\ it = 0 /\ final = FALSE /\ dirty = NoNode /\ patch = <<>>

-----------------------------------------------------------------------------
(* _uct and _select.  Values are in hundredths, scores in 1/12000.         *)

\* UCT_C * sqrt(log(parent_visits + 1) / visits), rounded.
Bonus == << <<13987, 9890, 8075, 6993>>,
            <<17609, 12451, 10166, 8804>>,
            <<19780, 13987, 11420, 9890>>,
            <<21313, 15071, 12305, 10657>> >>

Uct(c, parent_visits) ==
    (tree[c].value * 120) \div tree[c].visits + Bonus[parent_visits][tree[c].visits]

\* max(children, key=_uct): the first of the best.
BestChild(n) ==
    CHOOSE c \in Children(n) : \A d \in Children(n) :
        LET uc == Uct(c, tree[n].visits)
            ud == Uct(d, tree[n].visits)
        IN  uc > ud \/ (uc = ud /\ c <= d)

Expandable(n) == ~Finished(n) /\ Cardinality(Children(n)) < max_expansions

Select ==
    LET Descend[n \in Nodes] ==
            IF Expandable(n) THEN n
            ELSE IF Children(n) = {} THEN NoNode ELSE Descend[BestChild(n)]
    IN  Descend[Root]

-----------------------------------------------------------------------------
(* Calls of the worker.                                                    *)

Goto(label) == pc' = label

Call(ctrl, at, then) ==
    /\ pc = at /\ Send(ctrl) /\ Goto(then)
    /\ UNCHANGED <<up, worker, agent_out, npdVars, epoch, rids, tree, posVars, dirty, patch>>

Awaiting == pc \in {"await init", "await state", "await step"}

Skip == Awaiting /\ SkipReply /\ UNCHANGED hostVars

\* The reply to the call in progress; a failed one ends the search.
Received(at, then) ==
    /\ pc = at /\ Answered
    /\ Goto(IF Head(agent_out).ok THEN then ELSE "failed")
    /\ action' = Head(agent_out).action
    /\ agent_out' = Tail(agent_out)
    /\ UNCHANGED <<up, worker, agent_in, npdVars, epoch, rids, seq, tree, current, target, it,
                   final, dirty, patch>>

\* "worker step failed; aborting to avoid a late action".
CallTimeout ==
    /\ Awaiting /\ Goto("failed")
    /\ UNCHANGED <<channelVars, tree, posVars, dirty, patch>>

-----------------------------------------------------------------------------
(* The driver.  Its failures end the search.                               *)

DriverFails ==
    /\ pc \in {"checkpoint", "restore", "fork"} /\ Goto("failed")
    /\ UNCHANGED <<channelVars, tree, posVars, dirty, patch>>

\* checkpoint: the root after init, a child of the target after a step.
Checkpoint ==
    /\ pc = "checkpoint"
    /\ tree' = Append(tree, NewNode(target, action))
    /\ current' = Len(tree) + 1
    /\ Goto(IF target = NoNode THEN "select" ELSE "evaluate")
    /\ UNCHANGED <<channelVars, target, action, it, final, dirty, patch>>

\* The active worker is killed; what it wrote to the FIFOs stays there.
RestoreKill ==
    /\ pc = "restore" /\ Goto("fork")
    /\ up' = FALSE /\ worker' = NewWorker
    /\ UNCHANGED <<fifoVars, npdVars, epoch, rids, seq, tree, posVars, dirty, patch>>

\* The template fork, or the process CRIU restored, runs from here on.
RestoreFork(cold) ==
    /\ pc = "fork" /\ Goto(IF cold THEN "invalidate" ELSE "bump")
    /\ up' = TRUE /\ worker' = tree[target].snap /\ dirty' = NoNode
    /\ UNCHANGED <<fifoVars, npdVars, epoch, rids, seq, tree, posVars, patch>>

\* _bump_epoch; a cold restore then sweeps the responses and sends the abort.
BumpEpoch ==
    /\ pc \in {"bump", "invalidate"} /\ epoch' = epoch + 1
    /\ Goto(IF pc = "bump" THEN "restored" ELSE "sweep")
    /\ UNCHANGED <<up, worker, fifoVars, npdVars, rids, seq, tree, posVars, dirty, patch>>

UnlinkPendingRespFiles ==
    /\ pc = "sweep" /\ responses' = {} /\ Goto("abort")
    /\ UNCHANGED <<up, worker, fifoVars, req_fifo, notify_fifo, tasks, epoch, rids, seq, tree,
                   posVars, dirty, patch>>

WriteCtrlAbortPendingAll ==
    /\ pc = "abort" /\ Goto("restored")
    /\ agent_in' = Append(agent_in, [ctrl |-> "abort_pending_all", ctrl_id |-> NoCtrl])
    /\ UNCHANGED <<up, worker, agent_out, npdVars, epoch, rids, seq, tree, posVars, dirty,
                   patch>>

\* reopen drains the replies of the old branch before the handshake; the last
\* restore, of the best node, is not followed by a reopen.
Restored ==
    /\ pc = "restored"
    /\ current' = target
    /\ IF final THEN UNCHANGED agent_out /\ Goto("patch")
                ELSE agent_out' = <<>> /\ Goto("state")
    /\ UNCHANGED <<up, worker, agent_in, npdVars, epoch, rids, seq, tree, target, action, it,
                   final, dirty, patch>>

-----------------------------------------------------------------------------
(* The loop of run_decoupled.                                              *)

\* restore, unless the sandbox is at the node already.
GoThere(n, then) == Goto(IF n = current THEN then ELSE "restore")

SelectTarget ==
    /\ pc = "select" /\ it < max_iter /\ Select # NoNode
    /\ target' = Select /\ it' = it + 1
    /\ GoThere(Select, "step")
    /\ UNCHANGED <<channelVars, tree, current, action, final, dirty, patch>>

\* What _evaluate can return, in hundredths.
Values(act) ==
    CASE act.kind = "finish" -> IF verify_cmd THEN {100, 20} ELSE {70, 30}
      [] act.kind = "edit" -> {60, 40, 15}
      [] OTHER -> {40, 15}

Backprop(n, v) ==
    LET Above[m \in Nodes] == {m} \cup IF tree[m].parent = NoNode THEN {}
                                       ELSE Above[tree[m].parent]
    IN  [m \in Nodes |-> IF m \in Above[n]
                         THEN [tree[m] EXCEPT !.visits = @ + 1, !.value = @ + v]
                         ELSE tree[m]]

\* verify_cmd is any command; it runs in the live sandbox, after the checkpoint.
Evaluate(v) ==
    /\ pc = "evaluate" /\ v \in Values(tree[current].action)
    /\ LET t == Backprop(current, v) IN
       tree' = IF Finished(current) THEN [t EXCEPT ![current].reward = v] ELSE t
    /\ dirty' \in {dirty} \cup IF Finished(current) /\ verify_cmd THEN {current} ELSE {}
    /\ Goto("select")
    /\ UNCHANGED <<channelVars, posVars, patch>>

\* The finished node with the highest reward, then depth; or the deepest edit.
Best ==
    LET candidates == {n \in Nodes : Finished(n)}
        edits == {n \in Nodes \ {Root} : tree[n].action.kind = "edit"}
        Key(n) == 100 * tree[n].reward + tree[n].depth
        First(S, K(_)) ==
            CHOOSE n \in S : \A m \in S : K(n) > K(m) \/ (K(n) = K(m) /\ n <= m)
    IN  IF candidates # {} THEN First(candidates, Key)
        ELSE IF edits # {} THEN First(edits, LAMBDA n : tree[n].depth) ELSE NoNode

\* Mutant of EndSearch: the patch is taken where the search stopped.
EndSearchStays ==
    /\ pc = "select" /\ (it = max_iter \/ Select = NoNode)
    /\ final' = TRUE /\ target' = Best
    /\ IF Best = NoNode THEN Goto("done") ELSE Goto("patch")
    /\ UNCHANGED <<channelVars, tree, current, action, it, dirty, patch>>

\* The iterations are used up, or _select found nothing to expand.
EndSearch ==
    /\ pc = "select" /\ (it = max_iter \/ Select = NoNode)
    /\ final' = TRUE /\ target' = Best
    /\ IF Best = NoNode THEN Goto("done") ELSE GoThere(Best, "patch")
    /\ UNCHANGED <<channelVars, tree, current, action, it, dirty, patch>>

\* The diff of the live sandbox, with what a verification left in it.
GitDiff ==
    /\ pc = "patch" /\ patch' = [path |-> worker.path, dirty |-> dirty] /\ Goto("done")
    /\ UNCHANGED <<channelVars, tree, posVars, dirty>>

-----------------------------------------------------------------------------
Host ==
    \/ Call("init", "init", "await init") \/ Call("state", "state", "await state")
    \/ Call("step", "step", "await step")
    \/ Received("await init", "checkpoint") \/ Received("await state", "step")
    \/ Received("await step", "checkpoint")
    \/ Skip \/ Checkpoint
    \/ RestoreKill \/ \E cold \in BOOLEAN : RestoreFork(cold)
    \/ BumpEpoch \/ UnlinkPendingRespFiles \/ WriteCtrlAbortPendingAll \/ Restored
    \/ SelectTarget \/ EndSearch \/ GitDiff
    \/ \E v \in 0..100 : Evaluate(v)

Over == pc \in {"done", "failed"}

Next ==
    \/ Host \/ CallTimeout \/ DriverFails
    \/ (Worker \/ Npd) /\ UNCHANGED hostVars
    \/ Over /\ UNCHANGED vars

Spec == Init /\ [][Next]_vars

\* The host, the worker and the NPD threads are scheduled; _chat is bounded by
\* its attempts and its HTTP timeout.  No fairness for timeouts and failures.
FairSpec ==
    /\ Spec /\ WF_vars(Host)
    /\ WF_vars(Worker /\ UNCHANGED hostVars) /\ WF_vars(Npd /\ UNCHANGED hostVars)

-----------------------------------------------------------------------------
(* Properties.                                                             *)

\* A node's checkpoint holds its parent's state plus the one action the host
\* recorded for it: no late or foreign response is executed in between, over
\* any interleaving of restores, the worker and the NPD.  Between iterations the
\* statistics of every node are those of its subtree.
TreeFaithful ==
    /\ \A n \in Nodes \ {Root} :
          tree[n].snap.path = Append(tree[tree[n].parent].snap.path, tree[n].action)
    /\ pc = "select" => \A n \in Nodes :
          /\ tree[n].visits = (IF n = Root THEN 0 ELSE 1)
                              + MapThenSumSet(LAMBDA c : tree[c].visits, Children(n))
          /\ LET below == MapThenSumSet(LAMBDA c : tree[c].value, Children(n)) IN
             IF n = Root THEN tree[n].value = below ELSE tree[n].value > below

\* Checkpoints and restores happen only between steps: no snapshot holds a
\* pending model call or an unread command, and outside "await step" nothing
\* is in flight, which is why a warm restore may leave the responses alone.
Quiet ==
    /\ \A n \in Nodes : tree[n].snap.pending = {} /\ tree[n].snap.in_buf = <<>>
    /\ InFlight => pc \in {"await step", "failed"}

\* Where the host skips the restore, the sandbox is at the node it expands, and
\* no verification has changed it since.  The patch is taken from the state of
\* the best node; what else may be in it was left by the verification of that
\* same node, never of another one.  Nothing of another node is in flight at
\* either point.
SandboxAtNode ==
    /\ Quiet
    /\ pc = "select" => worker.path = tree[current].snap.path /\ dirty \in {NoNode, current}
    /\ pc = "step" => worker.path = tree[target].snap.path /\ dirty = NoNode
    /\ pc = "done" /\ target # NoNode =>
          /\ patch.path = tree[target].snap.path /\ patch.dirty \in {NoNode, target}
          /\ \A n \in Nodes : Finished(n) => Finished(target)

\* "Pick the best candidate [...], then materialise its patch"
\* (decoupled_mcts.py:263): the patch is that of the node's checkpoint.  The code
\* does not keep this: the search may stop at the best node, whose verification
\* has changed the files, and then does not restore it.
PatchOfCheckpoint ==
    pc = "done" /\ target # NoNode => patch.dirty = NoNode

\* Every search comes to its end without the help of a timeout.
SearchEnds == <>Over

\* "Returns None if the whole tree is exhausted (every reachable leaf is
\* finished)" (decoupled_mcts.py, _select).  The code does not keep this: it
\* descends into the child with the best score only.
SelectExhausts ==
    [][EndSearch /\ it < max_iter => \A n \in Nodes : ~Expandable(n)]_vars
=============================================================================
