------------------------------ MODULE AgentMCTS ------------------------------
(***************************************************************************)
(* The live tree search (upper/agent/search.py) and the evaluation that    *)
(* drives it (upper/agent/run_eval.py): select a node, restore its         *)
(* checkpoint, let the agent act on a child, capture the patch, verify it, *)
(* checkpoint the child, and at the end rank the patches.                  *)
(*                                                                         *)
(* The agent's model is external: an action is chosen from Actions.  The   *)
(* messages that the search puts before it are left out; every counter and *)
(* flag that steers the search is kept, its thresholds are constants.      *)
(***************************************************************************)
EXTENDS ShellSandbox

LOCAL INSTANCE FiniteSetsExt

CONSTANTS
    max_expansions,
    Edits,            \* repository states an action may write
    Inert,            \* contents that differ from the base by comments only
    edit_first, edit_always, live_verify,
    live_verify_max, verify_max_candidates,
    FailureFork,      \* forks after a failed test or live verification (4)
    HostFork,         \* forks after a failed host verification (5)
    PlateauFork,      \* forks after a plateau (4 when warned, 5 when reached)
    NoopFork,         \* forks after an edit without a patch (3)
    EmptyFork,        \* forks after many turns without a patch (4)
    PlateauWarn,      \* iterations without a new patch before forking (6)
    PatchPlateau,     \* iterations after the first patch or test failure (18)
    NovelPlateau,     \* iterations without a new patch before stopping (10)
    LivePassSlack,    \* iterations after a passing verification (4)
    UniquePatches,    \* patches to look for before stopping at a plateau (3)
    EditOnlyIter,     \* iteration from which the edit agent acts (12)
    EditOnlyTurns,    \* patchless turns after which it acts (10)
    EditOnlyExhausted,\* iterations of the edit agent without a patch (24)
    EmptyTurns,       \* patchless turns before forking (18)
    RejectAfter,      \* iteration from which inspection is refused (12, or 4)
    MaxNarrow         \* narrow views, and narrow lookups, still allowed (8 and 6)

ASSUME ExpansionsAssumption == max_expansions \in Nat \ {0}
\* No edit deletes an exported file: what becomes of a deletion in a patch is
\* the subject of OverlayLayers.
ASSUME EditsAssumption ==
    /\ Edits \subseteq [Files -> Contents \cup {Absent}]
    /\ \A e \in Edits, f \in Exported : e[f] # Absent

VARIABLES
    pc,      \* where run_one and AgentMCTS.run are
    n_iter,  \* iterations started
    tree,    \* nodes by id + 1: parent, terminal
    child,   \* the node being expanded (its index), its action
    node,    \* by node: ckpt, diff, verdict (ckpt_by_node, diff_by_node, verify_by_node);
             \* wrote (ghost): files were changed between its capture and its checkpoint
    current, \* _current_ckpt
    s,       \* the counters and flags of the search
    seen,    \* _live_verify_seen: the verdict on a patch, live and host
    final    \* final_patch: its node, the patch, and the candidates verified

searchVars == <<n_iter, tree, child, node, current, s, seen, final>>
vars == <<sandboxVars, pc, searchVars>>

Root == 1
Nodes == DOMAIN tree
NoPatch == {}
NoAction == [kind |-> "none", op |-> "none", to |-> 0, edit |-> FALSE, narrow |-> FALSE]

Children(n) == {c \in Nodes : tree[c].parent = n}

\* Node.get_depth and the chain of parents; a parent is older than its child.
Ancestors(n) ==
    LET Above[k \in 0..n] == IF k = 0 THEN {} ELSE {k} \cup Above[tree[k].parent]
    IN  Above[n]
Depth(n) == Cardinality(Ancestors(n))

Init ==
    /\ SandboxInit
    /\ pc = "setup" /\ n_iter = 0 /\ tree = <<>> /\ node = <<>>
    /\ child = [id |-> 0, act |-> NoAction, failed |-> FALSE]
    /\ current = NoCkpt
    /\ s = [first_patch |-> 0, first_patch_node |-> 0,
            last_test_failure |-> 0, failure_node |-> 0, failure_patch |-> NoPatch,
            noop_node |-> 0, live_failure |-> 0, live_pass |-> 0,
            new_patch |-> 0, seen_patches |-> {},
            failure_fork |-> 0, plateau_fork |-> 0, empty_fork |-> 0,
            edit_only |-> 0, no_patch_turns |-> 0, views |-> 0,
            locators |-> 0, verified |-> 0]
    /\ seen = {}
    /\ final = [node |-> 0, patch |-> NoPatch, passed |-> {}, failed |-> {}]

-----------------------------------------------------------------------------
(* run_one: set the sandbox up; an exception from here on ends the run     *)
(* through the teardown, except one from the setup itself.                 *)

Setup ==
    /\ pc = "setup"
    /\ UNCHANGED <<box, channelVars, ckpts, cur, searchVars>>
    /\ \/ /\ Start
          /\ pc' = IF sandbox'.ctrl THEN "start" ELSE "setup"
       \/ StartFails /\ pc' = "failed"

\* _apply_test_patch_in_sandbox commits the tests; it writes no exported file.
Begin ==
    /\ pc = "start"
    /\ pc' = IF opt.apply_test_patch THEN "prepare" ELSE "root"
    /\ IF opt.apply_test_patch THEN Send("look", 0) ELSE UNCHANGED channelVars
    /\ UNCHANGED <<sandbox, box, ckpts, cur, searchVars>>

\* The reply to what the run waits for, or the exception instead of it.
Prepared ==
    /\ pc = "prepare"
    /\ \/ Receive /\ pc' = "root"
       \/ GiveUp /\ pc' = "teardown"
    /\ UNCHANGED <<sandbox, box, ckpts, cur, searchVars>>

Raise ==
    /\ pc \in {"root", "restore", "checkpoint"} /\ OperationFails
    /\ pc' = "teardown"
    /\ UNCHANGED searchVars

SeedRoot ==
    /\ pc = "root" /\ Checkpoint
    /\ tree' = <<[parent |-> 0, terminal |-> FALSE]>>
    /\ node' = <<[ckpt |-> Len(ckpts) + 1, diff |-> NoPatch, verdict |-> "none", wrote |-> FALSE]>>
    /\ current' = Len(ckpts) + 1 /\ pc' = "select"
    /\ UNCHANGED <<n_iter, child, s, seen, final>>

-----------------------------------------------------------------------------
(* Selection.                                                              *)

\* moatless: neither finished nor fully expanded.
Expandable == {n \in Nodes : ~tree[n].terminal /\ Cardinality(Children(n)) < max_expansions}

Deepest(C) == CHOOSE n \in C : \A o \in C : Depth(o) < Depth(n) \/ (Depth(o) = Depth(n) /\ o <= n)

\* DeepPatchFirstSelector.select: depth, then leaves, then the newest.
DeepPatchFirst(C) ==
    LET deep == {n \in C : \A o \in C : Depth(o) <= Depth(n)}
        leaves == {n \in deep : Children(n) = {}}
    IN  Max(IF leaves # {} THEN leaves ELSE deep)

FailureCandidates ==
    IF s.failure_fork = 0 \/ s.last_test_failure = 0 THEN {}
    ELSE Expandable \cap
            (Ancestors(s.failure_node) \cup
             (IF s.first_patch = 0 THEN {}
              ELSE {s.first_patch_node, tree[s.first_patch_node].parent}))

PlateauCandidates ==
    IF s.plateau_fork = 0 \/ s.first_patch = 0 THEN {}
    ELSE LET above == Expandable \cap (Ancestors(s.first_patch_node) \ {s.first_patch_node})
         IN  IF above # {} THEN above ELSE {n \in Expandable : Depth(n) <= 9}

EmptyCandidates ==
    IF s.empty_fork = 0 \/ s.noop_node = 0 THEN {}
    ELSE Expandable \cap (Ancestors(s.noop_node) \ {s.noop_node})

\* _select_failure_recovery_node, then the selector: the node, and the forks left.
Selection ==
    IF FailureCandidates # {}
    THEN [node |-> Deepest(FailureCandidates), s |-> [s EXCEPT !.failure_fork = @ - 1]]
    ELSE IF PlateauCandidates # {}
    THEN [node |-> Deepest(PlateauCandidates), s |-> [s EXCEPT !.plateau_fork = @ - 1]]
    ELSE IF EmptyCandidates # {}
    THEN [node |-> Deepest(EmptyCandidates), s |-> [s EXCEPT !.empty_fork = @ - 1]]
    ELSE [node |-> DeepPatchFirst(Expandable), s |-> s]

Select ==
    /\ pc = "select" /\ n_iter < opt.max_iterations /\ Expandable # {}
    /\ n_iter' = n_iter + 1
    /\ LET sel == Selection
       IN  /\ s' = sel.s
           /\ child' = [child EXCEPT !.id = sel.node]
           /\ pc' = IF node[sel.node].ckpt # current THEN "restore" ELSE "expand"
    /\ UNCHANGED <<sandboxVars, tree, node, current, seen, final>>

SearchOver ==
    /\ pc = "select" /\ (n_iter = opt.max_iterations \/ Expandable = {})
    /\ pc' = "export"
    /\ UNCHANGED <<sandboxVars, searchVars>>

RestoreSelected ==
    /\ pc = "restore" /\ Restore(node[child.id].ckpt)
    /\ current' = node[child.id].ckpt /\ pc' = "expand"
    /\ UNCHANGED <<n_iter, tree, child, node, s, seen, final>>

-----------------------------------------------------------------------------
(* The agent's turn on a new child.                                        *)

\* The actions of upper/agent/actions on the mounted repository: what the
\* files may be afterwards.  A refused or failed action leaves them alone.
AgentStringReplace(fs, f) ==
    {fs} \cup (IF fs[f] = Absent THEN {} ELSE {e \in Edits : e[f] \notin {fs[f], Absent}
                                                  /\ \A g \in Files \ {f} : e[g] = fs[g]})
AgentRegexReplace(fs, f) == AgentStringReplace(fs, f)
AgentReplaceLines(fs, f) == AgentStringReplace(fs, f)
AgentApplyPatch(fs) == {fs} \cup Edits
AgentCreateFile(fs, f) ==
    {fs} \cup (IF fs[f] # Absent THEN {} ELSE {e \in Edits : e[f] # Absent
                                                  /\ \A g \in Files \ {f} : e[g] = fs[g]})
AgentAppendString(fs, f) == AgentStringReplace(fs, f)

Edited(fs) ==
    AgentApplyPatch(fs) \cup
    UNION {AgentStringReplace(fs, f) \cup AgentRegexReplace(fs, f) \cup AgentReplaceLines(fs, f)
           \cup AgentCreateFile(fs, f) \cup AgentAppendString(fs, f) : f \in Files}

\* _node_attempted_edit knows the edit actions by class and shell edits by a
\* few words of the command: a shell command that writes may not look like one.
Act(kind, op, to, edit, narrow) ==
    [kind |-> kind, op |-> op, to |-> to, edit |-> edit, narrow |-> narrow]
WorkerActions ==
    {Act("bash", "write", e, edit, FALSE) : e \in Edits, edit \in BOOLEAN}
    \cup {Act("bash", "test", 0, FALSE, FALSE)}
    \cup {Act("bash", "look", 0, FALSE, narrow) : narrow \in BOOLEAN}
    \cup {Act("bash", "cd", v, FALSE, FALSE) : v \in Sessions \ {0}}
    \cup {Act("python", "python", v, FALSE, FALSE) : v \in Sessions \ {0}}
HostActions ==
    {Act("edit", "none", 0, TRUE, FALSE), Act("finish", "none", 0, FALSE, FALSE),
     Act("invalid", "none", 0, FALSE, FALSE)}
    \cup {Act("view", "none", 0, FALSE, narrow) : narrow \in BOOLEAN}

\* _agent_for_turn picks the edit agent.
EditAgent ==
    \/ edit_always
    \/ /\ s.first_patch = 0
       /\ edit_first \/ n_iter >= EditOnlyIter \/ s.no_patch_turns >= EditOnlyTurns

Larger(a, b) == IF a >= b THEN a ELSE b

\* Steps 3 and 4 up to the agent's choice; an invalid answer runs nothing.
Expand ==
    /\ pc = "expand"
    /\ tree' = Append(tree, [parent |-> child.id, terminal |-> FALSE])
    /\ node' = Append(node, [ckpt |-> NoCkpt, diff |-> NoPatch, verdict |-> "none",
                            wrote |-> FALSE])
    /\ child' = [child EXCEPT !.id = Len(tree) + 1]
    /\ s' = [s EXCEPT
          !.plateau_fork = IF s.first_patch # 0 /\ s.new_patch # 0 /\ n_iter - s.new_patch >= PlateauWarn
                           THEN Larger(@, PlateauFork) ELSE @,
          !.edit_only = IF @ = 0 /\ EditAgent THEN n_iter ELSE @]
    /\ pc' = "agent"
    /\ UNCHANGED <<sandboxVars, n_iter, current, seen, final>>

\* An action that the host performs on the mounted repository.
ActOnHost ==
    /\ pc = "agent"
    /\ \E a \in HostActions :
          /\ child' = [child EXCEPT !.act = a]
          /\ tree' = [tree EXCEPT ![child.id].terminal = a.kind = "finish"]
          /\ \E fs \in IF a.kind = "edit" THEN Edited(box.files) ELSE {box.files} :
                box' = [box EXCEPT !.files = fs]
    /\ pc' = "acted"
    /\ UNCHANGED <<sandbox, channelVars, ckpts, cur, n_iter, node, current, s, seen, final>>

\* AgentBashTool and PyREPLTool: one request to the worker.
ActInWorker ==
    /\ pc = "agent"
    /\ \E a \in WorkerActions :
          child' = [child EXCEPT !.act = a] /\ Send(a.op, a.to)
    /\ pc' = "wait"
    /\ UNCHANGED <<sandbox, box, ckpts, cur, n_iter, tree, node, current, s, seen, final>>

\* The observation, or the exception that the search downgrades to feedback
\* (the agent may have recorded its action before it).  Tests that could not
\* run are taken for a failure when the output has one of its words.
Observe ==
    /\ pc = "wait"
    /\ \/ /\ Receive
          /\ \E failed \in BOOLEAN :
                /\ Reply.out = "fail" => failed
                /\ Reply.out \notin {"fail", "env"} => ~failed
                /\ child' = [child EXCEPT !.failed = failed]
       \/ /\ GiveUp
          /\ \E a \in {child.act, Act("invalid", "none", 0, FALSE, FALSE)} :
                child' = [child EXCEPT !.act = a]
    /\ pc' = "acted"
    /\ UNCHANGED <<sandbox, box, ckpts, cur, n_iter, tree, node, current, s, seen, final>>

-----------------------------------------------------------------------------
(* _gate_no_patch_non_edit_action and the test failure that it may hide.   *)

FailedVerify == s.live_failure # 0 /\ (s.live_pass = 0 \/ s.live_failure > s.live_pass)

Gated ==
    /\ s.first_patch = 0 \/ FailedVerify
    /\ n_iter >= RejectAfter \/ FailedVerify
    /\ ~child.act.edit /\ child.act.kind # "invalid"

Narrow ==
    /\ child.act.narrow
    /\ IF child.act.kind = "view" THEN s.views < MaxNarrow ELSE s.locators < MaxNarrow

Rejected == Gated /\ (FailedVerify \/ (~Narrow /\ child.act.kind # "python"))

\* Rejecting overwrites the observation, a failing test run included.
Gate(st) ==
    IF Rejected THEN [st EXCEPT !.empty_fork = Larger(@, 1)]
    ELSE IF Gated /\ Narrow /\ child.act.kind = "view" THEN [st EXCEPT !.views = @ + 1]
    ELSE IF Gated /\ Narrow THEN [st EXCEPT !.locators = @ + 1]
    ELSE st

TestFailure(st) ==
    IF child.failed /\ ~Rejected
    THEN [st EXCEPT !.last_test_failure = n_iter, !.failure_node = child.id,
                    !.failure_fork = Larger(@, FailureFork)]
    ELSE st

-----------------------------------------------------------------------------
(* Capture and verification of the patch.                                  *)

\* _capture_physical_layer_patch: exported files that exist and differ from
\* the base.  What was deleted is not in it.
PhysicalPatch(fs) ==
    {<<f, fs[f]>> : f \in {g \in Exported : fs[g] \notin {base_lower[g], Absent}}}

\* _capture_patch: nothing at all after an action that does not look like an edit.
\*
\* MUTANT of CapturePatch: what the live upper overwrote in the layers is in it too.
CapturePatchStale ==
    IF child.act.edit
    THEN PhysicalPatch(box.files) \cup PhysicalPatch(ckpts[current].box.files) ELSE NoPatch
CapturePatch == IF child.act.edit THEN PhysicalPatch(box.files) ELSE NoPatch

\* A patch applied to a fresh copy passes the focused tests.
PatchGood(p) == \A f \in Exported :
    LET changed == {c \in Contents : <<f, c>> \in p}
    IN  (IF changed = {} THEN {base_lower[f]} ELSE changed) \subseteq Good

\* The signals of a captured patch; `eager` before the checkpoint.
Captured(st, diff, eager) ==
    LET first == diff # NoPatch /\ st.first_patch = 0
        novel == diff # NoPatch /\ diff \notin st.seen_patches
        noop == eager /\ diff = NoPatch /\ child.act.edit
    IN  [st EXCEPT
          !.first_patch = IF first THEN n_iter ELSE @,
          !.first_patch_node = IF first THEN child.id ELSE @,
          !.new_patch = IF novel THEN n_iter ELSE @,
          !.seen_patches = IF novel THEN @ \cup {diff} ELSE @,
          !.failure_patch = IF child.id = st.failure_node THEN diff ELSE @,
          !.noop_node = IF noop THEN child.id ELSE @,
          !.empty_fork = IF noop THEN Larger(@, NoopFork) ELSE @]

\* _live_verify_seen.get
Verdicts(by, p) == {r.verdict : r \in {q \in seen : q.by = by /\ q.patch = p}}

\* _maybe_live_verify: a new verdict, and one from the cache.  A reply
\* without the marker of the test run counts as return code 124.
LiveVerdict(out) == IF out \in {"pass", "fail", "env"} THEN out ELSE "norc"
LiveCached(st, v) ==
    IF v = "pass" THEN [st EXCEPT !.live_pass = n_iter]
    ELSE IF v = "env" THEN st ELSE [st EXCEPT !.live_failure = n_iter]
LiveFresh(st, v) ==
    IF v \in {"pass", "env"} THEN LiveCached(st, v)
    ELSE [LiveCached(st, v) EXCEPT !.failure_fork = Larger(@, FailureFork)]

\* _maybe_host_verify: the tests on a fresh copy.  A timeout or a command that
\* cannot run is neutral; an exception, or a patch that does not apply, is a failure.
HostVerdicts(p) ==
    IF Verdicts("host", p) # {} THEN Verdicts("host", p)
    ELSE {"fail", "timeout", "invalid", "raised"} \cup (IF PatchGood(p) THEN {"pass"} ELSE {})
HostVerified(st, v) ==
    CASE v = "pass" -> [st EXCEPT !.live_pass = n_iter]
      [] v \in {"fail", "raised"} -> [st EXCEPT !.live_failure = n_iter, !.failure_fork = Larger(@, HostFork)]
      [] OTHER -> st

\* What follows the live verdict v ("none" without one): host verification.
Conclude(st, new, v, diff, wrote) ==
    LET record(w) == [node EXCEPT ![child.id].diff = diff, ![child.id].verdict = w,
                                  ![child.id].wrote = wrote]
    IN  IF opt.host_verify
        THEN \E h \in HostVerdicts(diff) :
                /\ s' = HostVerified(st, h) /\ node' = record(h)
                /\ seen' = seen \cup new \cup {[by |-> "host", patch |-> diff, verdict |-> h]}
        ELSE s' = st /\ node' = record(v) /\ seen' = seen \cup new

\* Captures the patch; a patch not yet verified live sends the tests first.
CaptureAnd(st0, eager, verifying, next) ==
    LET diff == CapturePatch
        st == Captured(st0, diff, eager)
        live == live_verify /\ st.verified < live_verify_max
        known == Verdicts("live", diff)
    IN  IF diff = NoPatch
        THEN /\ s' = st /\ node' = [node EXCEPT ![child.id].diff = diff]
             /\ pc' = next /\ UNCHANGED <<channelVars, seen>>
        ELSE IF live /\ known = {}
        THEN /\ s' = [st EXCEPT !.verified = @ + 1]
             /\ node' = [node EXCEPT ![child.id].diff = diff]
             /\ Send("test", 0) /\ pc' = verifying /\ UNCHANGED seen
        ELSE /\ IF live THEN \E v \in known : Conclude(LiveCached(st, v), {}, v, diff, FALSE)
                ELSE Conclude(st, {}, node[child.id].verdict, diff, FALSE)
             /\ pc' = next /\ UNCHANGED channelVars

\* After the action: gate, test failure, eager capture.
AfterAction ==
    /\ pc = "acted"
    /\ CaptureAnd(TestFailure(Gate(s)), TRUE, "verify", "checkpoint")
    /\ UNCHANGED <<sandbox, box, ckpts, cur, n_iter, tree, child, current, final>>

\* The reply to the live verification.  An exception blanks the patch when
\* it was captured eagerly, and is only logged after the checkpoint.
Verified ==
    /\ pc \in {"verify", "reverify"}
    /\ LET diff == node[child.id].diff IN
       \/ /\ Receive
          /\ LET v == LiveVerdict(Reply.out)
             IN  Conclude(LiveFresh(s, v), {[by |-> "live", patch |-> diff, verdict |-> v]}, v, diff,
                          pc = "verify" /\ Reply.wrote)
       \/ /\ GiveUp
          /\ node' = [node EXCEPT ![child.id].diff = IF pc = "verify" THEN NoPatch ELSE @]
          /\ UNCHANGED <<s, seen>>
    /\ pc' = IF pc = "verify" THEN "checkpoint" ELSE "end"
    /\ UNCHANGED <<sandbox, box, ckpts, cur, n_iter, tree, child, current, final>>

CheckpointChild ==
    /\ pc = "checkpoint" /\ Checkpoint
    /\ node' = [node EXCEPT ![child.id].ckpt = Len(ckpts) + 1]
    /\ current' = Len(ckpts) + 1
    /\ pc' = IF node[child.id].diff = NoPatch THEN "recapture" ELSE "end"
    /\ UNCHANGED <<n_iter, tree, child, s, seen, final>>

Recapture ==
    /\ pc = "recapture"
    /\ CaptureAnd(s, FALSE, "reverify", "end")
    /\ UNCHANGED <<sandbox, box, ckpts, cur, n_iter, tree, child, current, final>>

-----------------------------------------------------------------------------
(* The end of an iteration.                                                *)

AnyPatch == \E n \in Nodes : node[n].diff # NoPatch

\* The turn without a patch, and the same failing patch again.
Counted ==
    LET diff == node[child.id].diff
        turns == IF diff # NoPatch THEN 0 ELSE s.no_patch_turns + 1
        same == /\ s.last_test_failure # 0 /\ child.id # s.failure_node
                /\ diff = s.failure_patch /\ diff # NoPatch
    IN  [s EXCEPT !.no_patch_turns = turns,
                  !.empty_fork = IF turns >= EmptyTurns THEN Larger(@, EmptyFork) ELSE @,
                  !.failure_fork = IF same THEN Larger(@, FailureFork) ELSE @]

\* Both plateaus: force other branches first, stop when enough patches are known.
Plateau(st) ==
    /\ AnyPatch /\ st.first_patch # 0 /\ st.plateau_fork = 0
    /\ \/ n_iter - Larger(st.first_patch, st.last_test_failure) >= PatchPlateau
       \/ st.new_patch # 0 /\ n_iter - st.new_patch >= NovelPlateau

Stops(st) ==
    \/ tree[child.id].terminal
    \/ st.edit_only # 0 /\ st.first_patch = 0 /\ n_iter - st.edit_only >= EditOnlyExhausted
    \/ st.live_pass # 0 /\ n_iter - st.live_pass >= LivePassSlack /\ AnyPatch
    \/ Plateau(st) /\ Cardinality(st.seen_patches) >= UniquePatches

EndIteration ==
    /\ pc = "end"
    /\ LET st == Counted IN
       /\ pc' = IF Stops(st) THEN "export" ELSE "select"
       /\ s' = IF ~Stops(st) /\ Plateau(st) THEN [st EXCEPT !.plateau_fork = PlateauFork] ELSE st
    /\ child' = [child EXCEPT !.act = NoAction, !.failed = FALSE]
    /\ UNCHANGED <<sandboxVars, n_iter, tree, node, current, seen, final>>

-----------------------------------------------------------------------------
(* run_one: rank the patches, write the trajectory, tear down.             *)

\* _patch_has_executable_change
Executable(p) == \E <<f, c>> \in p : c \notin Inert
Candidates == {n \in Nodes : Executable(node[n].diff)}

Leaf(n) == IF Children(n) = {} THEN 1 ELSE 0
Finished(n) == IF tree[n].terminal THEN 1 ELSE 0

\* Lexicographic order of two keys; of equal ones the earlier node comes first.
Before(a, ka, b, kb) ==
    \/ ka = kb /\ a < b
    \/ \E i \in DOMAIN ka : ka[i] > kb[i] /\ \A j \in 1..i-1 : ka[j] = kb[j]

VerifyKey(n) == <<Depth(n), Leaf(n), Cardinality(node[n].diff)>>
VerifyBefore(a, b) == Before(a, VerifyKey(a), b, VerifyKey(b))

\* One candidate per patch, the best verify_max_candidates of them.
ToVerify ==
    LET one == {n \in Candidates : \A o \in Candidates :
                    node[o].diff = node[n].diff => o = n \/ VerifyBefore(n, o)}
    IN  {n \in one : Cardinality({o \in one : o # n /\ VerifyBefore(o, n)}) < verify_max_candidates}

\* _verify_candidate_patch: a patch that does not apply, or an exception, counts
\* as a failure too.
VerifyCandidatePatch(p) ==
    {"timeout", "fail"} \cup (IF PatchGood(p) THEN {"pass"} ELSE {"syntax"})

\* verifier_signal, moved up by two.
Signal(n, verification) ==
    LET own == IF n \in DOMAIN verification THEN verification[n] ELSE "none"
    IN  IF own = "pass" THEN 6
        ELSE IF node[n].verdict = "pass" THEN 5
        ELSE IF own = "syntax" THEN 0
        ELSE IF own = "fail" \/ node[n].verdict \in {"fail", "invalid"} THEN 1
        ELSE 4

\* MUTANT of RankKey: leaves before the verifier's signal.
RankKeyLeafFirst(n, verification) ==
    <<Leaf(n), Signal(n, verification), Finished(n), Depth(n), 9 - Cardinality(node[n].diff)>>
RankKey(n, verification) ==
    <<Signal(n, verification), Finished(n), Leaf(n), Depth(n), 9 - Cardinality(node[n].diff)>>

Export ==
    /\ pc = "export" /\ pc' = "teardown"
    /\ \E verification \in
            {v \in [ToVerify -> {"pass", "fail", "syntax", "timeout"}] :
                \A n \in ToVerify : v[n] \in VerifyCandidatePatch(node[n].diff)} :
          final' = IF Candidates = {} THEN final
                   ELSE LET best == CHOOSE n \in Candidates : \A o \in Candidates \ {n} :
                                Before(n, RankKey(n, verification), o, RankKey(o, verification))
                        IN  [node |-> best, patch |-> node[best].diff,
                             passed |-> {n \in ToVerify : verification[n] = "pass"},
                             failed |-> {n \in ToVerify : verification[n] \in {"fail", "syntax"}}]
    /\ UNCHANGED <<sandboxVars, n_iter, tree, child, node, current, s, seen>>

Teardown ==
    /\ pc = "teardown" /\ Shutdown /\ pc' = "closed"
    /\ host' = [host EXCEPT !.buf = <<>>, !.await = NoRequest]
    /\ UNCHANGED <<box, cmd_in, cmd_out, late, opt, ckpts, cur, searchVars>>

Host ==
    \/ Setup \/ Begin \/ Prepared \/ Raise \/ SeedRoot \/ Select \/ SearchOver
    \/ RestoreSelected \/ Expand \/ ActOnHost \/ ActInWorker \/ Observe \/ AfterAction
    \/ Verified \/ CheckpointChild \/ Recapture \/ EndIteration \/ Export \/ Teardown

Server == Worker /\ UNCHANGED <<pc, searchVars>>

Closed == pc \in {"closed", "failed"} /\ UNCHANGED vars

Next == Host \/ Server \/ Closed

Spec == Init /\ [][Next]_vars

\* The event loop runs whatever is ready; the worker's loop polls its FIFO.
FairSpec == Spec /\ WF_vars(Host) /\ WF_vars(Server)

-----------------------------------------------------------------------------
(* Properties.                                                             *)

\* The search and the sandbox agree on where they are.  The incremental chain
\* follows the tree: the backend threads a parent id of its own through
\* checkpoints and restores (LocalDeltaBoxBackend._cur_id), and it is the
\* checkpoint of the node's parent whatever was restored, timed out or failed
\* between.  And when "target_ckpt is not self._current_ckpt" says that no
\* restore is needed, the sandbox is what that checkpoint holds, files and worker.
SandboxFollowsSearch ==
    /\ \A n \in Nodes : node[n].ckpt # NoCkpt /\ n # Root =>
          ckpts[node[n].ckpt].parent = node[tree[n].parent].ckpt
    /\ late = 0 /\ pc \in {"select", "expand", "agent"} => box = ckpts[current].box

\* What the search records of a node is of that node: a patch in diff_by_node is
\* the patch of the state its checkpoint holds, although it is captured before
\* the checkpoint and verified between, unless that verification itself wrote
\* files; whatever tests wrote on the way to the node is in both.  And a passing
\* verdict, fresh, cached or from the host, is a verdict on that patch, also
\* when the tests wrote over what they passed.
RecordsOfNode ==
    late = 0 => \A n \in Nodes :
        /\ node[n].ckpt # NoCkpt /\ node[n].diff # NoPatch /\ ~node[n].wrote =>
              node[n].diff = PhysicalPatch(ckpts[node[n].ckpt].box.files)
        /\ node[n].verdict = "pass" => node[n].diff # NoPatch /\ PatchGood(node[n].diff)

\* final_patch passes the focused tests whenever some candidate did: the
\* verifier's signal comes before every other key, and a candidate that was
\* left out as a duplicate or over the limit never displaces a verified one.
FinalPatchVerified ==
    final.passed # {} => PatchGood(final.patch)

\* _rank: a patch whose verification failed is not final_patch while a
\* candidate has another patch that did not fail.  The code does not keep this:
\* of two nodes with one patch only one is verified.
FailedPatchLoses ==
    (\E n \in final.failed : node[n].diff = final.patch) =>
        \A c \in Candidates : \E n \in final.failed : node[n].diff = node[c].diff

\* Every run ends, whatever was late or failed.  Either its setup raised, and
\* then run_one leaves what was made (backend.setup is called before the try);
\* or it has gone through the teardown, however the search ended: no worker with
\* a known owner is left, and nothing is mounted unless something failed.
SearchEnds ==
    <>(\/ pc = "failed"
       \/ /\ pc = "closed"
          /\ sandbox.owner => sandbox.proc = "dead"
          /\ sandbox.faults = 0 => ~sandbox.mounted)

\* exec_action returns the result of the operation it was given.  The code does
\* not keep this after a reply that came later than its timeout.
AnswerIsOfRequest == [][Receive => Reply.id = host.await.id]_vars
=============================================================================
