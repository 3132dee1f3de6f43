--------------------------- MODULE OverlayLayers ---------------------------
(***************************************************************************)
(* The file system half of a checkpoint: the legacy controller's sink and  *)
(* switch of the /testbed overlay, the root-coverage overlays that are     *)
(* frozen and rolled back in lock-step with it, lightweight checkpoints,   *)
(* the pruning of layer directories, and the patch that the search reads   *)
(* straight from the layer directories.                                    *)
(*                                                                         *)
(* A directory of an overlay is a number: 0 is the read-only base (or the  *)
(* stash of a covered directory), later numbers are made by checkpoints    *)
(* and restores.  For each file it holds a content, a whiteout, or         *)
(* nothing.  upper and lower are what the kernel has mounted; everything   *)
(* else is what the controller believes.  A call that fails is the last:   *)
(* every driver ends its run on an exception.                              *)
(***************************************************************************)
EXTENDS Naturals, Sequences, FiniteSetsExt, SequencesExt

CONSTANTS
  Files, Contents,
  RootContents,     \* the contents found and written below covered directories
  Ids, NoId,        \* checkpoint ids
  Roots,            \* the sequence of covered directories (RootOverlaySet.overlays)
  MaxDirs           \* bound: directories made per overlay

ASSUME ContentsAssumption == RootContents \subseteq Contents
ASSUME IdsAssumption == NoId \notin Ids
ASSUME RootsAssumption == Roots \in Seq(STRING) /\ IsInjective(Roots)
ASSUME DirsAssumption == MaxDirs \in Nat

Testbed == "testbed"
Covered == Range(Roots)
Overlays == {Testbed} \union Covered
Dirs == 0..MaxDirs
Absent == "absent"
Whiteout == "whiteout"
Written(o) == IF o = Testbed THEN Contents ELSE RootContents
Entries == Contents \union {Absent, Whiteout}
Empty == [f \in Files |-> Absent]

VARIABLES
  data,           \* overlay -> directory -> file -> entry
  name,           \* directory of /testbed -> "none", "restore", "layer", "gone"
  used,           \* overlay -> last directory made
  upper, lower,   \* overlay -> mounted upper directory, mounted lower chain
  current_upper,  \* overlay -> upper directory the controller knows of
  lower_chain,    \* covered directory -> RootOverlay.lower_chain
  snapshots,      \* covered directory -> checkpoint -> chain, <<>> if there is none
  registry,       \* checkpoint -> its entry, NoEntry before, Pruned after
  cur,            \* the driver's current checkpoint
  written,        \* history: overlays written to since their last freeze or rollback
  call,           \* the call in progress
  taken           \* history: checkpoint -> overlay -> files when it was frozen

kernelVars == <<data, upper, lower>>
hostVars == <<current_upper, lower_chain, snapshots, registry, cur>>
vars == <<kernelVars, hostVars, name, used, written, call, taken>>

NoEntry == [layers |-> <<>>, parent_id |-> NoId, effective |-> NoId, strategy |-> "none"]
Idle == [pc |-> "idle", id |-> NoId, strategy |-> "none", layers |-> <<>>, todo |-> <<>>]
Pruned == [NoEntry EXCEPT !.strategy = "pruned"]
Registered == {i \in Ids : registry[i] \notin {NoEntry, Pruned}}

-----------------------------------------------------------------------------
(* OverlayFS. *)

\* The entry that a chain of directories d shows first for a file.
Top(d, chain, f) ==
  LET I == {i \in DOMAIN chain : d[chain[i]][f] # Absent}
  IN  IF I = {} THEN Absent ELSE d[chain[Min(I)]][f]

\* The files seen through a chain.
View(d, chain) ==
  [f \in Files |-> IF Top(d, chain, f) = Whiteout THEN Absent ELSE Top(d, chain, f)]

Seen(o) == View(data[o], <<upper[o]>> \o lower[o])

\* OVL_IOCTL_CHECKPOINT: for a checkpoint the kernel puts the old upper on the
\* given chain itself; for a restore it mounts the given chain.
Switch(o, chain, new, kind) ==
  /\ lower' = [lower EXCEPT ![o] = IF kind = "ckpt" THEN <<upper[o]>> \o chain ELSE chain]
  /\ upper' = [upper EXCEPT ![o] = new]

Init ==
  /\ \E base \in [Files -> Contents \union {Absent}], stash \in [Files -> RootContents] :
       data = [o \in Overlays |-> [d \in Dirs |->
                 IF d > 0 THEN Empty ELSE IF o = Testbed THEN base ELSE stash]]
  /\ name = [d \in Dirs |-> "none"]
  /\ used = [o \in Overlays |-> 1]
  /\ upper = [o \in Overlays |-> 1]
  /\ lower = [o \in Overlays |-> <<0>>]
  /\ current_upper = upper
  /\ lower_chain = [o \in Covered |-> <<0>>]
  /\ snapshots = [o \in Covered |-> [i \in Ids |-> <<>>]]
  /\ registry = [i \in Ids |-> NoEntry]
  /\ cur = NoId
  /\ written = {}
  /\ call = Idle
  /\ taken = [i \in Ids |-> [o \in Overlays |-> Empty]]

-----------------------------------------------------------------------------
(* The worker. *)

\* The active and what it has started run until a restore kills them; nothing
\* writes from the parent of a lightweight checkpoint to the checkpoint.
Running ==
  \/ call.pc \in {"idle", "rollback"}
  \/ call.pc = "freeze" /\ call.strategy = "standard"

Put(o, f, e) ==
  /\ data' = [data EXCEPT ![o][upper[o]][f] = e]
  /\ written' = written \union {o}
  /\ UNCHANGED <<upper, lower, hostVars, name, used, call, taken>>

Write(o, f, c) ==
  /\ Running
  /\ Put(o, f, c)

\* A file that a lower directory shows is covered by a whiteout.
Delete(o, f) ==
  /\ Running
  /\ Seen(o)[f] # Absent
  /\ Put(o, f, IF View(data[o], lower[o])[f] # Absent THEN Whiteout ELSE Absent)

-----------------------------------------------------------------------------
(* Checkpoints. *)

\* The next directory of an overlay.
Fresh(o) == used[o] + 1
Make(o) == used[o] < MaxDirs /\ used' = [used EXCEPT ![o] = @ + 1]

ParentLayers == IF cur \in Registered THEN registry[cur].layers ELSE <<0>>

\* os.walk finds something in the upper directory.
IsUpperDirty == data[Testbed][current_upper[Testbed]] # Empty

\* The strategy is the caller's: a lightweight checkpoint only after reads.
MayCheckpoint(id, strategy) ==
  /\ call.pc = "idle"
  /\ registry[id] = NoEntry     \* ids are fresh
  /\ strategy = "lightweight" => cur \in Registered /\ written = {}

Sunk(id, strategy, layers) ==
  /\ taken' = [taken EXCEPT ![id][Testbed] = Seen(Testbed)]
  /\ written' = written \ {Testbed}
  /\ call' = [pc |-> "freeze", id |-> id, strategy |-> strategy, layers |-> layers,
              todo |-> Roots]
  /\ UNCHANGED <<data, lower_chain, snapshots, registry, cur>>

\* A dirty upper becomes a layer and a fresh upper is switched in above it.
SinkDirty(id, strategy) ==
  /\ MayCheckpoint(id, strategy) /\ IsUpperDirty
  /\ Make(Testbed)
  /\ Switch(Testbed, ParentLayers, Fresh(Testbed), "ckpt")
  /\ name' = [name EXCEPT ![current_upper[Testbed]] = "layer"]
  /\ current_upper' = [current_upper EXCEPT ![Testbed] = Fresh(Testbed)]
  /\ Sunk(id, strategy, <<current_upper[Testbed]>> \o ParentLayers)

\* The upper is renamed, then the ioctl fails.
SinkFails(id, strategy) ==
  /\ MayCheckpoint(id, strategy) /\ IsUpperDirty
  /\ name' = [name EXCEPT ![current_upper[Testbed]] = "layer"]
  /\ call' = [Idle EXCEPT !.pc = "failed"]
  /\ UNCHANGED <<kernelVars, hostVars, used, written, taken>>

\* A clean upper stays; the checkpoint has its parent's layers.
SinkClean(id, strategy) ==
  /\ MayCheckpoint(id, strategy) /\ ~IsUpperDirty
  /\ Sunk(id, strategy, ParentLayers)
  /\ UNCHANGED <<upper, lower, current_upper, name, used>>

\* RootOverlay.checkpoint, for the overlays in their order.
FreezeRoot ==
  /\ call.pc = "freeze" /\ call.todo # <<>>
  /\ LET r == Head(call.todo)
         chain == <<current_upper[r]>> \o lower_chain[r]
     IN  /\ Make(r)
         /\ Switch(r, lower_chain[r], Fresh(r), "ckpt")
         /\ lower_chain' = [lower_chain EXCEPT ![r] = chain]
         /\ current_upper' = [current_upper EXCEPT ![r] = Fresh(r)]
         /\ snapshots' = [snapshots EXCEPT ![r][call.id] = chain]
         /\ taken' = [taken EXCEPT ![call.id][r] = Seen(r)]
         /\ written' = written \ {r}
  /\ call' = [call EXCEPT !.todo = Tail(@)]
  /\ UNCHANGED <<data, name, registry, cur>>

\* A lightweight checkpoint is restored as its nearest full ancestor.
Entry ==
  [layers |-> call.layers, parent_id |-> cur, strategy |-> call.strategy,
   effective |-> IF call.strategy = "lightweight" THEN registry[cur].effective ELSE call.id]

\* Nothing is registered before every root overlay is frozen.
Register ==
  /\ call.pc = "freeze" /\ call.todo = <<>>
  /\ registry' = [registry EXCEPT ![call.id] = Entry]
  /\ cur' = call.id
  /\ call' = Idle
  /\ UNCHANGED <<kernelVars, current_upper, lower_chain, snapshots, name, used, written, taken>>

-----------------------------------------------------------------------------
(* Restores and pruning. *)

HasCheckpoint(id) == Roots # <<>> /\ \A r \in Covered : snapshots[r][id] # <<>>

\* The overlays of the root roll back first, while the active is still there.
Restore(id) ==
  /\ call.pc = "idle" /\ id \in Registered
  /\ call' = [Idle EXCEPT !.pc = "rollback", !.id = id,
                          !.todo = IF HasCheckpoint(registry[id].effective) THEN Roots ELSE <<>>]
  /\ UNCHANGED <<kernelVars, hostVars, name, used, written, taken>>

\* RootOverlay.restore.
\*
\* Mutant of RollbackRoot: the upper stays mounted.
RollbackRootKeepsUpper ==
  /\ call.pc = "rollback" /\ call.todo # <<>>
  /\ LET r == Head(call.todo)
         chain == snapshots[r][registry[call.id].effective]
     IN  /\ lower' = [lower EXCEPT ![r] = chain]
         /\ lower_chain' = [lower_chain EXCEPT ![r] = chain]
         /\ written' = written \ {r}
  /\ call' = [call EXCEPT !.todo = Tail(@)]
  /\ UNCHANGED <<data, upper, used, current_upper, name, snapshots, registry, cur, taken>>

RollbackRoot ==
  /\ call.pc = "rollback" /\ call.todo # <<>>
  /\ LET r == Head(call.todo)
         chain == snapshots[r][registry[call.id].effective]
     IN  /\ Make(r)
         /\ Switch(r, chain, Fresh(r), "restore")
         /\ lower_chain' = [lower_chain EXCEPT ![r] = chain]
         /\ current_upper' = [current_upper EXCEPT ![r] = Fresh(r)]
         /\ written' = written \ {r}
  /\ call' = [call EXCEPT !.todo = Tail(@)]
  /\ UNCHANGED <<data, name, snapshots, registry, cur, taken>>

\* _kill_active_subtree: what wrote is gone.
Kill ==
  /\ call.pc = "rollback" /\ call.todo = <<>>
  /\ call' = [call EXCEPT !.pc = "switch"]
  /\ UNCHANGED <<kernelVars, hostVars, name, used, written, taken>>

\* The switch to the layers of the effective checkpoint; the read-only commands
\* of a lightweight one are then replayed by the worker.
RestoreSwitch ==
  /\ call.pc = "switch"
  /\ Make(Testbed)
  /\ Switch(Testbed, registry[registry[call.id].effective].layers, Fresh(Testbed), "restore")
  /\ name' = [name EXCEPT ![Fresh(Testbed)] = "restore"]
  /\ current_upper' = [current_upper EXCEPT ![Testbed] = Fresh(Testbed)]
  /\ written' = written \ {Testbed}
  /\ cur' = call.id
  /\ call' = Idle
  /\ UNCHANGED <<data, lower_chain, snapshots, registry, taken>>

\* An ioctl fails: the exception ends the driver's run.
SwitchFails ==
  /\ \/ call.pc \in {"freeze", "rollback"} /\ call.todo # <<>>
     \/ call.pc = "switch"
  /\ call' = [call EXCEPT !.pc = "failed"]
  /\ UNCHANGED <<kernelVars, hostVars, name, used, written, taken>>

\* retained_ids, without the links of images.
Retained(keep) ==
  {i \in Registered :
     \A S \in SUBSET Registered :
       (keep \subseteq S /\ \A j \in S :
          {registry[j].parent_id, registry[j].effective} \intersect Registered \subseteq S)
       => i \in S}

Layered(kept) == UNION {Range(registry[i].layers) : i \in kept}

\* The entries go, and the directories named restore_* that are not kept.
Prune(kept, keepDirs) ==
  LET gone == {d \in Dirs : name[d] = "restore" /\ d \notin keepDirs} IN
    /\ registry' = [i \in Ids |-> IF i \in Registered \ kept THEN Pruned ELSE registry[i]]
    /\ name' = [d \in Dirs |-> IF d \in gone THEN "gone" ELSE name[d]]
    /\ data' = [data EXCEPT ![Testbed] =
                   [d \in Dirs |-> IF d \in gone THEN Empty ELSE data[Testbed][d]]]
    /\ taken' = [i \in Ids |-> IF i \in Registered \ kept
                               THEN [o \in Overlays |-> Empty] ELSE taken[i]]
    /\ UNCHANGED <<upper, lower, current_upper, lower_chain, snapshots, cur, used, written, call>>

MayPrune(keep) ==
  /\ call.pc = "idle" /\ keep \subseteq Registered
  /\ cur \in Registered => cur \in keep

\* gc_obsolete_snapshots; the caller asks to keep the checkpoint it is at.
GC(keep) ==
  /\ MayPrune(keep)
  /\ Prune(Retained(keep), Layered(Retained(keep)) \union {current_upper[Testbed]})

Worker == \E o \in Overlays, f \in Files : Delete(o, f) \/ \E c \in Written(o) : Write(o, f, c)

Controller ==
  \/ \E id \in Ids, s \in {"standard", "lightweight"} : SinkDirty(id, s) \/ SinkFails(id, s) \/ SinkClean(id, s)
  \/ FreezeRoot \/ Register
  \/ \E id \in Ids : Restore(id)
  \/ RollbackRoot \/ Kill \/ RestoreSwitch \/ SwitchFails
  \/ \E keep \in SUBSET Ids : GC(keep)

Next == Worker \/ Controller

Spec == Init /\ [][Next]_vars

-----------------------------------------------------------------------------
(* The patch of the search. *)

\* _capture_physical_layer_patch: the layer directories as the search lists
\* them, the paths found in any but the base, and for each the first
\* regular file, if it differs from the base.
\*
\* Mutant of LayerDirs: the oldest directory first.
LayerDirsOldest == ParentLayers \o <<current_upper[Testbed]>>
LayerDirs == <<current_upper[Testbed]>> \o ParentLayers
TopFile(f) ==
  LET I == {i \in DOMAIN LayerDirs : data[Testbed][LayerDirs[i]][f] \in Contents}
  IN  IF I = {} THEN Absent ELSE data[Testbed][LayerDirs[Min(I)]][f]
Listed(f) == \E i \in DOMAIN LayerDirs :
               LayerDirs[i] # 0 /\ data[Testbed][LayerDirs[i]][f] # Absent
CapturePatch ==
  {<<f, c>> \in Files \X Contents :
     Listed(f) /\ TopFile(f) = c /\ data[Testbed][0][f] # c}

-----------------------------------------------------------------------------
(* Properties. *)

\* Every registered checkpoint can be restored: the checkpoint it is restored as
\* is a registered full one, and the chains that would be mounted show, file for
\* file, what each overlay showed when the checkpoint froze it, whatever has been
\* written, restored, checkpointed and pruned since.
ChainsFaithful ==
  \A i \in Registered :
    LET e == registry[i].effective IN
      /\ e \in Registered /\ registry[e].strategy = "standard"
      /\ View(data[Testbed], registry[e].layers) = taken[i][Testbed]
      /\ \A r \in Covered : View(data[r], snapshots[r][e]) = taken[i][r]

\* Between calls what the controller believes to be mounted is mounted, and an
\* overlay that nothing has written to since it was frozen or rolled back shows
\* the files of the current checkpoint.
LiveFaithful ==
  call.pc = "idle" =>
    /\ upper = current_upper
    /\ lower[Testbed] = ParentLayers
    /\ \A r \in Covered : lower[r] = lower_chain[r]
    /\ cur \in Registered => \A o \in Overlays \ written : Seen(o) = taken[cur][o]

\* No directory that is mounted, or that a registered checkpoint is restored
\* from, has been pruned.
DirsExist ==
  /\ name[upper[Testbed]] # "gone"
  /\ \A d \in Range(lower[Testbed]) : name[d] # "gone"
  /\ \A i \in Registered : \A d \in Range(registry[i].layers) : name[d] # "gone"

\* Long sequences of sinks, clean reuses of a parent's layers, restores to older
\* checkpoints, failed switches and pruning never make a checkpoint, or the live
\* sandbox, show other files than were saved, nor remove what either needs.
FilesFaithful == ChainsFaithful /\ LiveFaithful /\ DirsExist

\* The patch read from the directories has the live content of every file that
\* exists and differs from the base, and of no other existing file.
PatchOfLive ==
  call.pc = "idle" =>
    \A f \in Files : Seen(Testbed)[f] # Absent =>
      {c \in Contents : <<f, c>> \in CapturePatch} =
        {Seen(Testbed)[f]} \ {data[Testbed][0][f]}

\* The patch has no file that no longer exists.  The code does not keep this: it
\* passes over a whiteout and takes the file from an older layer.
PatchOfDeleted ==
  call.pc = "idle" =>
    \A f \in Files : Seen(Testbed)[f] = Absent =>
      \A c \in Contents : <<f, c>> \notin CapturePatch
=============================================================================
