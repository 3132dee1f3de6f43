--------------------------- MODULE CheckpointStore ---------------------------
(***************************************************************************)
(* What the checkpoint backend promises its host (common/backend.py): a    *)
(* checkpoint keeps the state of the sandbox; a restore brings back exactly*)
(* the state of its target, or fails and may cost the running sandbox, but *)
(* never a stored state.                                                   *)
(***************************************************************************)
CONSTANTS Ids, Contents, Dead, Absent, None

VARIABLES
    cur,    \* the state of the sandbox, or Dead
    saved,  \* the state a restore of an id must produce, or Absent
    wanted  \* the state the restore in progress must produce, or None

storeVars == <<cur, saved, wanted>>

StoreInit == cur \in Contents /\ saved = [i \in Ids |-> Absent] /\ wanted = None

Act == cur # Dead /\ wanted = None /\ cur' \in Contents /\ UNCHANGED <<saved, wanted>>

Checkpoint(i) ==
    /\ cur # Dead /\ wanted = None /\ saved[i] = Absent
    /\ saved' = [saved EXCEPT ![i] = cur]
    /\ UNCHANGED <<cur, wanted>>

\* A lightweight node stands for its parent's state plus commands to replay.
CheckpointLight(parent, i) ==
    /\ wanted = None /\ saved[parent] # Absent /\ saved[i] = Absent
    /\ saved' = [saved EXCEPT ![i] = saved[parent]]
    /\ UNCHANGED <<cur, wanted>>

Begin(i) ==
    /\ wanted = None /\ saved[i] # Absent
    /\ wanted' = saved[i]
    /\ UNCHANGED <<cur, saved>>

Lose == wanted # None /\ cur' = Dead /\ UNCHANGED <<saved, wanted>>

Restore == wanted # None /\ cur' = wanted /\ wanted' = None /\ UNCHANGED saved

GiveUp == wanted # None /\ wanted' = None /\ UNCHANGED <<cur, saved>>

Forget(S) ==
    /\ wanted = None
    /\ saved' = [i \in Ids |-> IF i \in S THEN Absent ELSE saved[i]]
    /\ UNCHANGED <<cur, wanted>>

StoreNext ==
    \/ Act \/ Lose \/ Restore \/ GiveUp
    \/ \E i \in Ids : Checkpoint(i) \/ Begin(i)
    \/ \E parent \in Ids, i \in Ids : CheckpointLight(parent, i)
    \/ \E S \in SUBSET Ids : Forget(S)

StoreSpec == StoreInit /\ [][StoreNext]_storeVars
=============================================================================
