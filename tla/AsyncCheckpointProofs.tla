----------------------- MODULE AsyncCheckpointProofs ------------------------
(***************************************************************************)
(* Second part of the proof that IInv is inductive (agent and templates,   *)
(* dump processes), what IInv implies for every number of checkpoints and  *)
(* every admission bound, and the proof that the protocol implements the   *)
(* store of whole sandbox states.                                          *)
(***************************************************************************)
EXTENDS AsyncCheckpointSteps, FiniteSetTheorems

-----------------------------------------------------------------------------
(* The processes                                                           *)

\* Only three steps enter the labels AgentInv and WriterInv speak of.
LEMMA LabelSteps ==
  ASSUME [Next]_vars
  PROVE  \/ Prepare \/ ForkDump \/ Teardown
         \/ pc' = pc \/ pc' \notin {"fork", "publish", "criu"}
  <1> USE DEF Goto, Return, callVars
  <1>1. CASE Calls
    BY Zenon, <1>1 DEF Calls, Work, CheckpointCall, Lightweight, RestoreCall, GC
  <1>2. CASE Continue
    BY Zenon, <1>2 DEF Continue, Admit, Publish, Abort, Join, DrainPasses, DrainRefuses,
       KillActive, WarmForkReplies, WarmForkFails, CriuRestores, CriuFails
  <1>3. CASE Timeouts \/ Environment
    BY Zenon, <1>3 DEF Timeouts, AdmitTimeout, JoinTimeout, DrainTimeout, Environment,
       TemplateDies, WriterExitsLate
  <1>4. CASE Worker
    BY Zenon, <1>4 DEF Worker, Take, AwaitParent, DumpCommits, DumpFails, Dispose, Release, Complete
  <1>5. CASE UNCHANGED vars BY Zenon, <1>5 DEF vars
  <1> QED BY SMTT(30), <1>1, <1>2, <1>3, <1>4, <1>5 DEF Next

LEMMA AgentNext == IInv /\ [Next]_vars => AgentInv'
  <1> SUFFICES ASSUME IInv, [Next]_vars PROVE AgentInv' OBVIOUS
  <1>t. /\ AgentInv /\ NoId \notin Ids /\ Gone \notin Contents
        /\ tmpl \in [Ids -> Contents \cup {Gone}] /\ writer \in [Ids -> Contents \cup {Gone}]
        /\ templates \subseteq Ids /\ agent \in {"init", "child", "dead"}
        /\ init_tmpl \in Ids \cup {NoId} /\ mem \in Contents \cup {Gone}
    BY Zenon, NoIdAssumption, GoneAssumption DEF IInv, TypeOK, ProcType, RegType
  <1>c. pc \in Building \cup Restoring => cid \in Ids
    BY Zenon DEF IInv, CallInv, TypeOK, RegType
  <1>1. CASE Work
    BY Zenon, <1>1, <1>t DEF Work, AgentInv, callVars
  <1>2. CASE Prepare
    BY Zenon, <1>2, <1>t, <1>c DEF Prepare, AgentInv, Goto, Building
  <1>3. CASE ForkDump
    BY Zenon, <1>3, <1>t, <1>c DEF ForkDump, AgentInv, Goto, Building
  <1>4. ASSUME NEW disposed \in BOOLEAN, Abort(disposed) PROVE AgentInv'
    <2>1. \A i \in Ids : writer'[i] = writer[i] \/ writer'[i] = Gone
      BY Zenon, <1>4, <1>t, <1>c DEF Abort, Building
    <2>2. /\ \A i \in Ids : tmpl'[i] = tmpl[i] \/ (tmpl'[i] = Gone /\ i # init_tmpl)
          /\ init_tmpl \in templates => init_tmpl \in templates'
      BY Zenon, <1>4, <1>t, <1>c DEF Abort, Building
    <2> QED BY Zenon, <1>4, <1>t, <2>1, <2>2 DEF Abort, AgentInv, Return
  <1>5. ASSUME NEW exited \in BOOLEAN, Dispose(exited) PROVE AgentInv'
    <2>1. \A i \in Ids : writer'[i] = writer[i] \/ writer'[i] = Gone
      BY Zenon, <1>5, <1>t DEF Dispose
    <2> QED BY Zenon, <1>5, <1>t, <2>1 DEF Dispose, AgentInv, callVars
  <1>6. ASSUME NEW target \in Ids, NEW cold \in BOOLEAN, RestoreCall(target, cold)
        PROVE  AgentInv'
    <2>1. init_tmpl # NoId => init_tmpl \in templates'
      BY Zenon, <1>6, <1>t DEF RestoreCall, AgentInv
    <2>2. pc' \notin {"criu", "fork", "publish"} BY Zenon, <1>6 DEF RestoreCall, Return
    <2> QED BY Zenon, <1>6, <1>t, <2>1, <2>2 DEF RestoreCall, AgentInv
  <1>n. NamespaceDies /\ pc' \notin {"fork", "publish"} => AgentInv'
    BY Zenon, <1>t DEF NamespaceDies, AgentInv
  <1>7. ASSUME NEW victims \in SUBSET Ids, KillActive(victims) PROVE AgentInv'
    <2>1. pc' \in {"warm_fork", "teardown"} BY Zenon, <1>7 DEF KillActive, Goto
    <2>2. CASE agent = "init" BY Zenon, <1>7, <1>n, <2>1, <2>2 DEF KillActive
    <2>3. CASE agent # "init" BY Zenon, <1>7, <1>t, <2>1, <2>3 DEF KillActive, AgentInv
    <2> QED BY Zenon, <2>2, <2>3
  <1>8. CASE WarmForkReplies
    BY Zenon, <1>8, <1>t, <1>c DEF WarmForkReplies, AgentInv, Return, Restoring
  <1>9. CASE Teardown BY Zenon, <1>9, <1>n DEF Teardown, Goto
  <1>10. CASE CriuRestores
    <2>1. image[cid] # Gone BY Zenon, <1>10 DEF CriuRestores, ChainPresent
    <2> QED BY Zenon, <1>10, <1>t, <2>1 DEF CriuRestores, AgentInv, Return
  <1>11. ASSUME NEW keep \in SUBSET Ids, GC(keep) PROVE AgentInv'
    <2> DEFINE pruned == registry \ retained_ids(keep \cup (registry \cap {init_tmpl}))
    <2>1. registry' = registry \ pruned BY Zenon, <1>11, GCKeeps DEF GC
    <2>2. init_tmpl \notin pruned BY Zenon, <1>11, <2>1, GCKeeps
    <2>3. /\ tmpl' = [i \in Ids |-> IF i \in pruned \cap templates THEN Gone ELSE tmpl[i]]
          /\ UNCHANGED <<writer, agent, mem, init_tmpl, pc>> /\ templates' = templates \ pruned
      BY Zenon, <1>11, <2>2 DEF GC, callVars
    <2>4. /\ init_tmpl \in Ids => tmpl'[init_tmpl] = tmpl[init_tmpl]
          /\ \A i \in Ids : tmpl[i] = Gone => tmpl'[i] = Gone
      BY Zenon, <2>2, <2>3
    <2> QED BY Zenon, <1>t, <2>2, <2>3, <2>4 DEF AgentInv
  <1>12. ASSUME NEW i \in Ids, TemplateDies(i) \/ WriterExitsLate(i) PROVE AgentInv'
    <2>1. /\ \A j \in Ids : writer'[j] = writer[j] \/ writer'[j] = Gone
          /\ \A j \in Ids : tmpl'[j] = tmpl[j] \/ (tmpl'[j] = Gone /\ j # init_tmpl)
          /\ UNCHANGED <<templates, init_tmpl, agent, mem, pc>>
      BY Zenon, <1>12, <1>t DEF TemplateDies, WriterExitsLate, callVars
    <2> QED BY Zenon, <1>t, <2>1 DEF AgentInv
  <1>13. CASE UNCHANGED procVars
    <2>1. CASE Prepare \/ ForkDump \/ Teardown BY Zenon, <1>2, <1>3, <1>9, <2>1
    <2>2. CASE pc' = pc \/ pc' \notin {"fork", "publish", "criu"}
      BY Zenon, <1>13, <1>t, <2>2 DEF procVars, AgentInv
    <2> QED BY Zenon, <2>1, <2>2, LabelSteps
  <1> QED
    BY SMTT(30), <1>1, <1>2, <1>3, <1>4, <1>5, <1>6, <1>7, <1>8, <1>9, <1>10, <1>11, <1>12, <1>13,
       ProcessSteps DEF ProcessStep

\* The dumps in progress are registered and pending, so they are protected.
LEMMA DumpingProtected ==
  ASSUME IInv
  PROVE  /\ Dumping \subseteq Protected /\ Dumping \subseteq registry
         /\ \A i \in Dumping : i \in Ids /\ Pending(i) /\ future[i] # "none"
         /\ \A i \in Dumping : writer[i] = taken[i] /\ writer[i] # Gone
         /\ Drained => Dumping = {}
         /\ pc \in Building => cid \in Ids /\ cid \notin registry
  <1>1. \A i \in Dumping : i \in registry /\ Pending(i) /\ writer[i] = taken[i]
    BY Zenon DEF IInv, WriterInv, WriterUntouched
  <1>2. registry \subseteq Ids BY Zenon DEF IInv, TypeOK, RegType
  <1>3. \A i \in Dumping : future[i] # "none" BY Zenon, <1>1 DEF Pending
  <1>4. \A i \in Dumping : writer[i] # Gone BY Zenon, <1>1, <1>3 DEF IInv, WriterInv
  <1>5. Drained => Dumping = {} BY Zenon, <1>1, <1>3 DEF Drained, Detached, Done, Pending
  <1>6. pc \in Building => cid \in Ids /\ cid \notin registry
    BY Zenon DEF IInv, CallInv, TypeOK, RegType
  <1> QED BY Zenon, <1>1, <1>2, <1>3, <1>4, <1>5, <1>6 DEF Protected

\* A controller step that touches neither dumps nor their processes.
LEMMA WriterQuiet ==
  ASSUME IInv, UNCHANGED <<registry, future, taken, dispose_done, writer, killed, queue,
                           wpc, wid>>,
         pc # "publish", pc' # "publish", pc' \in Building => cid' \notin killed
  PROVE  WriterInv'
  <1>1. Dumping' = Dumping BY Zenon DEF Dumping, Queued
  <1> QED BY Zenon, <1>1 DEF IInv, WriterInv, WriterUntouched, Pending, Building

LEMMA WriterWorker == IInv /\ Worker => WriterInv'
  <1> SUFFICES ASSUME IInv, Worker PROVE WriterInv' OBVIOUS
  <1>t. /\ WriterInv /\ registry \subseteq Ids
        /\ writer \in [Ids -> Contents \cup {Gone}]
        /\ future \in [Ids -> {"none", "pending", "result", "exception"}]
    BY Zenon DEF IInv, TypeOK, RegType, DumpType, ProcType
  <1>1. CASE Take
    <2>1. Dumping' = Dumping BY Zenon, <1>1, TakeQueue DEF Dumping
    <2>2. UNCHANGED <<registry, future, taken, dispose_done, writer, killed, pc, cid, mem>>
      BY Zenon, <1>1 DEF Take, regVars, dumpVars, procVars, callVars
    <2> QED BY Zenon, <1>t, <2>1, <2>2 DEF WriterInv, WriterUntouched, Pending
  <1>2. CASE AwaitParent \/ DumpCommits \/ DumpFails \/ Release
    <2>1. Dumping' = Dumping
      BY Zenon, <1>2 DEF AwaitParent, DumpCommits, DumpFails, Release, Dumping, Queued
    <2>2. UNCHANGED <<registry, future, taken, dispose_done, writer, killed, pc, cid, mem>>
      BY Zenon, <1>2 DEF AwaitParent, DumpCommits, DumpFails, Release, regVars, dumpVars, procVars,
         callVars
    <2> QED BY Zenon, <1>t, <2>1, <2>2 DEF WriterInv, WriterUntouched, Pending
  <1>3. ASSUME NEW exited \in BOOLEAN, Dispose(exited) PROVE WriterInv'
    <2>1. /\ wid \in Dumping /\ wid \notin Dumping' /\ Dumping = Dumping' \cup {wid}
      BY <1>3 DEF Dispose, Dumping, Queued, IInv, WorkerInv
    <2>2. wid \in registry /\ wid \in Ids /\ future[wid] # "none" /\ wid \notin killed
          /\ wid \notin dispose_done /\ (pc \in Building => cid # wid)
      BY Zenon, <1>t, <2>1, DumpingProtected DEF WriterInv
    <2>3. UNCHANGED <<registry, future, taken, pc, cid, mem>>
      BY Zenon, <1>3 DEF Dispose, regVars, callVars
    <2>4. pc = "publish" => cid # wid BY Zenon, <2>2 DEF Building
    <2>5. CASE exited
      <3>1. /\ writer' = [writer EXCEPT ![wid] = Gone] /\ UNCHANGED killed
            /\ dispose_done' = dispose_done \cup {wid}
        BY <1>3, <2>5 DEF Dispose
      <3>2. writer'[wid] = Gone /\ \A i \in Ids \ {wid} : writer'[i] = writer[i]
        BY Zenon, <1>t, <2>2, <3>1
      <3>3. pc = "publish" => cid \in Ids BY Zenon, DumpingProtected DEF Building
      <3>4. WriterUntouched'
        BY Zenon, <1>t, <2>1, <2>3, <3>2, DumpingProtected DEF WriterInv, WriterUntouched, Pending
      <3> QED
        BY Zenon, <1>t, <2>1, <2>2, <2>3, <2>4, <3>1, <3>2, <3>3, <3>4 DEF WriterInv
    <2>6. CASE ~exited
      <3>1. /\ killed' = killed \cup {wid} /\ UNCHANGED <<writer, dispose_done>>
        BY Zenon, <1>3, <2>6 DEF Dispose
      <3>2. WriterUntouched'
        BY Zenon, <1>t, <2>1, <2>3, <3>1 DEF WriterInv, WriterUntouched, Pending
      <3> QED BY Zenon, <1>t, <2>1, <2>2, <2>3, <3>1, <3>2 DEF WriterInv
    <2> QED BY Zenon, <2>5, <2>6
  <1>4. CASE Complete
    <2>1. Dumping' = Dumping /\ wid \notin Dumping /\ wid \in registry
      BY Zenon, <1>4 DEF Complete, Dumping, Queued, IInv, WorkerInv
    <2>2. /\ UNCHANGED <<registry, taken, dispose_done, writer, killed, pc, cid, mem>>
          /\ \A i \in Ids \ {wid} : future'[i] = future[i]
          /\ future'[wid] # "none"
      BY Zenon, <1>4, <1>t, <2>1 DEF Complete, regVars, procVars, callVars
    <2>3. future[wid] # "none"
      BY Zenon, <1>4 DEF Complete, IInv, WorkerInv, Running, Pending, TypeOK, RegType
    <2> QED
      BY Zenon, <1>t, <2>1, <2>2, <2>3, DumpingProtected DEF WriterInv, WriterUntouched, Pending
  <1> QED BY Zenon, <1>1, <1>2, <1>3, <1>4 DEF Worker

LEMMA WriterNext == IInv /\ [Next]_vars => WriterInv'
  <1> SUFFICES ASSUME IInv, [Next]_vars PROVE WriterInv' OBVIOUS
  <1>t. /\ WriterInv /\ registry \subseteq used /\ used \subseteq Ids /\ killed \subseteq used
        /\ writer \in [Ids -> Contents \cup {Gone}]
    BY Zenon DEF IInv, TypeOK, RegType, ProcType
  <1>b. pc \in Building => cid \notin killed /\ cid \notin Dumping /\ cid \in Ids
                          /\ cid \notin registry
    BY Zenon, <1>t, DumpingProtected DEF WriterInv
  <1>1. CASE ForkDump
    <2>1. /\ UNCHANGED <<registry, future, taken, dispose_done, killed, mem, cid>>
          /\ pc = "fork" /\ pc' = "publish" /\ Dumping' = Dumping
      BY Zenon, <1>1 DEF ForkDump, regVars, dumpVars, workVars, Goto, Dumping, Queued
    <2>2. writer'[cid] = mem /\ \A i \in Ids \ {cid} : writer'[i] = writer[i]
      BY Zenon, <1>1, <1>t, <1>b DEF ForkDump, Building
    <2>3. cid \notin Dumping /\ cid \notin killed BY Zenon, <1>b, <2>1 DEF Building
    <2>4. WriterUntouched'
      BY Zenon, <1>t, <2>1, <2>2, <2>3, DumpingProtected DEF WriterInv, WriterUntouched,
         Pending
    <2> QED BY Zenon, <1>t, <2>1, <2>2, <2>3, <2>4 DEF WriterInv
  <1>2. CASE Publish
    <2>1. /\ pc = "publish" /\ pc' = "idle" /\ UNCHANGED <<dispose_done, writer, killed>>
      BY <1>2 DEF Publish, Return, procVars
    <2>2. Dumping' = Dumping \cup {cid} BY Zenon, <1>2, PublishQueue DEF Dumping
    <2>3. cid \notin killed /\ cid \notin Dumping /\ cid \in Ids /\ cid \notin registry
      BY Zenon, <1>b, <2>1 DEF Building
    <2>4. mem # Gone /\ writer[cid] = mem BY Zenon, <2>1 DEF IInv, AgentInv, WriterInv
    <2>5. WriterUntouched'
      BY Zenon, <1>2, <2>1, <2>2, <2>3, <2>4, PublishQueue, DumpingProtected
      DEF WriterUntouched, Pending
    <2> QED
      BY SMTT(30), <1>2, <1>t, <2>1, <2>2, <2>3, <2>4, <2>5, PublishQueue DEF WriterInv, Building
  <1>3. ASSUME NEW disposed \in BOOLEAN, Abort(disposed) PROVE WriterInv'
    <2>1. /\ UNCHANGED <<registry, future, taken, dispose_done, mem>>
          /\ pc \in Building /\ pc' = "idle" /\ Dumping' = Dumping
      BY Zenon, <1>3 DEF Abort, regVars, dumpVars, workVars, Return, Dumping, Queued, Building
    <2>2. cid \notin killed /\ cid \notin Dumping /\ cid \in Ids /\ cid \notin registry
      BY Zenon, <1>b, <2>1
    <2>3. CASE disposed
      <3>1. /\ writer'[cid] = Gone /\ \A i \in Ids \ {cid} : writer'[i] = writer[i]
            /\ UNCHANGED killed
        BY Zenon, <1>3, <1>t, <2>2, <2>3 DEF Abort
      <3>2. WriterUntouched'
        BY Zenon, <2>1, <2>2, <3>1, DumpingProtected DEF WriterUntouched, Pending
      <3> QED BY Zenon, <1>t, <2>1, <2>2, <3>1, <3>2 DEF WriterInv, Building
    <2>4. CASE ~disposed
      <3>1. killed' = killed \cup {cid} /\ UNCHANGED writer BY Zenon, <1>3, <2>4 DEF Abort
      <3>2. WriterUntouched' BY Zenon, <1>t, <2>1, <3>1 DEF WriterInv, WriterUntouched,
                                Pending
      <3> QED BY Zenon, <1>t, <2>1, <2>2, <3>1, <3>2 DEF WriterInv, Building
    <2> QED BY Zenon, <2>3, <2>4
  <1>n. ASSUME NamespaceDies, Dumping = {}, pc \in Restoring, pc' \in Restoring,
               UNCHANGED <<regVars, dumpVars, workVars>>
        PROVE  WriterInv'
    <2>1. Dumping' = {} BY Zenon, <1>n DEF workVars, Dumping, Queued
    <2>2. /\ \A i \in Ids : writer'[i] = Gone
          /\ killed' = {} /\ pc' # "publish" /\ pc' \notin Building
      BY Zenon, <1>n DEF NamespaceDies, Restoring, Building
    <2>3. UNCHANGED <<registry, future, taken, dispose_done>> BY Zenon, <1>n DEF regVars, dumpVars
    <2> QED BY Zenon, <1>t, <2>1, <2>2, <2>3, <1>n DEF WriterInv, WriterUntouched
  <1>4. ASSUME NEW victims \in SUBSET Ids, KillActive(victims) PROVE WriterInv'
    <2>1. pc \in Restoring /\ pc' \in Restoring BY Zenon, <1>4 DEF KillActive, Goto, Restoring
    <2>2. CASE agent = "init"
      <3>1. Dumping = {}
        BY Zenon, <2>2, DumpingProtected DEF IInv, AgentInv
      <3> QED BY Zenon, <1>4, <1>n, <2>1, <2>2, <3>1 DEF KillActive
    <2>3. CASE agent # "init"
      <3>1. /\ \A i \in Ids : writer'[i] = IF i \in victims THEN Gone ELSE writer[i]
            /\ killed' = killed \ victims
        BY Zenon, <1>4, <2>3 DEF KillActive
      <3>2. /\ UNCHANGED <<registry, future, taken, dispose_done>> /\ Dumping' = Dumping
        BY Zenon, <1>4 DEF KillActive, regVars, dumpVars, workVars, Dumping, Queued
      <3>3. Dumping \cap victims = {}
        BY Zenon, <1>4, DumpingProtected DEF KillActive
      <3>4. pc # "publish" /\ pc' # "publish" /\ pc' \notin Building
        BY Zenon, <2>1 DEF Restoring, Building
      <3>5. WriterUntouched'
        BY Zenon, <3>1, <3>2, <3>3, DumpingProtected DEF WriterUntouched, Pending
      <3> QED BY Zenon, <1>t, <3>1, <3>2, <3>3, <3>4, <3>5 DEF WriterInv
    <2> QED BY Zenon, <2>2, <2>3
  <1>5. CASE Teardown
    <2>1. pc \in Restoring /\ pc' \in Restoring /\ Drained
      BY Zenon, <1>5 DEF Teardown, Goto, Restoring
    <2>2. Dumping = {} BY Zenon, <2>1, DumpingProtected
    <2> QED BY Zenon, <1>5, <1>n, <2>1, <2>2 DEF Teardown
  <1>6. ASSUME NEW keep \in SUBSET Ids, GC(keep) PROVE WriterInv'
    <2> DEFINE pruned == registry \ retained_ids(keep \cup (registry \cap {init_tmpl}))
    <2>1. registry' = registry \ pruned BY Zenon, <1>6, GCKeeps DEF GC
    <2>2. init_tmpl \notin pruned BY Zenon, <1>6, <2>1, GCKeeps
    <2>3. UNCHANGED <<writer, killed, mem>> BY Zenon, <1>6, <2>2 DEF GC
    <2>4. Dumping' = Dumping /\ pc = "idle" /\ pc' = "idle"
      <3>1. UNCHANGED <<queue, wpc, wid, pc>> /\ pc = "idle" BY Zenon, <1>6, GCKeeps
      <3>2. Queued' = Queued BY Zenon, <3>1 DEF Queued
      <3> QED BY Zenon, <3>1, <3>2 DEF Dumping
    <2>5. \A i \in Dumping : i \in registry' /\ i \in Ids
      BY Zenon, <1>6, GCKeeps, DumpingProtected
    <2>6. \A i \in registry' : /\ i \in registry /\ taken'[i] = taken[i]
                               /\ future'[i] = future[i]
      BY Zenon, <1>6, <1>t, GCKeeps
    <2>7. WriterUntouched' BY Zenon, <1>t, <2>3, <2>4, <2>5, <2>6, DumpingProtected
                           DEF WriterUntouched, Pending
    <2>8. dispose_done' = dispose_done \ (registry \ registry') BY Zenon, <1>6, GCKeeps
    <2> QED
      BY Zenon, <1>t, <2>3, <2>4, <2>6, <2>7, <2>8 DEF WriterInv, Building
  <1>7. ASSUME NEW i \in Ids, WriterExitsLate(i) PROVE WriterInv'
    <2>1. /\ UNCHANGED <<registry, future, taken, dispose_done, mem, pc, cid>>
          /\ Dumping' = Dumping /\ i \in killed /\ killed' = killed \ {i}
          /\ writer'[i] = Gone /\ \A j \in Ids \ {i} : writer'[j] = writer[j]
      BY Zenon, <1>7, <1>t DEF WriterExitsLate, regVars, dumpVars, workVars, callVars, Dumping, Queued
    <2>2. i \notin Dumping /\ (pc = "publish" => cid # i /\ cid \in Ids)
      BY Zenon, <1>t, <1>b, <2>1 DEF WriterInv, Building
    <2>3. WriterUntouched'
      BY Zenon, <2>1, <2>2, DumpingProtected DEF WriterUntouched, Pending
    <2> QED BY Zenon, <1>t, <2>1, <2>2, <2>3 DEF WriterInv
  <1>8. ASSUME NEW parent \in Ids, NEW i \in Ids, Lightweight(parent, i) PROVE WriterInv'
    <2>1. /\ UNCHANGED <<taken, future, dispose_done, writer, killed, pc, cid, mem>>
          /\ registry' = registry \cup {i} /\ i \notin used /\ Dumping' = Dumping
          /\ pc = "idle"
      BY Zenon, <1>8 DEF Lightweight, dumpVars, procVars, callVars, workVars, Dumping, Queued
    <2>2. future[i] = "none" BY Zenon, <1>t, <2>1 DEF IInv, RegistryInv
    <2> QED BY Zenon, <1>t, <2>1, <2>2 DEF WriterInv, WriterUntouched, Pending, Building
  <1>9. CASE Work
    BY Zenon, <1>9, <1>t, WriterQuiet DEF Work, regVars, dumpVars, workVars, callVars,
       Building
  <1>10. CASE (\E i \in Ids : Admit(i)) \/ Prepare
    BY Zenon, <1>10, <1>t, <1>b, WriterQuiet DEF Admit, Prepare, Goto, regVars, dumpVars,
       procVars,
       workVars, Building
  <1>11. CASE (\E parent \in Ids \cup {NoId} : CheckpointCall(parent))
              \/ \E target \in Ids, cold \in BOOLEAN : RestoreCall(target, cold)
    BY Zenon, <1>11, WriterQuiet DEF CheckpointCall, RestoreCall, Return, regVars, dumpVars,
       procVars, workVars, Building
  <1>12. CASE Join \/ DrainPasses \/ DrainRefuses \/ WarmForkFails \/ CriuFails \/ Timeouts
    BY Zenon, <1>12, WriterQuiet DEF Join, DrainPasses, DrainRefuses, WarmForkFails, CriuFails,
       Timeouts, AdmitTimeout, JoinTimeout, DrainTimeout, Goto, Return, regVars, dumpVars,
       procVars, workVars, Building
  <1>13. CASE WarmForkReplies \/ CriuRestores
    BY Zenon, <1>13, WriterQuiet DEF WarmForkReplies, CriuRestores, Return, regVars, dumpVars,
       workVars, Building
  <1>14. CASE (\E i \in Ids : TemplateDies(i)) \/ UNCHANGED vars
    <2>1. /\ UNCHANGED <<registry, future, taken, dispose_done, writer, killed, mem, pc, cid>>
          /\ Dumping' = Dumping
      BY Zenon, <1>14 DEF TemplateDies, vars, regVars, dumpVars, procVars, callVars, workVars,
         Dumping, Queued
    <2> QED BY Zenon, <1>t, <2>1 DEF WriterInv, WriterUntouched, Pending
  <1> QED
    BY SMTT(30), <1>1, <1>2, <1>3, <1>4, <1>5, <1>6, <1>7, <1>8, <1>9, <1>10, <1>11, <1>12, <1>13,
       <1>14, WriterWorker DEF Next, Calls, Continue, Environment

-----------------------------------------------------------------------------
(* The invariant, and what follows from it                                 *)

LEMMA InitInv == Init => IInv
  <1> SUFFICES ASSUME Init PROVE IInv OBVIOUS
  <1>1. TypeOK BY Zenon, InitType
  <1>2. Queued = {} /\ Dumping = {} /\ Running = {} BY DEF Init, Queued, Dumping, Running
  <1>3. CallInv BY Zenon DEF Init, CallInv, Building, Restoring
  <1>4. RegistryInv BY Zenon DEF Init, RegistryInv
  <1>5. WorkerInv BY <1>2 DEF Init, WorkerInv, Pending
  <1>6. OrderInv BY DEF Init, OrderInv
  <1>7. ImageInv BY Zenon DEF Init, ImageInv
  <1>8. AgentInv BY Zenon, NoIdAssumption, GoneAssumption DEF Init, AgentInv
  <1>9. WriterInv BY Zenon, <1>2 DEF Init, WriterInv, WriterUntouched
  <1> QED BY Zenon, <1>1, <1>3, <1>4, <1>5, <1>6, <1>7, <1>8, <1>9 DEF IInv

LEMMA NextInv == IInv /\ [Next]_vars => IInv'
  BY Zenon, TypeNext, CallNext, RegistryNext, WorkerNext, OrderNext, ImageNext, AgentNext,
     WriterNext DEF IInv

\* IInv is inductive, so it holds in every state of every behaviour of the
\* protocol, whatever the number of checkpoints and the admission bound.
THEOREM Invariance == Spec => []IInv
  BY InitInv, NextInv, PTL DEF Spec

\* The state of the controller and of the dump worker stays well formed.
THEOREM TypeCorrect == Spec => []TypeOK
  <1>1. IInv => TypeOK BY Zenon DEF IInv
  <1> QED BY <1>1, Invariance, PTL

\* No restore, collection or failure kills or re-uses the process a dump is
\* still reading (_kill_active_subtree, gc_obsolete_snapshots, checkpoint).
THEOREM WritersUntouched == Spec => []WriterUntouched
  <1>1. IInv => WriterUntouched BY Zenon DEF IInv, WriterInv
  <1> QED BY <1>1, Invariance, PTL

LEMMA DurableChain == IInv => ChainIntact
  <1> SUFFICES ASSUME IInv, NEW i \in registry, state[i] = "DURABLE_READY"
               PROVE  image[i] = taken[i] /\ ChainPresent(i)
    BY Zenon DEF ChainIntact
  <1> DEFINE S == {j \in registry : state[j] = "DURABLE_READY"}
  <1>1. registry \subseteq Ids BY Zenon DEF IInv, TypeOK, RegType
  <1>2. \A j \in S : image[j] = taken[j] /\ image[j] # Gone
    <2>1. \A j \in S : future[j] # "none" BY Zenon, <1>1 DEF IInv, RegistryInv
    <2> QED BY Zenon, <2>1 DEF IInv, ImageInv, WriterInv
  <1>3. \A j \in S : Prev(j) \in S \cup {NoId}
    <2>1. \A j \in S : Prev(j) = NoId \/ (Prev(j) \in registry /\ future[Prev(j)] = "result")
      BY Zenon, PendingRegistered DEF IInv, ImageInv
    <2> QED BY Zenon, <2>1 DEF IInv, WorkerInv, Done
  <1>4. S \in SUBSET Ids /\ i \in S BY Zenon, <1>1
  <1> HIDE DEF S
  <1> QED BY Zenon, <1>2, <1>3, <1>4 DEF ChainPresent

\* Every DURABLE_READY checkpoint can be restored from its image chain.
THEOREM ChainsIntact == Spec => []ChainIntact
  BY DurableChain, Invariance, PTL

\* No collection leaves a registered checkpoint without its ancestors.
THEOREM AncestorsKept == Spec => []AncestorsRegistered
  <1>1. IInv => AncestorsRegistered
    BY Zenon, NoIdAssumption DEF IInv, RegistryInv, AncestorsRegistered, TypeOK, RegType
  <1> QED BY <1>1, Invariance, PTL

\* The dump worker never waits for a dump that is queued behind it.
THEOREM ParentsSettled == Spec => []ParentSettled
  <1>1. IInv => ParentSettled BY Zenon DEF IInv, OrderInv, ParentSettled
  <1> QED BY <1>1, Invariance, PTL

\* A forked agent always has the living namespace init it depends on.
THEOREM NamespaceInitStays == Spec => []NamespaceInitAlive
  <1>1. IInv => NamespaceInitAlive BY Zenon DEF IInv, AgentInv, NamespaceInitAlive
  <1> QED BY <1>1, Invariance, PTL

LEMMA TeardownDrained == IInv /\ Teardown => \A i \in registry : writer[i] = Gone
  <1> SUFFICES ASSUME IInv, Teardown, NEW i \in registry PROVE writer[i] = Gone OBVIOUS
  <1>1. pc = "teardown" /\ Drained BY Zenon DEF Teardown
  <1>2. Dumping = {} /\ i \in Ids BY Zenon, <1>1, DumpingProtected DEF IInv, TypeOK, RegType
  <1>3. i \in killed => i \in Detached BY Zenon DEF IInv, WriterInv, Detached
  <1>4. i \in Detached => i \in dispose_done BY Zenon, <1>1 DEF Drained
  <1> QED BY Zenon, <1>1, <1>2, <1>3, <1>4 DEF IInv, WriterInv

\* drain_before_namespace_teardown is a barrier for every registered dump.
THEOREM TeardownIsLast == Spec => TeardownAfterWriters
  <1>1. IInv /\ [Next]_vars => [Teardown => \A i \in registry : writer[i] = Gone]_vars
    BY Zenon, TeardownDrained
  <1> QED BY <1>1, Invariance, PTL DEF Spec, TeardownAfterWriters

-----------------------------------------------------------------------------
(* The permits of the semaphore                                            *)

\* The permits held by the worker side, and by the checkpoint being built.
Held == Queued \cup (IF wpc \in {"parent", "dump", "dispose", "release"} THEN {wid} ELSE {})
Built == IF pc \in Building THEN {cid} ELSE {}

LEMMA OwnersSplit ==
  ASSUME IInv
  PROVE  /\ Owners = Held \cup Built
         /\ Held \subseteq registry /\ Built \cap registry = {} /\ Owners \subseteq used
  <1>1. Owners = Held \cup Built BY Zenon DEF Owners, Held, Built, Building
  <1>2. Held \subseteq registry BY Zenon, PendingRegistered DEF Held, Running
  <1>3. Built \cap registry = {} /\ Built \subseteq used BY Zenon DEF Built, IInv, CallInv
  <1> QED BY Zenon, <1>1, <1>2, <1>3 DEF IInv, TypeOK, RegType

\* Only five steps move a permit, and only three of them change its holder.
LEMMA PermitSteps ==
  ASSUME IInv, [Next]_vars
  PROVE  \/ \E i \in Ids : Admit(i)
         \/ \E disposed \in BOOLEAN : Abort(disposed)
         \/ Release
         \/ Owners' = Owners /\ slots' = slots
  <1>1. CASE Publish
    <2>1. Held' = Held \cup {cid} BY Zenon, <1>1, PublishQueue DEF Held
    <2>2. Built = {cid} /\ Built' = {} BY Zenon, <1>1 DEF Publish, Return, Built, Building
    <2>3. Owners = Held \cup Built BY Zenon, OwnersSplit
    <2>4. Owners' = Held' \cup Built' BY Zenon DEF Owners, Held, Built, Building
    <2> QED BY Zenon, <1>1, <2>1, <2>2, <2>3, <2>4 DEF Publish
  <1>2. CASE Take
    <2>1. Held' = Held BY Zenon, <1>2, TakeQueue DEF Held
    <2>2. UNCHANGED <<pc, cid, slots>> BY Zenon, <1>2 DEF Take, callVars
    <2> QED BY Zenon, <2>1, <2>2 DEF Owners, Held
  <1>3. CASE AwaitParent \/ DumpCommits \/ DumpFails \/ Complete
             \/ \E exited \in BOOLEAN : Dispose(exited)
    BY Zenon, <1>3 DEF AwaitParent, DumpCommits, DumpFails, Complete, Dispose, Owners, Queued, callVars
  <1>4. ASSUME UNCHANGED workVars, UNCHANGED slots,
               UNCHANGED <<pc, cid>> \/ (pc \notin Building /\ pc' \notin Building)
                 \/ (pc \in Building /\ pc' \in Building /\ cid' = cid)
        PROVE  Owners' = Owners /\ slots' = slots
    BY Zenon, <1>4 DEF workVars, Owners, Queued, Building
  <1>5. CASE Calls
    BY Zenon, <1>4, <1>5 DEF Calls, Work, CheckpointCall, Lightweight, RestoreCall, GC, Return,
       callVars, Building
  <1>6. CASE Prepare \/ ForkDump
    BY Zenon, <1>4, <1>6 DEF Prepare, ForkDump, Goto, Building
  <1>7. CASE Join \/ DrainPasses \/ DrainRefuses \/ Timeouts
    BY Zenon, <1>4, <1>7 DEF Join, DrainPasses, DrainRefuses, Timeouts, AdmitTimeout, JoinTimeout,
       DrainTimeout, Goto, Return, Building
  <1>8. CASE (\E victims \in SUBSET Ids : KillActive(victims)) \/ WarmForkReplies
             \/ WarmForkFails \/ Teardown \/ CriuRestores \/ CriuFails
    BY Zenon, <1>4, <1>8 DEF KillActive, WarmForkReplies, WarmForkFails, Teardown, CriuRestores,
       CriuFails, Goto, Return, Building
  <1>9. CASE Environment \/ UNCHANGED vars
    BY Zenon, <1>4, <1>9 DEF Environment, TemplateDies, WriterExitsLate, vars, callVars
  <1> QED
    BY SMTT(30), <1>1, <1>2, <1>3, <1>5, <1>6, <1>7, <1>8, <1>9 DEF Next, Continue, Worker

LEMMA SlotNext == IInv /\ SlotInv /\ [Next]_vars => SlotInv'
  <1> SUFFICES ASSUME IInv, SlotInv, [Next]_vars PROVE SlotInv' OBVIOUS
  <1>t. /\ IsFiniteSet(Owners) /\ Cardinality(Owners) \in Nat /\ slots \in Nat
        /\ slots + Cardinality(Owners) = MaxPending /\ MaxPending \in Nat
    BY Zenon, FS_CardinalityType, MaxPendingAssumption DEF SlotInv, SlotAccounting, IInv, TypeOK
  <1>1. ASSUME NEW i \in Ids, Admit(i) PROVE SlotInv'
    <2>1. Owners' = Owners \cup {i}
      BY Zenon, <1>1 DEF Admit, Owners, Queued, workVars
    <2>2. i \notin Owners BY Zenon, <1>1, OwnersSplit DEF Admit
    <2>3. IsFiniteSet(Owners') /\ Cardinality(Owners') = Cardinality(Owners) + 1
      BY Zenon, <1>t, <2>1, <2>2, FS_AddElement
    <2>4. slots' = slots - 1 BY Zenon, <1>1 DEF Admit
    <2> QED BY <1>t, <2>3, <2>4 DEF SlotInv, SlotAccounting
  <1>r. ASSUME NEW x \in Owners, Owners' = Owners \ {x}, slots' = slots + 1
        PROVE  SlotInv'
    <2>1. IsFiniteSet(Owners') /\ Cardinality(Owners') = Cardinality(Owners) - 1
      BY Zenon, <1>t, <1>r, FS_RemoveElement
    <2> QED BY <1>t, <1>r, <2>1 DEF SlotInv, SlotAccounting
  <1>2. ASSUME NEW disposed \in BOOLEAN, Abort(disposed) PROVE SlotInv'
    <2>1. Held' = Held /\ Built = {cid} /\ Built' = {}
      BY Zenon, <1>2 DEF Abort, Held, Built, Building, Queued, workVars, Return
    <2>2. Owners' = Held' \cup Built' BY Zenon DEF Owners, Held, Built, Building
    <2>3. Owners' = Owners \ {cid} /\ cid \in Owners BY Zenon, <2>1, <2>2, OwnersSplit
    <2> QED BY Zenon, <1>2, <1>r, <2>3 DEF Abort
  <1>3. CASE Release
    <2>1. Queued' = Queued /\ Built' = Built /\ wid' = wid
      BY Zenon, <1>3 DEF Release, Queued, Built, callVars
    <2>2. Held' = Queued /\ Held = Queued \cup {wid}
      BY Zenon, <1>3, <2>1 DEF Release, Held
    <2>3. wid \notin Queued /\ wid \in registry BY Zenon, <1>3 DEF Release, IInv, WorkerInv
    <2>4. Owners' = Held' \cup Built' BY Zenon DEF Owners, Held, Built, Building
    <2>5. Owners' = Owners \ {wid} /\ wid \in Owners
      BY Zenon, <2>1, <2>2, <2>3, <2>4, OwnersSplit
    <2> QED BY Zenon, <1>3, <1>r, <2>5 DEF Release
  <1>4. CASE Owners' = Owners /\ slots' = slots
    BY Zenon, <1>4 DEF SlotInv, SlotAccounting
  <1> QED BY Zenon, <1>1, <1>2, <1>3, <1>4, PermitSteps

LEMMA SlotInvariance == Spec => []SlotInv
  <1>1. Init => SlotInv
    <2>1. Init => Owners = {} /\ slots = MaxPending BY DEF Init, Owners, Queued
    <2> QED BY <2>1, FS_EmptySet, MaxPendingAssumption DEF SlotInv, SlotAccounting
  <1> QED BY <1>1, SlotNext, Invariance, PTL DEF Spec

\* The BoundedSemaphore is never released twice and never leaks a permit.
THEOREM SlotsAccounted == Spec => []SlotAccounting
  <1>1. SlotInv => SlotAccounting BY Zenon DEF SlotInv
  <1> QED BY <1>1, SlotInvariance, PTL

\* DELTABOX_ASYNC_MAX_PENDING bounds the dump processes that are not yet
\* condemned, however long the dumps take.
THEOREM WritersStayBounded == Spec => []WritersBounded
  <1>1. IInv /\ SlotInv => WritersBounded
    <2> SUFFICES ASSUME IInv, SlotInv PROVE WritersBounded OBVIOUS
    <2> DEFINE W == {i \in Ids : writer[i] # Gone} \ killed
    <2>1. W \subseteq Owners
      BY Zenon DEF IInv, WriterInv, Dumping, Owners
    <2>2. Cardinality(W) <= Cardinality(Owners) /\ Cardinality(W) \in Nat
      BY Zenon, <2>1, FS_Subset, FS_CardinalityType DEF SlotInv
    <2>3. Cardinality(Owners) \in Nat BY Zenon, FS_CardinalityType DEF SlotInv
    <2> QED BY <2>2, <2>3, MaxPendingAssumption DEF WritersBounded, SlotInv, SlotAccounting,
               IInv, TypeOK
  <1> QED BY <1>1, Invariance, SlotInvariance, PTL
-----------------------------------------------------------------------------
(* What a restore relies on                                                *)

\* A step that changes no checkpoint, and at most takes templates away.
LEMMA TemplateQuiet ==
  ASSUME IInv, TemplateInv, UNCHANGED <<registry, taken>>, used \subseteq used',
         \A i \in Ids : tmpl'[i] = tmpl[i] \/ tmpl'[i] = Gone,
         pc' \in {"fork", "publish"} =>
           pc \in {"fork", "publish"} /\ cid' = cid /\ mem' = mem
  PROVE  TemplateInv'
  <1>1. registry \subseteq Ids /\ (pc \in {"fork", "publish"} => cid \in Ids)
    BY Zenon DEF IInv, TypeOK, RegType, CallInv, Building
  <1>2. \A i \in Ids : tmpl'[i] # Gone => i \in used' BY Zenon DEF TemplateInv
  <1>3. \A i \in registry' : tmpl'[i] # Gone => tmpl'[i] = taken'[i] BY Zenon, <1>1 DEF TemplateInv
  <1>4. pc' \in {"fork", "publish"} => tmpl'[cid'] \in {Gone, mem'} BY Zenon, <1>1 DEF TemplateInv
  <1> QED BY Zenon, <1>2, <1>3, <1>4 DEF TemplateInv

LEMMA TemplateNext == IInv /\ TemplateInv /\ [Next]_vars => TemplateInv'
  <1> SUFFICES ASSUME IInv, TemplateInv, [Next]_vars PROVE TemplateInv' BY Zenon
  <1>t. /\ registry \subseteq used /\ used \subseteq Ids
        /\ tmpl \in [Ids -> Contents \cup {Gone}] /\ taken \in [Ids -> Contents \cup {Gone}]
        /\ pc \in Building => cid \in used /\ cid \notin registry
    BY Zenon DEF IInv, TypeOK, RegType, ProcType, CallInv
  <1>u. used \subseteq used' BY Zenon, UsedGrows
  <1>n. NamespaceDies => \A i \in Ids : tmpl'[i] = Gone BY Zenon DEF NamespaceDies
  <1>1. ASSUME NEW parent \in Ids, NEW i \in Ids, Lightweight(parent, i) PROVE TemplateInv'
    <2>1. /\ i \notin used /\ registry' = registry \cup {i} /\ pc' = "idle"
          /\ UNCHANGED <<taken, tmpl>>
      BY Zenon, <1>1 DEF Lightweight, procVars, callVars
    <2>2. tmpl[i] = Gone BY Zenon, <2>1 DEF TemplateInv
    <2> QED BY Zenon, <1>t, <1>u, <2>1, <2>2 DEF TemplateInv
  <1>2. CASE Publish
    <2>1. /\ pc = "publish" /\ pc' = "idle" /\ registry' = registry \cup {cid}
          /\ taken' = [taken EXCEPT ![cid] = mem] /\ UNCHANGED tmpl
      BY Zenon, <1>2 DEF Publish, Return, procVars
    <2>2. cid \in Ids /\ cid \notin registry BY Zenon, <1>t, <2>1 DEF Building
    <2>3. taken'[cid] = mem /\ \A i \in registry : taken'[i] = taken[i] BY Zenon, <1>t, <2>1, <2>2
    <2> QED BY Zenon, <1>t, <1>u, <2>1, <2>2, <2>3 DEF TemplateInv
  <1>3. CASE Prepare
    <2>1. /\ pc = "prepare" /\ tmpl' = [tmpl EXCEPT ![cid] = mem]
          /\ UNCHANGED <<registry, taken, used, cid, mem>>
      BY Zenon, <1>3 DEF Prepare, Goto, regVars
    <2>2. cid \in used /\ cid \notin registry BY Zenon, <1>t, <2>1 DEF Building
    <2>3. tmpl'[cid] = mem /\ \A i \in Ids \ {cid} : tmpl'[i] = tmpl[i] BY Zenon, <1>t, <2>1, <2>2
    <2> QED BY Zenon, <1>t, <2>1, <2>2, <2>3 DEF TemplateInv
  <1>4. ASSUME NEW keep \in SUBSET Ids, GC(keep) PROVE TemplateInv'
    <2>1. /\ registry' \subseteq registry /\ pc' = "idle"
          /\ \A i \in registry' : taken'[i] = taken[i]
      BY Zenon, <1>4, <1>t, GCKeeps
    <2>2. \A i \in Ids : tmpl'[i] = tmpl[i] \/ tmpl'[i] = Gone BY Zenon, <1>4, <1>n DEF GC
    <2> QED BY Zenon, <1>t, <1>u, <2>1, <2>2 DEF TemplateInv
  <1>5. ASSUME NEW disposed \in BOOLEAN, Abort(disposed) PROVE TemplateInv'
    <2>1. \A i \in Ids : tmpl'[i] = tmpl[i] \/ tmpl'[i] = Gone
      BY Zenon, <1>5, <1>t DEF Abort, Building
    <2> QED BY Zenon, <1>5, <1>u, <2>1, TemplateQuiet DEF Abort, Return, regVars
  <1>6. ASSUME NEW victims \in SUBSET Ids, KillActive(victims) PROVE TemplateInv'
    <2>1. \A i \in Ids : tmpl'[i] = tmpl[i] \/ tmpl'[i] = Gone
      BY Zenon, <1>6, <1>n DEF KillActive
    <2> QED BY Zenon, <1>6, <1>u, <2>1, TemplateQuiet DEF KillActive, Goto, regVars
  <1>7. CASE Teardown BY Zenon, <1>7, <1>n, <1>u, TemplateQuiet DEF Teardown, Goto, regVars
  <1>8. ASSUME NEW i \in Ids, TemplateDies(i) \/ WriterExitsLate(i) PROVE TemplateInv'
    BY Zenon, <1>8, <1>t, <1>u, TemplateQuiet DEF TemplateDies, WriterExitsLate, regVars, callVars
  <1>9. CASE (\E i \in Ids : Admit(i)) \/ ForkDump \/ Join \/ DrainPasses \/ DrainRefuses
    BY Zenon, <1>9, <1>u, TemplateQuiet DEF Admit, ForkDump, Join, DrainPasses, DrainRefuses, Goto,
       Return, regVars, procVars
  <1>10. CASE WarmForkReplies \/ WarmForkFails \/ CriuRestores \/ CriuFails \/ Timeouts
    BY Zenon, <1>10, <1>u, TemplateQuiet DEF WarmForkReplies, WarmForkFails, CriuRestores, CriuFails,
       Timeouts, AdmitTimeout, JoinTimeout, DrainTimeout, Goto, Return, regVars, procVars
  <1>11. CASE Work \/ (\E parent \in Ids \cup {NoId} : CheckpointCall(parent))
    BY Zenon, <1>11, <1>u, TemplateQuiet DEF Work, CheckpointCall, regVars, procVars, callVars
  <1>12. ASSUME NEW target \in Ids, NEW cold \in BOOLEAN, RestoreCall(target, cold)
         PROVE  TemplateInv'
    <2>1. pc' \in {"warm_kill", "join", "idle"} BY Zenon, <1>12 DEF RestoreCall, Return
    <2> QED BY Zenon, <1>12, <1>u, <2>1, TemplateQuiet DEF RestoreCall, regVars
  <1>13. CASE Worker
    BY Zenon, <1>13, <1>u, TemplateQuiet DEF Worker, Take, AwaitParent, DumpCommits, DumpFails,
       Dispose, Release, Complete, regVars, procVars, callVars
  <1>14. CASE UNCHANGED vars
    BY Zenon, <1>14, <1>u, TemplateQuiet DEF vars, regVars, procVars, callVars
  <1> QED
    BY SMTT(30), <1>1, <1>2, <1>3, <1>4, <1>5, <1>6, <1>7, <1>8, <1>9, <1>10, <1>11, <1>12, <1>13, <1>14
       DEF Next, Calls, Continue, Environment

LEMMA TargetNext == IInv /\ TargetInv /\ [Next]_vars => TargetInv'
  <1> SUFFICES ASSUME IInv, TargetInv, [Next]_vars PROVE TargetInv' OBVIOUS
  <1>d. ASSUME pc' \notin {"drain", "cold_kill", "teardown", "criu", "warm_kill"}
        PROVE  TargetInv'
    BY Zenon, <1>d DEF TargetInv
  <1>1. CASE Join
    BY Zenon, <1>1, <1>d DEF Join, Goto, Return, TargetInv, dumpVars
  <1>2. CASE DrainPasses
    BY Zenon, <1>2 DEF DrainPasses, Goto, TargetInv, dumpVars
  <1>3. ASSUME NEW victims \in SUBSET Ids, KillActive(victims) PROVE TargetInv'
    BY Zenon, <1>3 DEF KillActive, Goto, TargetInv, dumpVars
  <1>4. CASE Teardown BY Zenon, <1>4 DEF Teardown, Goto, TargetInv, dumpVars
  <1>5. ASSUME NEW target \in Ids, NEW cold \in BOOLEAN, RestoreCall(target, cold)
        PROVE  TargetInv'
    <2>1. /\ pc' \in {"warm_kill", "join", "idle"}
          /\ pc' = "warm_kill" => cid' \in templates'
      BY Zenon, <1>5 DEF RestoreCall, Return
    <2> QED BY Zenon, <2>1 DEF TargetInv
  <1>6. CASE Worker
    <2>1. CASE wpc = "idle"
      BY Zenon, <1>6, <2>1, IdleTake DEF Take, TargetInv, dumpVars, procVars, callVars
    <2>2. CASE wpc # "idle"
      <3>1. /\ wid \in Ids /\ future[wid] = "pending"
            /\ future' = [future EXCEPT ![wid] = future'[wid]] /\ UNCHANGED <<pc, cid>>
        BY Zenon, <1>6, <2>2, WorkerKeeps DEF Pending
      <3>2. templates' = templates
        BY Zenon, <1>6 DEF Worker, Take, AwaitParent, DumpCommits, DumpFails, Dispose, Release,
           Complete, procVars
      <3>3. pc \in Restoring => cid \in Ids BY Zenon DEF IInv, CallInv, TypeOK, RegType
      <3>4. pc \in Restoring /\ future[cid] = "result" => future'[cid] = "result"
        BY Zenon, <3>1, <3>3 DEF IInv, TypeOK, DumpType
      <3> QED BY Zenon, <3>1, <3>2, <3>4 DEF TargetInv, Restoring
    <2> QED BY Zenon, <2>1, <2>2
  <1>7. CASE Work \/ (\E parent \in Ids \cup {NoId} : CheckpointCall(parent))
    BY Zenon, <1>7, <1>d DEF Work, CheckpointCall, callVars
  <1>8. CASE (\E parent \in Ids, i \in Ids : Lightweight(parent, i))
             \/ (\E keep \in SUBSET Ids : GC(keep))
    BY Zenon, <1>8, <1>d DEF Lightweight, GC, callVars
  <1>9. CASE (\E i \in Ids : Admit(i)) \/ Prepare \/ ForkDump \/ Publish
             \/ (\E disposed \in BOOLEAN : Abort(disposed)) \/ DrainRefuses
    BY Zenon, <1>9, <1>d DEF Admit, Prepare, ForkDump, Publish, Abort, DrainRefuses, Goto, Return
  <1>10. CASE WarmForkReplies \/ WarmForkFails \/ CriuRestores \/ CriuFails \/ Timeouts
    BY Zenon, <1>10, <1>d DEF WarmForkReplies, WarmForkFails, CriuRestores, CriuFails,
       Timeouts, AdmitTimeout, JoinTimeout, DrainTimeout, Goto, Return
  <1>11. CASE Environment \/ UNCHANGED vars
    BY Zenon, <1>11 DEF Environment, TemplateDies, WriterExitsLate, vars, dumpVars, procVars,
       callVars, TargetInv
  <1> QED
    BY Zenon, <1>1, <1>2, <1>3, <1>4, <1>5, <1>6, <1>7, <1>8, <1>9, <1>10, <1>11
       DEF Next, Calls, Continue

\* Whatever a restore finds is of its target: the template it forks from holds
\* that checkpoint's memory, and a cold one has joined a committed dump.
THEOREM RestoresPrepared == Spec => []RestoreInv
  <1>1. Init => RestoreInv BY Zenon DEF Init, RestoreInv, TemplateInv, TargetInv
  <1>2. IInv /\ RestoreInv /\ [Next]_vars => RestoreInv'
    BY Zenon, TemplateNext, TargetNext DEF RestoreInv
  <1> QED BY <1>1, <1>2, Invariance, PTL DEF Spec

\* Only the kill and the teardown of a restore cost the running agent.
LEMMA DeadlySteps ==
  ASSUME IInv, [Next]_vars, agent # "dead", agent' = "dead"
  PROVE  (\E victims \in SUBSET Ids : KillActive(victims)) \/ Teardown
  <1>1. ASSUME NEW keep \in SUBSET Ids, GC(keep) PROVE agent' = agent
    <2> DEFINE pruned == registry \ retained_ids(keep \cup (registry \cap {init_tmpl}))
    <2>1. registry' = registry \ pruned BY Zenon, <1>1, GCKeeps DEF GC
    <2>2. init_tmpl \notin pruned BY Zenon, <1>1, <2>1, GCKeeps
    <2> QED BY Zenon, <1>1, <2>2 DEF GC
  <1>2. CASE UNCHANGED procVars BY Zenon, <1>2 DEF procVars
  <1>3. CASE Work \/ Prepare \/ ForkDump \/ WarmForkReplies \/ CriuRestores
    BY Zenon, <1>3 DEF Work, Prepare, ForkDump, WarmForkReplies, CriuRestores
  <1>4. CASE (\E disposed \in BOOLEAN : Abort(disposed))
             \/ (\E exited \in BOOLEAN : Dispose(exited))
             \/ (\E i \in Ids : TemplateDies(i) \/ WriterExitsLate(i))
    BY Zenon, <1>4 DEF Abort, Dispose, TemplateDies, WriterExitsLate
  <1>5. CASE \E target \in Ids, cold \in BOOLEAN : RestoreCall(target, cold)
    BY Zenon, <1>5 DEF RestoreCall
  <1> QED BY Zenon, <1>1, <1>2, <1>3, <1>4, <1>5, ProcessSteps DEF ProcessStep

\* No restore gives anything up before it has something to put in its place.
THEOREM RestoresDestroySafely == Spec => RestoreDestroysSafely
  <1> DEFINE Safely ==
        /\ Teardown => \A i \in registry : writer[i] = Gone
        /\ agent # "dead" /\ agent' = "dead" =>
             cid \in templates \/ (future[cid] = "result" /\ ChainPresent(cid))
  <1>1. IInv /\ RestoreInv /\ [Next]_vars => [Safely]_vars
    <2> SUFFICES ASSUME IInv, RestoreInv, Next PROVE Safely OBVIOUS
    <2>1. Teardown => \A i \in registry : writer[i] = Gone BY Zenon, TeardownDrained
    <2>2. ASSUME pc \in {"cold_kill", "teardown"}
          PROVE  future[cid] = "result" /\ ChainPresent(cid)
      <3>1. cid \in registry /\ future[cid] = "result"
        BY Zenon, <2>2 DEF IInv, CallInv, Restoring, RestoreInv, TargetInv
      <3>2. state[cid] = "DURABLE_READY" BY Zenon, <3>1 DEF IInv, WorkerInv, Done
      <3> QED BY Zenon, <3>1, <3>2, DurableChain DEF ChainIntact
    <2>3. ASSUME agent # "dead", agent' = "dead"
          PROVE  pc \in {"warm_kill", "cold_kill", "teardown"}
      BY Zenon, <2>3, DeadlySteps DEF KillActive, Teardown
    <2>4. pc = "warm_kill" => cid \in templates BY Zenon DEF RestoreInv, TargetInv
    <2> QED BY Zenon, <2>1, <2>2, <2>3, <2>4
  <1> QED BY <1>1, Invariance, RestoresPrepared, PTL DEF Spec, RestoreDestroysSafely

-----------------------------------------------------------------------------
(* The store of whole sandbox states                                       *)

Saved == [i \in Ids |-> IF i \in registry THEN taken[Effective(i)] ELSE Gone]
Wanted == IF pc \in Restoring THEN taken[cid] ELSE NoId

\* A registered checkpoint stands for a memory; so does a restore's target.
LEMMA StoredMemory ==
  ASSUME IInv
  PROVE  /\ \A i \in registry : /\ i \in Ids /\ Effective(i) \in registry
                                /\ Effective(Effective(i)) = Effective(i)
                                /\ Saved[i] = taken[Effective(i)] /\ Saved[i] # Gone
         /\ \A i \in Ids \ registry : Saved[i] = Gone
         /\ pc \in Restoring => /\ cid \in registry /\ Wanted = taken[cid]
                                /\ Wanted # NoId /\ Wanted # Gone
         /\ pc \notin Restoring => Wanted = NoId
  <1>1. registry \subseteq Ids BY Zenon DEF IInv, TypeOK, RegType
  <1>2. \A i \in registry : /\ Effective(i) \in registry
                            /\ Effective(Effective(i)) = Effective(i)
    BY Zenon DEF IInv, RegistryInv
  <1>3. \A i \in registry : Effective(i) = i => taken[i] # Gone
    BY Zenon DEF IInv, RegistryInv, WriterInv
  <1>4. \A i \in registry : Saved[i] = taken[Effective(i)] BY Zenon, <1>1 DEF Saved
  <1>5. \A i \in Ids \ registry : Saved[i] = Gone BY Zenon DEF Saved
  <1>6. pc \in Restoring => cid \in registry /\ taken[cid] # Gone
    BY Zenon, <1>3 DEF IInv, CallInv
  <1>7. taken \in [Ids -> Contents \cup {Gone}] BY Zenon DEF IInv, TypeOK, RegType
  <1>8. pc \in Restoring => taken[cid] # NoId BY Zenon, <1>1, <1>6, <1>7, NoIdAssumption
  <1> QED BY Zenon, <1>1, <1>2, <1>3, <1>4, <1>5, <1>6, <1>8 DEF Wanted

\* The steps of the store, in terms of what the mapping makes of the protocol.
LEMMA StoreSteps ==
  /\ mem' = mem /\ Saved' = Saved /\ Wanted' = Wanted => UNCHANGED Store!storeVars
  /\ mem # Gone /\ Wanted = NoId /\ mem' \in Contents /\ Saved' = Saved /\ Wanted' = Wanted
       => Store!Act
  /\ \A i \in Ids :
       /\ mem # Gone /\ Wanted = NoId /\ Saved[i] = Gone
       /\ Saved' = [Saved EXCEPT ![i] = mem] /\ mem' = mem /\ Wanted' = Wanted
       => Store!Checkpoint(i)
  /\ \A parent \in Ids, i \in Ids :
       /\ Wanted = NoId /\ Saved[parent] # Gone /\ Saved[i] = Gone
       /\ Saved' = [Saved EXCEPT ![i] = Saved[parent]] /\ mem' = mem /\ Wanted' = Wanted
       => Store!CheckpointLight(parent, i)
  /\ \A i \in Ids :
       /\ Wanted = NoId /\ Saved[i] # Gone
       /\ Wanted' = Saved[i] /\ mem' = mem /\ Saved' = Saved
       => Store!Begin(i)
  /\ Wanted # NoId /\ mem' = Gone /\ Saved' = Saved /\ Wanted' = Wanted => Store!Lose
  /\ Wanted # NoId /\ mem' = Wanted /\ Wanted' = NoId /\ Saved' = Saved => Store!Restore
  /\ Wanted # NoId /\ Wanted' = NoId /\ mem' = mem /\ Saved' = Saved => Store!GiveUp
  /\ \A S \in SUBSET Ids :
       /\ Wanted = NoId /\ mem' = mem /\ Wanted' = Wanted
       /\ Saved' = [i \in Ids |-> IF i \in S THEN Gone ELSE Saved[i]]
       => Store!Forget(S)
  <1> USE DEF Saved, Wanted
  <1>1. mem' = mem /\ Saved' = Saved /\ Wanted' = Wanted => UNCHANGED Store!storeVars
    BY Zenon DEF Store!storeVars
  <1>2. mem # Gone /\ Wanted = NoId /\ mem' \in Contents /\ Saved' = Saved /\ Wanted' = Wanted
          => Store!Act
    BY Zenon DEF Store!Act
  <1>3. ASSUME NEW i \in Ids, mem # Gone, Wanted = NoId, Saved[i] = Gone,
               Saved' = [Saved EXCEPT ![i] = mem], mem' = mem, Wanted' = Wanted
        PROVE  Store!Checkpoint(i)
    BY Zenon, <1>3 DEF Store!Checkpoint
  <1>4. ASSUME NEW parent \in Ids, NEW i \in Ids,
               Wanted = NoId, Saved[parent] # Gone, Saved[i] = Gone,
               Saved' = [Saved EXCEPT ![i] = Saved[parent]], mem' = mem, Wanted' = Wanted
        PROVE  Store!CheckpointLight(parent, i)
    BY Zenon, <1>4 DEF Store!CheckpointLight
  <1>5. ASSUME NEW i \in Ids, Wanted = NoId, Saved[i] # Gone,
               Wanted' = Saved[i], mem' = mem, Saved' = Saved
        PROVE  Store!Begin(i)
    BY Zenon, <1>5 DEF Store!Begin
  <1>6. Wanted # NoId /\ mem' = Gone /\ Saved' = Saved /\ Wanted' = Wanted => Store!Lose
    BY Zenon DEF Store!Lose
  <1>7. Wanted # NoId /\ mem' = Wanted /\ Wanted' = NoId /\ Saved' = Saved => Store!Restore
    BY Zenon DEF Store!Restore
  <1>8. Wanted # NoId /\ Wanted' = NoId /\ mem' = mem /\ Saved' = Saved => Store!GiveUp
    BY Zenon DEF Store!GiveUp
  <1>9. ASSUME NEW S \in SUBSET Ids, Wanted = NoId, mem' = mem, Wanted' = Wanted,
               Saved' = [i \in Ids |-> IF i \in S THEN Gone ELSE Saved[i]]
        PROVE  Store!Forget(S)
    BY Zenon, <1>9 DEF Store!Forget
  <1> QED BY Zenon, <1>1, <1>2, <1>3, <1>4, <1>5, <1>6, <1>7, <1>8, <1>9

\* What leaves the registry alone leaves the store alone; what is said of the
\* restore in progress depends on its label and its target only.
LEMMA StoreKept ==
  /\ UNCHANGED <<registry, node, taken>> => Saved' = Saved
  /\ UNCHANGED <<taken, pc, cid>> => Wanted' = Wanted
  /\ pc \notin Restoring => Wanted = NoId
  /\ pc' \notin Restoring => Wanted' = NoId
  /\ pc \in Restoring /\ pc' \in Restoring /\ UNCHANGED <<taken, cid>> => Wanted' = Wanted
  BY Zenon DEF Saved, Wanted, Effective

\* A new entry is a checkpoint of the store.
LEMMA PublishStores == IInv /\ Publish => \E i \in Ids : Store!Checkpoint(i)
  <1> SUFFICES ASSUME IInv, Publish PROVE \E i \in Ids : Store!Checkpoint(i) OBVIOUS
  <1>1. pc = "publish" /\ pc' = "idle" /\ mem' = mem BY Zenon DEF Publish, Return, procVars
  <1>2. cid \in Ids /\ cid \notin registry /\ registry \subseteq Ids
    BY Zenon, <1>1 DEF IInv, CallInv, Building, TypeOK, RegType
  <1>3. mem # Gone BY Zenon, <1>1 DEF IInv, AgentInv
  <1>4. Wanted = NoId /\ Wanted' = NoId BY Zenon, <1>1, StoreKept DEF Restoring
  <1>5. Saved[cid] = Gone BY Zenon, <1>2, StoredMemory
  <1>6. /\ registry' = registry \cup {cid}
        /\ node'[cid].effective_restore_id = cid /\ taken'[cid] = mem
        /\ \A i \in registry : node'[i] = node[i] /\ taken'[i] = taken[i]
    BY Zenon, <1>2 DEF Publish, IInv, TypeOK, RegType
  <1>7. \A i \in registry : Effective(i) \in registry BY Zenon, StoredMemory
  <1>8. Saved'[cid] = mem BY Zenon, <1>2, <1>6 DEF Saved, Effective
  <1>9. \A i \in Ids \ {cid} : Saved'[i] = Saved[i]
    <2> SUFFICES ASSUME NEW i \in Ids \ {cid} PROVE Saved'[i] = Saved[i] OBVIOUS
    <2>1. CASE i \in registry
      <3>1. node'[i].effective_restore_id = Effective(i) /\ Effective(i) \in registry
        BY Zenon, <1>6, <1>7, <2>1 DEF Effective
      <3>2. taken'[Effective(i)] = taken[Effective(i)] BY Zenon, <1>6, <3>1
      <3>3. Saved'[i] = taken'[node'[i].effective_restore_id]
        BY Zenon, <1>6, <2>1 DEF Saved, Effective
      <3>4. Saved[i] = taken[Effective(i)] BY Zenon, <2>1, StoredMemory
      <3> QED BY Zenon, <3>1, <3>2, <3>3, <3>4
    <2>2. CASE i \notin registry BY Zenon, <1>6, <2>2 DEF Saved
    <2> QED BY Zenon, <2>1, <2>2
  <1>10. Saved' = [Saved EXCEPT ![cid] = mem] BY Zenon, <1>2, <1>8, <1>9 DEF Saved
  <1>11. PICK i \in Ids : i = cid BY Zenon, <1>2
  <1>12. Saved[i] = Gone /\ Saved' = [Saved EXCEPT ![i] = mem] /\ Wanted' = Wanted
    BY Zenon, <1>4, <1>5, <1>10, <1>11
  <1> QED BY Zenon, <1>1, <1>3, <1>4, <1>12, StoreSteps

LEMMA LightweightStores ==
  ASSUME IInv, NEW parent \in Ids, NEW i \in Ids, Lightweight(parent, i)
  PROVE  Store!CheckpointLight(parent, i)
  <1>1. /\ pc = "idle" /\ pc' = "idle" /\ mem' = mem /\ parent \in registry /\ i \notin registry
        /\ registry' = registry \cup {i} /\ taken' = taken
    BY Zenon DEF Lightweight, procVars, callVars, IInv, TypeOK, RegType
  <1>2. Wanted = NoId /\ Wanted' = NoId BY Zenon, <1>1, StoreKept DEF Restoring
  <1>3. Saved[i] = Gone /\ Saved[parent] # Gone /\ Saved[parent] = taken[Effective(parent)]
    BY Zenon, <1>1, StoredMemory
  <1>4. /\ node'[i].effective_restore_id = Effective(parent)
        /\ \A j \in Ids \ {i} : node'[j] = node[j]
    BY Zenon DEF Lightweight, IInv, TypeOK, RegType
  <1>5. Saved'[i] = Saved[parent] BY Zenon, <1>1, <1>3, <1>4 DEF Saved, Effective
  <1>6. \A j \in Ids \ {i} : Saved'[j] = Saved[j] BY Zenon, <1>1, <1>4 DEF Saved, Effective
  <1>7. Saved' = [Saved EXCEPT ![i] = Saved[parent]] BY Zenon, <1>5, <1>6 DEF Saved
  <1> QED BY Zenon, <1>1, <1>2, <1>3, <1>7, StoreSteps

\* The collector forgets exactly the entries it prunes.
LEMMA GCForgets ==
  ASSUME IInv, NEW keep \in SUBSET Ids, GC(keep)
  PROVE  \E S \in SUBSET Ids : Store!Forget(S)
  <1>1. /\ registry' \subseteq registry /\ pc = "idle" /\ pc' = "idle"
        /\ \A j \in registry' : Links(j) \subseteq registry' \cup {NoId}
        /\ \A i \in Ids \ (registry \ registry') : node'[i] = node[i] /\ taken'[i] = taken[i]
        /\ init_tmpl \in registry => init_tmpl \in registry'
    BY Zenon, GCKeeps
  <1>2. registry \subseteq Ids /\ NoId \notin Ids BY Zenon, NoIdAssumption DEF IInv, TypeOK, RegType
  <1>3. Wanted = NoId /\ Wanted' = NoId BY Zenon, <1>1, StoreKept DEF Restoring
  <1>4. mem' = mem
    <2> DEFINE pruned == registry \ retained_ids(keep \cup (registry \cap {init_tmpl}))
    <2>1. registry' = registry \ pruned BY Zenon, GCKeeps DEF GC
    <2>2. init_tmpl \notin pruned BY Zenon, <1>1, <2>1
    <2> QED BY Zenon, <2>2 DEF GC
  <1>5. \A i \in registry' : Effective(i) \in registry'
    <2> SUFFICES ASSUME NEW i \in registry' PROVE Effective(i) \in registry' OBVIOUS
    <2>1. Effective(i) \in Links(i) BY Zenon DEF Links, Effective
    <2>2. Effective(i) \in registry BY Zenon, <1>1, StoredMemory
    <2> QED BY Zenon, <1>1, <1>2, <2>1, <2>2
  <1>6. ASSUME NEW i \in Ids
        PROVE  Saved'[i] = IF i \in registry \ registry' THEN Gone ELSE Saved[i]
    <2>1. CASE i \in registry'
      <3>1. node'[i] = node[i] /\ taken'[Effective(i)] = taken[Effective(i)]
        BY Zenon, <1>1, <1>2, <1>5, <2>1
      <3>2. Saved'[i] = taken'[node'[i].effective_restore_id]
        BY Zenon, <2>1 DEF Saved, Effective
      <3>3. Saved[i] = taken[Effective(i)] BY Zenon, <1>1, <2>1, StoredMemory
      <3> QED BY Zenon, <2>1, <3>1, <3>2, <3>3 DEF Effective
    <2>2. CASE i \notin registry' BY Zenon, <1>1, <2>2 DEF Saved
    <2> QED BY Zenon, <2>1, <2>2
  <1>7. Saved' = [i \in Ids |-> IF i \in registry \ registry' THEN Gone ELSE Saved[i]]
    BY Zenon, <1>6 DEF Saved
  <1>8. PICK S \in SUBSET Ids : S = registry \ registry' BY Zenon, <1>2
  <1>9. Saved' = [i \in Ids |-> IF i \in S THEN Gone ELSE Saved[i]] /\ Wanted' = Wanted
    BY Zenon, <1>3, <1>7, <1>8
  <1> QED BY Zenon, <1>3, <1>4, <1>9, StoreSteps

LEMMA RestoreCallBegins ==
  ASSUME IInv, NEW target \in Ids, NEW cold \in BOOLEAN, RestoreCall(target, cold)
  PROVE  Store!Begin(target) \/ UNCHANGED Store!storeVars
  <1>1. /\ pc = "idle" /\ target \in registry /\ mem' = mem
        /\ UNCHANGED <<registry, node, taken>>
        /\ (pc' \in {"warm_kill", "join"} /\ cid' = Effective(target)) \/ pc' = "idle"
    BY Zenon DEF RestoreCall, Return, regVars
  <1>2. Saved' = Saved /\ Wanted = NoId BY Zenon, <1>1, StoreKept DEF Restoring
  <1>3. Saved[target] = taken[Effective(target)] /\ Saved[target] # Gone
    BY Zenon, <1>1, StoredMemory
  <1>4. CASE pc' = "idle"
    <2>1. Wanted' = NoId BY Zenon, <1>4, StoreKept DEF Restoring
    <2> QED BY Zenon, <1>1, <1>2, <2>1, StoreSteps
  <1>5. CASE pc' \in {"warm_kill", "join"} /\ cid' = Effective(target)
    <2>1. Wanted' = Saved[target] BY Zenon, <1>1, <1>3, <1>5 DEF Wanted, Restoring
    <2> QED BY Zenon, <1>1, <1>2, <1>3, <2>1, StoreSteps
  <1> QED BY Zenon, <1>1, <1>4, <1>5

\* Each step of the protocol is a step of the store, or none.
LEMMA StoreNextStep ==
  IInv /\ RestoreInv /\ [Next]_vars => Store!StoreNext \/ UNCHANGED Store!storeVars
  <1> SUFFICES ASSUME IInv, RestoreInv, [Next]_vars
               PROVE  Store!StoreNext \/ UNCHANGED Store!storeVars
    BY Zenon
  <1>n. ASSUME \/ Store!Act \/ Store!Lose \/ Store!Restore \/ Store!GiveUp
               \/ \E i \in Ids : Store!Checkpoint(i) \/ Store!Begin(i)
               \/ \E parent \in Ids, i \in Ids : Store!CheckpointLight(parent, i)
               \/ \E S \in SUBSET Ids : Store!Forget(S)
        PROVE  Store!StoreNext
    BY Zenon, <1>n DEF Store!StoreNext
  <1>t. /\ registry \subseteq Ids
        /\ pc \in Restoring => cid \in Ids /\ Wanted = taken[cid]
        /\ pc \in Restoring => Wanted # NoId
    BY Zenon, StoredMemory DEF IInv, TypeOK, RegType
  \* A step outside the registry that keeps the memory and ends no restore.
  <1>q. ASSUME UNCHANGED <<registry, node, taken, mem>>,
               \/ UNCHANGED <<pc, cid>>
               \/ pc \notin Restoring /\ pc' \notin Restoring
               \/ pc \in Restoring /\ pc' \in Restoring /\ cid' = cid
        PROVE  UNCHANGED Store!storeVars
    BY Zenon, <1>q, StoreKept, StoreSteps
  \* A restore that raises, or finds no image to restore from.
  <1>g. ASSUME UNCHANGED <<registry, node, taken, mem>>, pc \in Restoring, pc' = "idle"
        PROVE  Store!StoreNext
    <2>1. Saved' = Saved /\ Wanted' = NoId BY Zenon, <1>g, StoreKept DEF Restoring
    <2> QED BY Zenon, <1>g, <1>n, <1>t, <2>1, StoreSteps
  <1>1. CASE Work
    <2>1. /\ pc = "idle" /\ agent # "dead" /\ mem' \in Contents
          /\ UNCHANGED <<registry, node, taken, pc, cid>>
      BY Zenon, <1>1 DEF Work, regVars, callVars
    <2>2. mem # Gone BY Zenon, <2>1 DEF IInv, AgentInv
    <2>3. Saved' = Saved /\ Wanted' = Wanted /\ Wanted = NoId
      BY Zenon, <2>1, StoreKept DEF Restoring
    <2> QED BY Zenon, <1>n, <2>1, <2>2, <2>3, StoreSteps
  <1>2. CASE \E parent \in Ids \cup {NoId} : CheckpointCall(parent)
    BY Zenon, <1>2, <1>q DEF CheckpointCall, regVars, procVars, Restoring
  <1>3. CASE \E parent \in Ids, i \in Ids : Lightweight(parent, i)
    BY Zenon, <1>3, <1>n, LightweightStores
  <1>4. CASE \E target \in Ids, cold \in BOOLEAN : RestoreCall(target, cold)
    BY Zenon, <1>4, <1>n, RestoreCallBegins
  <1>5. ASSUME NEW keep \in SUBSET Ids, GC(keep) PROVE Store!StoreNext
    BY Zenon, <1>5, <1>n, GCForgets
  <1>6. CASE (\E i \in Ids : Admit(i)) \/ Prepare \/ ForkDump
             \/ (\E disposed \in BOOLEAN : Abort(disposed))
    BY Zenon, <1>6, <1>q DEF Admit, Prepare, ForkDump, Abort, Goto, Return, regVars, procVars, Restoring
  <1>7. CASE Publish BY Zenon, <1>7, <1>n, PublishStores
  <1>8. CASE Join \/ DrainPasses \/ DrainRefuses
    BY Zenon, <1>8, <1>q, <1>g DEF Join, DrainPasses, DrainRefuses, Goto, Return, regVars, procVars,
       Restoring
  <1>l. ASSUME pc \in Restoring, pc' \in Restoring, mem' = Gone,
               UNCHANGED <<registry, node, taken, cid>>
        PROVE  Store!StoreNext
    <2>1. Saved' = Saved /\ Wanted' = Wanted BY Zenon, <1>l, StoreKept
    <2> QED BY Zenon, <1>l, <1>n, <1>t, <2>1, StoreSteps
  <1>9. CASE (\E victims \in SUBSET Ids : KillActive(victims)) \/ Teardown
    BY Zenon, <1>9, <1>l DEF KillActive, Teardown, NamespaceDies, Goto, regVars, Restoring
  <1>r. ASSUME pc \in Restoring, pc' = "idle", mem' = taken[cid],
               UNCHANGED <<registry, node, taken>>
        PROVE  Store!StoreNext
    <2>1. Saved' = Saved /\ Wanted' = NoId BY Zenon, <1>r, StoreKept DEF Restoring
    <2> QED BY Zenon, <1>r, <1>n, <1>t, <2>1, StoreSteps
  <1>10. CASE WarmForkReplies
    <2>1. /\ pc = "warm_fork" /\ pc' = "idle" /\ mem' = tmpl[cid] /\ tmpl[cid] # Gone
          /\ UNCHANGED <<registry, node, taken>>
      BY Zenon, <1>10 DEF WarmForkReplies, Return, regVars
    <2>2. cid \in registry BY Zenon, <2>1 DEF IInv, CallInv, Restoring
    <2>3. tmpl[cid] = taken[cid] BY Zenon, <2>1, <2>2 DEF RestoreInv, TemplateInv
    <2> QED BY Zenon, <1>r, <2>1, <2>3 DEF Restoring
  <1>11. CASE CriuRestores
    <2>1. /\ pc = "criu" /\ pc' = "idle" /\ mem' = image[cid]
          /\ UNCHANGED <<registry, node, taken>>
      BY Zenon, <1>11 DEF CriuRestores, Return, regVars
    <2>2. cid \in registry /\ future[cid] = "result"
      BY Zenon, <2>1 DEF IInv, CallInv, Restoring, RestoreInv, TargetInv
    <2>3. state[cid] = "DURABLE_READY" BY Zenon, <2>2 DEF IInv, WorkerInv, Done
    <2>4. image[cid] = taken[cid] BY Zenon, <2>2, <2>3 DEF IInv, ImageInv
    <2> QED BY Zenon, <1>r, <2>1, <2>4 DEF Restoring
  <1>12. CASE WarmForkFails \/ CriuFails
    BY Zenon, <1>12, <1>q, <1>g DEF WarmForkFails, CriuFails, Goto, Return, regVars, procVars, Restoring
  <1>13. CASE Timeouts
    BY Zenon, <1>13, <1>q, <1>g DEF Timeouts, AdmitTimeout, JoinTimeout, DrainTimeout, Return, regVars,
       procVars, Restoring
  <1>14. CASE Worker
    BY Zenon, <1>14, <1>q DEF Worker, Take, AwaitParent, DumpCommits, DumpFails, Dispose, Release,
       Complete, regVars, procVars, callVars
  <1>15. CASE Environment \/ UNCHANGED vars
    BY Zenon, <1>15, <1>q DEF Environment, TemplateDies, WriterExitsLate, vars, regVars, procVars,
       callVars
  <1> QED
    BY SMTT(30), <1>1, <1>2, <1>3, <1>4, <1>5, <1>6, <1>7, <1>8, <1>9, <1>10, <1>11, <1>12, <1>13, <1>14,
       <1>15 DEF Next, Calls, Continue

\* The two threads together keep the promise of the checkpoint store: over
\* every interleaving of checkpoints, dumps, failures, restores and
\* collections, a restore brings back exactly the memory of its target.
THEOREM ProtocolImplementsStore == Spec => ImplementsStore
  <1>1. Init => Store!StoreInit
    BY Zenon, NoIdAssumption DEF Init, Store!StoreInit, Restoring
  <1>2. IInv /\ RestoreInv /\ [Next]_vars => [Store!StoreNext]_(Store!storeVars)
    BY Zenon, StoreNextStep
  <1> QED
    BY <1>1, <1>2, Invariance, RestoresPrepared, PTL DEF Spec, ImplementsStore, Store!StoreSpec
=============================================================================
