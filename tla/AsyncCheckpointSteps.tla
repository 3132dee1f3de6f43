------------------------ MODULE AsyncCheckpointSteps ------------------------
(***************************************************************************)
(* First part of the proof that IInv is inductive: which steps change which *)
(* variables, the types, the call in progress, the registry and its        *)
(* collector, the queue of the dump worker, and the images.                *)
(***************************************************************************)
EXTENDS AsyncCheckpointInv, TLAPS

LEMMA AppendFacts ==
  ASSUME NEW S, NEW q \in Seq(S), NEW x \in S
  PROVE  /\ Append(q, x) \in Seq(S)
         /\ Len(Append(q, x)) = Len(q) + 1
         /\ \A k \in 1..Len(q) : Append(q, x)[k] = q[k]
         /\ Append(q, x)[Len(q) + 1] = x
  OBVIOUS

LEMMA TailFacts ==
  ASSUME NEW S, NEW q \in Seq(S), q # << >>
  PROVE  /\ Len(q) \in Nat /\ Len(q) >= 1
         /\ Head(q) = q[1] /\ Head(q) \in S
         /\ Tail(q) \in Seq(S) /\ Len(Tail(q)) = Len(q) - 1
         /\ \A k \in 1..(Len(q) - 1) : Tail(q)[k] = q[k + 1]
  OBVIOUS

LEMMA SeqWiden ==
  ASSUME NEW S, NEW T, S \subseteq T, NEW q \in Seq(S)
  PROVE  q \in Seq(T)
  OBVIOUS

-----------------------------------------------------------------------------
(* Which steps change what                                                 *)

RegistryStep ==
    \/ \E parent \in Ids, i \in Ids : Lightweight(parent, i)
    \/ Publish
    \/ \E keep \in SUBSET Ids : GC(keep)

LEMMA QuietSteps ==
  ASSUME [Next]_vars
  PROVE  \/ RegistryStep \/ Worker
         \/ UNCHANGED <<registry, node, taken, dumpVars, workVars>>
  <1> USE DEF regVars, dumpVars, workVars
  <1>1. CASE Calls
    BY Zenon, <1>1 DEF Calls, Work, CheckpointCall, RestoreCall, RegistryStep
  <1>2. CASE Continue
    BY Zenon, <1>2 DEF Continue, Admit, Prepare, ForkDump, RegistryStep, Abort, Join,
       DrainPasses, DrainRefuses, KillActive, WarmForkReplies, WarmForkFails,
       Teardown, CriuRestores, CriuFails
  <1>3. CASE Timeouts
    BY Zenon, <1>3 DEF Timeouts, AdmitTimeout, JoinTimeout, DrainTimeout
  <1>4. CASE Environment
    BY Zenon, <1>4 DEF Environment, TemplateDies, WriterExitsLate
  <1>5. CASE UNCHANGED vars BY Zenon, <1>5 DEF vars
  <1> QED BY Zenon, <1>1, <1>2, <1>3, <1>4, <1>5 DEF Next

LEMMA UsedSteps ==
  ASSUME [Next]_vars
  PROVE  used' = used \/ (\E i \in Ids : Admit(i))
           \/ \E parent \in Ids, i \in Ids : Lightweight(parent, i)
  <1> USE DEF regVars
  <1>1. CASE Calls
    BY Zenon, <1>1 DEF Calls, Work, CheckpointCall, RestoreCall, GC
  <1>2. CASE Continue
    BY Zenon, <1>2 DEF Continue, Prepare, ForkDump, Publish, Abort, Join,
       DrainPasses, DrainRefuses, KillActive, WarmForkReplies, WarmForkFails,
       Teardown, CriuRestores, CriuFails
  <1>3. CASE Timeouts
    BY Zenon, <1>3 DEF Timeouts, AdmitTimeout, JoinTimeout, DrainTimeout
  <1>4. CASE Environment
    BY Zenon, <1>4 DEF Environment, TemplateDies, WriterExitsLate
  <1>6. CASE Worker
    BY Zenon, <1>6 DEF Worker, Take, AwaitParent, DumpCommits, DumpFails, Dispose, Release, Complete
  <1>5. CASE UNCHANGED vars BY Zenon, <1>5 DEF vars
  <1> QED BY Zenon, <1>1, <1>2, <1>3, <1>4, <1>5, <1>6 DEF Next

-----------------------------------------------------------------------------
(* Types                                                                   *)

LEMMA InitType == Init => TypeOK
  <1> SUFFICES ASSUME Init PROVE TypeOK OBVIOUS
  <1> USE NoIdAssumption, MaxPendingAssumption DEF Init, NoNode
  <1>1. RegType BY Zenon DEF RegType, Node
  <1>2. DumpType BY Zenon DEF DumpType
  <1>3. ProcType BY Zenon DEF ProcType
  <1>4. CallType BY Zenon DEF CallType
  <1>5. WorkType BY DEF WorkType
  <1> QED BY Zenon, <1>1, <1>2, <1>3, <1>4, <1>5 DEF TypeOK

LEMMA RegTypeNext == IInv /\ [Next]_vars => RegType'
  <1> SUFFICES ASSUME IInv, [Next]_vars PROVE RegType' OBVIOUS
  <1> USE DEF IInv, TypeOK, RegType
  <1>1. ASSUME NEW parent \in Ids, NEW i \in Ids, Lightweight(parent, i) PROVE RegType'
    BY Zenon, <1>1 DEF Lightweight, Node, Effective
  <1>2. CASE Publish
    BY Zenon, <1>2, NoIdAssumption DEF Publish, Node, Effective, CallInv, Building, CallType, ProcType
  <1>3. ASSUME NEW keep \in SUBSET Ids, GC(keep) PROVE RegType'
    <2>1. registry' \subseteq registry BY Zenon, <1>3 DEF GC, retained_ids
    <2>2. node' \in [Ids -> Node] BY Zenon, <1>3 DEF GC, NoNode, Node
    <2>3. taken' \in [Ids -> Contents \cup {Gone}] BY Zenon, <1>3 DEF GC
    <2> QED BY Zenon, <1>3, <2>1, <2>2, <2>3 DEF GC
  <1>4. CASE Worker
    BY Zenon, <1>4 DEF Worker, regVars, Take, AwaitParent, DumpCommits, DumpFails, Dispose,
       Release, Complete
  <1>5. CASE UNCHANGED <<registry, node, taken>>
    BY Zenon, <1>5, UsedSteps DEF Admit, Lightweight
  <1> QED BY Zenon, <1>1, <1>2, <1>3, <1>4, <1>5, QuietSteps DEF RegistryStep

LEMMA UsedGrows == IInv /\ [Next]_vars => used \subseteq used' /\ used' \subseteq Ids
  BY Zenon, UsedSteps DEF IInv, TypeOK, RegType, Admit, Lightweight

LEMMA DumpTypeNext == IInv /\ [Next]_vars => DumpType'
  <1> SUFFICES ASSUME IInv, [Next]_vars PROVE DumpType' OBVIOUS
  <1>u. used \subseteq used' /\ used \subseteq Ids BY Zenon, UsedGrows DEF IInv, TypeOK, RegType
  <1> USE DEF IInv, TypeOK, DumpType
  <1>1. ASSUME NEW parent \in Ids, NEW i \in Ids, Lightweight(parent, i) PROVE DumpType'
    BY Zenon, <1>1, <1>u DEF Lightweight, dumpVars
  <1>2. CASE Publish
    BY Zenon, <1>2, <1>u DEF Publish, CallInv, Building
  <1>3. ASSUME NEW keep \in SUBSET Ids, GC(keep) PROVE DumpType'
    <2>1. dispose_done' \subseteq used' BY Zenon, <1>3, <1>u DEF GC
    <2>2. state' \in [Ids -> {"none", "WARM_READY", "DUMPING", "DURABLE_READY",
                              "DURABLE_FAILED"}]
      BY Zenon, <1>3 DEF GC
    <2>3. future' \in [Ids -> {"none", "pending", "result", "exception"}]
      BY Zenon, <1>3 DEF GC
    <2>4. image' \in [Ids -> Contents \cup {Gone}] BY Zenon, <1>3 DEF GC
    <2> QED BY Zenon, <2>1, <2>2, <2>3, <2>4
  <1>w. wpc # "idle" => wid \in used BY Zenon DEF WorkerInv, RegType
  <1>4. CASE Take BY Zenon, <1>4, <1>u DEF Take, dumpVars
  <1>5. CASE AwaitParent BY Zenon, <1>5, <1>u, <1>w DEF AwaitParent
  <1>6. CASE DumpCommits
    <2>1. image' \in [Ids -> Contents \cup {Gone}]
      BY Zenon, <1>6, <1>u, <1>w DEF DumpCommits, ProcType
    <2> QED BY Zenon, <1>6, <1>u, <1>w, <2>1 DEF DumpCommits
  <1>7. CASE DumpFails BY Zenon, <1>7, <1>u, <1>w DEF DumpFails
  <1>8. ASSUME NEW exited \in BOOLEAN, Dispose(exited) PROVE DumpType'
    <2>1. CASE exited BY Zenon, <1>8, <1>u, <1>w, <2>1 DEF Dispose
    <2>2. CASE ~exited BY Zenon, <1>8, <1>u, <1>w, <2>2 DEF Dispose
    <2> QED BY Zenon, <2>1, <2>2
  <1>9. CASE Release BY Zenon, <1>9, <1>u DEF Release, dumpVars
  <1>10. CASE Complete
    <2>1. future' \in [Ids -> {"none", "pending", "result", "exception"}]
      BY Zenon, <1>10, <1>u, <1>w DEF Complete
    <2> QED BY Zenon, <1>10, <1>u, <2>1 DEF Complete
  <1>11. CASE UNCHANGED dumpVars BY Zenon, <1>11, <1>u DEF dumpVars
  <1> QED
    BY Zenon, <1>1, <1>2, <1>3, <1>4, <1>5, <1>6, <1>7, <1>8, <1>9, <1>10, <1>11, QuietSteps
    DEF RegistryStep, Worker

LEMMA WorkTypeNext == IInv /\ [Next]_vars => WorkType'
  <1> SUFFICES ASSUME IInv, [Next]_vars PROVE WorkType' OBVIOUS
  <1>u. used \subseteq used' /\ used \subseteq Ids BY Zenon, UsedGrows DEF IInv, TypeOK, RegType
  <1>t. WorkType BY Zenon DEF IInv, TypeOK
  <1>1. CASE UNCHANGED workVars
    BY Zenon, <1>1, <1>u, <1>t, SeqWiden DEF workVars, WorkType
  <1>2. CASE Publish
    <2>1. cid \in used' BY Zenon, <1>2, <1>u DEF IInv, CallInv, Building, Publish
    <2>2. queue \in Seq(used') BY Zenon, <1>u, <1>t, SeqWiden DEF WorkType
    <2>3. queue' \in Seq(used') BY Zenon, <1>2, <2>1, <2>2, AppendFacts DEF Publish
    <2> QED BY Zenon, <1>2, <1>u, <1>t, <2>3 DEF Publish, WorkType
  <1>3. CASE Take
    <2>1. queue' \in Seq(used) /\ wid' \in used BY Zenon, <1>3, <1>t, TailFacts DEF Take, WorkType
    <2>2. queue' \in Seq(used') BY Zenon, <1>u, <2>1, SeqWiden
    <2> QED BY Zenon, <1>3, <1>u, <2>1, <2>2 DEF Take, WorkType
  <1>4. ASSUME UNCHANGED queue, wpc' \in {"idle", "dump", "dispose", "release", "complete"},
               wid' \in {wid, NoId}
        PROVE  WorkType'
    BY Zenon, <1>4, <1>u, <1>t, SeqWiden DEF WorkType
  <1>5. CASE AwaitParent BY Zenon, <1>4, <1>5 DEF AwaitParent
  <1>6. CASE DumpCommits BY Zenon, <1>4, <1>6 DEF DumpCommits
  <1>7. CASE DumpFails BY Zenon, <1>4, <1>7 DEF DumpFails
  <1>8. ASSUME NEW exited \in BOOLEAN, Dispose(exited) PROVE WorkType'
    BY Zenon, <1>4, <1>8 DEF Dispose
  <1>9. CASE Release BY Zenon, <1>4, <1>9 DEF Release
  <1>10. CASE Complete BY Zenon, <1>4, <1>10 DEF Complete
  <1>11. CASE RegistryStep /\ ~Publish
    BY Zenon, <1>11, <1>1 DEF RegistryStep, Lightweight, GC
  <1> QED
    BY Zenon, <1>1, <1>2, <1>3, <1>5, <1>6, <1>7, <1>8, <1>9, <1>10, <1>11, QuietSteps DEF Worker

ProcessStep ==
    \/ Work \/ Prepare \/ ForkDump
    \/ \E disposed \in BOOLEAN : Abort(disposed)
    \/ \E exited \in BOOLEAN : Dispose(exited)
    \/ \E target \in Ids, cold \in BOOLEAN : RestoreCall(target, cold)
    \/ \E victims \in SUBSET Ids : KillActive(victims)
    \/ WarmForkReplies \/ Teardown \/ CriuRestores
    \/ \E keep \in SUBSET Ids : GC(keep)
    \/ \E i \in Ids : TemplateDies(i) \/ WriterExitsLate(i)

LEMMA ProcessSteps ==
  ASSUME [Next]_vars
  PROVE  ProcessStep \/ UNCHANGED procVars
  <1>1. CASE Calls
    BY Zenon, <1>1 DEF Calls, ProcessStep, CheckpointCall, Lightweight
  <1>2. CASE Continue
    BY Zenon, <1>2 DEF Continue, ProcessStep, Admit, Publish, Join, DrainPasses,
       DrainRefuses, WarmForkFails, CriuFails
  <1>3. CASE Timeouts
    BY Zenon, <1>3 DEF Timeouts, AdmitTimeout, JoinTimeout, DrainTimeout
  <1>4. CASE Environment BY Zenon, <1>4 DEF Environment, ProcessStep
  <1>5. CASE Worker
    BY Zenon, <1>5 DEF Worker, ProcessStep, Take, AwaitParent, DumpCommits, DumpFails,
       Release, Complete
  <1>6. CASE UNCHANGED vars BY Zenon, <1>6 DEF vars
  <1> QED BY Zenon, <1>1, <1>2, <1>3, <1>4, <1>5, <1>6 DEF Next

LEMMA NamespaceDiesType ==
  ASSUME NamespaceDies, templates' \subseteq used'
  PROVE  ProcType'
  BY Zenon DEF NamespaceDies, ProcType

LEMMA ProcTypeNext == IInv /\ [Next]_vars => ProcType'
  <1> SUFFICES ASSUME IInv, [Next]_vars PROVE ProcType' OBVIOUS
  <1>u. used \subseteq used' /\ used \subseteq Ids BY Zenon, UsedGrows DEF IInv, TypeOK, RegType
  <1>t. ProcType BY Zenon DEF IInv, TypeOK
  <1>c. pc \in Building => cid \in used BY Zenon DEF IInv, CallInv
  <1>1. CASE Work BY Zenon, <1>1, <1>u, <1>t DEF Work, ProcType
  <1>2. CASE Prepare BY Zenon, <1>2, <1>u, <1>t, <1>c DEF Prepare, ProcType, Building
  <1>3. CASE ForkDump BY Zenon, <1>3, <1>u, <1>t, <1>c DEF ForkDump, ProcType, Building
  <1>4. ASSUME NEW disposed \in BOOLEAN, Abort(disposed) PROVE ProcType'
    <2>1. templates' \subseteq used' /\ tmpl' \in [Ids -> Contents \cup {Gone}]
      BY Zenon, <1>4, <1>u, <1>t, <1>c DEF Abort, ProcType, Building
    <2>2. writer' \in [Ids -> Contents \cup {Gone}] /\ killed' \subseteq used'
      BY Zenon, <1>4, <1>u, <1>t, <1>c DEF Abort, ProcType, Building
    <2> QED BY Zenon, <1>4, <1>u, <1>t, <2>1, <2>2 DEF Abort, ProcType
  <1>5. ASSUME NEW exited \in BOOLEAN, Dispose(exited) PROVE ProcType'
    <2>1. wid \in used BY Zenon, <1>5 DEF Dispose, IInv, WorkerInv, TypeOK, RegType
    <2> QED BY <1>5, <1>u, <1>t, <2>1 DEF Dispose, ProcType
  <1>6. ASSUME NEW target \in Ids, NEW cold \in BOOLEAN, RestoreCall(target, cold)
        PROVE  ProcType'
    <2>1. templates' \subseteq used' BY Zenon, <1>6, <1>u, <1>t DEF RestoreCall, ProcType
    <2> QED BY Zenon, <1>6, <1>u, <1>t, <2>1 DEF RestoreCall, ProcType
  <1>7. ASSUME NEW victims \in SUBSET Ids, KillActive(victims) PROVE ProcType'
    <2>1. CASE agent = "init"
      BY Zenon, <1>7, <1>u, <1>t, <2>1, NamespaceDiesType DEF KillActive, ProcType
    <2>2. CASE agent # "init"
      BY Zenon, <1>7, <1>u, <1>t, <2>2 DEF KillActive, ProcType
    <2> QED BY Zenon, <2>1, <2>2
  <1>8. CASE WarmForkReplies
    <2>1. cid \in Ids BY Zenon, <1>8, <1>u DEF WarmForkReplies, IInv, CallInv, Restoring,
                          TypeOK, RegType
    <2> QED BY Zenon, <1>8, <1>u, <1>t, <2>1 DEF WarmForkReplies, ProcType
  <1>9. CASE Teardown
    BY Zenon, <1>9, <1>u, <1>t, NamespaceDiesType DEF Teardown, ProcType
  <1>10. CASE CriuRestores
    <2>1. cid \in Ids BY Zenon, <1>10, <1>u DEF CriuRestores, IInv, CallInv, Restoring,
                          TypeOK, RegType
    <2> QED BY Zenon, <1>10, <1>u, <1>t, <2>1 DEF CriuRestores, ProcType, IInv, TypeOK, DumpType
  <1>11. ASSUME NEW keep \in SUBSET Ids, GC(keep) PROVE ProcType'
    <2> DEFINE pruned == registry \ retained_ids(keep \cup (registry \cap {init_tmpl}))
    <2>1. CASE init_tmpl \in pruned \cap templates
      BY Zenon, <1>11, <1>u, <1>t, <2>1, NamespaceDiesType DEF GC, ProcType
    <2>2. CASE init_tmpl \notin pruned \cap templates
      <3>1. tmpl' \in [Ids -> Contents \cup {Gone}] BY Zenon, <1>11, <1>t, <2>2 DEF GC, ProcType
      <3> QED BY Zenon, <1>11, <1>u, <1>t, <2>2, <3>1 DEF GC, ProcType
    <2> QED BY Zenon, <2>1, <2>2
  <1>12. ASSUME NEW i \in Ids, TemplateDies(i) \/ WriterExitsLate(i) PROVE ProcType'
    BY Zenon, <1>12, <1>u, <1>t DEF TemplateDies, WriterExitsLate, ProcType
  <1>13. CASE UNCHANGED procVars BY Zenon, <1>13, <1>u, <1>t DEF procVars, ProcType
  <1> QED
    BY Zenon, <1>1, <1>2, <1>3, <1>4, <1>5, <1>6, <1>7, <1>8, <1>9, <1>10, <1>11, <1>12, <1>13,
       ProcessSteps DEF ProcessStep

LEMMA CallNext == IInv /\ [Next]_vars => CallType' /\ CallInv'
  <1> SUFFICES ASSUME IInv, [Next]_vars PROVE CallType' /\ CallInv' OBVIOUS
  <1>u. used \subseteq used' /\ used \subseteq Ids /\ registry \subseteq used
    BY Zenon, UsedGrows DEF IInv, TypeOK, RegType
  <1>t. CallType /\ CallInv BY Zenon DEF IInv, TypeOK
  <1>r. Return => CallType' /\ CallInv'
    BY Zenon DEF Return, CallType, CallInv, Building, Restoring
  <1>g. ASSUME NEW label \in Restoring, Goto(label), pc \in Restoring,
               UNCHANGED <<registry, used, node>>
        PROVE  CallType' /\ CallInv'
    BY Zenon, <1>g, <1>t DEF Goto, CallType, CallInv, Building, Restoring, Effective
  <1>i. ASSUME pc = "idle", UNCHANGED callVars, registry \subseteq registry' \/ cparent = NoId
        PROVE  CallType' /\ CallInv'
    BY Zenon, <1>i, <1>u, <1>t DEF callVars, CallType, CallInv, Building, Restoring
  <1>s. ASSUME UNCHANGED <<registry, node, callVars, used>> PROVE CallType' /\ CallInv'
    BY Zenon, <1>s, <1>t DEF callVars, CallType, CallInv, Effective
  <1>1. ASSUME NEW parent \in Ids \cup {NoId}, CheckpointCall(parent)
        PROVE  CallType' /\ CallInv'
    BY Zenon, <1>1, <1>u, <1>t DEF CheckpointCall, regVars, CallType, CallInv, Building, Restoring
  <1>2. ASSUME NEW parent \in Ids, NEW i \in Ids, Lightweight(parent, i)
        PROVE  CallType' /\ CallInv'
    BY Zenon, <1>2, <1>i DEF Lightweight
  <1>3. ASSUME NEW i \in Ids, Admit(i) PROVE CallType' /\ CallInv'
    BY Zenon, <1>3, <1>u, <1>t DEF Admit, CallType, CallInv, Building, Restoring
  <1>4. CASE Prepare \/ ForkDump
    BY Zenon, <1>4, <1>t DEF Prepare, ForkDump, Goto, regVars, CallType, CallInv, Building, Restoring
  <1>5. ASSUME NEW target \in Ids, NEW cold \in BOOLEAN, RestoreCall(target, cold)
        PROVE  CallType' /\ CallInv'
    <2>1. CASE Return BY Zenon, <2>1, <1>r
    <2>2. CASE ~Return
      <3>1. /\ pc = "idle" /\ target \in registry /\ cid' = Effective(target)
            /\ pc' \in {"warm_kill", "join"} /\ cold_ok' \in BOOLEAN
            /\ UNCHANGED <<registry, used, node, cparent>>
        BY Zenon, <1>5, <2>2 DEF RestoreCall, regVars
      <3>2. Effective(target) \in registry /\ Effective(Effective(target)) = Effective(target)
        BY Zenon, <3>1 DEF IInv, RegistryInv
      <3> QED
        BY Zenon, <3>1, <3>2, <1>t, <1>u DEF CallType, CallInv, Building, Restoring, Effective
    <2> QED BY Zenon, <2>1, <2>2
  <1>6. CASE Join
    BY Zenon, <1>6, <1>r, <1>g DEF Join, regVars, Restoring
  <1>7. CASE DrainPasses BY Zenon, <1>7, <1>g DEF DrainPasses, regVars, Restoring
  <1>8. ASSUME NEW victims \in SUBSET Ids, KillActive(victims) PROVE CallType' /\ CallInv'
    BY Zenon, <1>8, <1>g DEF KillActive, regVars, Restoring
  <1>9. CASE WarmForkFails BY Zenon, <1>9, <1>r, <1>g DEF WarmForkFails, regVars, Restoring
  <1>10. CASE Teardown BY Zenon, <1>10, <1>g DEF Teardown, regVars, Restoring
  <1>11. CASE Publish \/ \E disposed \in BOOLEAN : Abort(disposed)
    BY Zenon, <1>11, <1>r DEF Publish, Abort
  <1>12. CASE DrainRefuses \/ WarmForkReplies \/ CriuRestores \/ CriuFails \/ Timeouts
    BY Zenon, <1>12, <1>r DEF DrainRefuses, WarmForkReplies, CriuRestores, CriuFails,
       Timeouts,
       AdmitTimeout, JoinTimeout, DrainTimeout
  <1>13. ASSUME NEW keep \in SUBSET Ids, GC(keep) PROVE CallType' /\ CallInv'
    <2>1. pc = "idle" /\ UNCHANGED callVars BY Zenon, <1>13 DEF GC
    <2>2. cparent = NoId BY Zenon, <2>1, <1>t DEF CallInv, Building
    <2> QED BY Zenon, <2>1, <2>2, <1>i
  <1>14. CASE Work \/ Environment \/ Worker \/ UNCHANGED vars
    <2>1. UNCHANGED regVars /\ UNCHANGED callVars => CallType' /\ CallInv'
      BY Zenon, <1>s DEF regVars
    <2>2. CASE Work BY Zenon, <2>1, <2>2 DEF Work
    <2>3. CASE Environment BY Zenon, <2>1, <2>3 DEF Environment, TemplateDies, WriterExitsLate
    <2>4. CASE Worker
      <3>1. UNCHANGED regVars /\ UNCHANGED callVars
        BY Zenon, <2>4 DEF Worker, Take, AwaitParent, DumpCommits, DumpFails, Dispose, Release,
           Complete
      <3> QED BY Zenon, <2>1, <3>1
    <2>5. CASE UNCHANGED vars BY Zenon, <2>1, <2>5 DEF vars
    <2> QED BY Zenon, <1>14, <2>2, <2>3, <2>4, <2>5
  <1> QED
    BY Zenon, <1>1, <1>2, <1>3, <1>4, <1>5, <1>6, <1>7, <1>8, <1>9, <1>10, <1>11, <1>12, <1>13,
       <1>14 DEF Next, Calls, Continue

LEMMA CountersNext == IInv /\ [Next]_vars => slots' \in Nat /\ failed' \in BOOLEAN
  <1> SUFFICES ASSUME IInv, [Next]_vars PROVE slots' \in Nat /\ failed' \in BOOLEAN OBVIOUS
  <1>t. slots \in Nat /\ failed \in BOOLEAN BY Zenon DEF IInv, TypeOK
  <1>1. CASE Calls
    BY Zenon, <1>1, <1>t DEF Calls, Work, CheckpointCall, Lightweight, RestoreCall, GC
  <1>2. ASSUME NEW i \in Ids, Admit(i) PROVE slots' \in Nat /\ failed' \in BOOLEAN
    BY <1>2, <1>t DEF Admit
  <1>3. ASSUME NEW disposed \in BOOLEAN, Abort(disposed)
        PROVE  slots' \in Nat /\ failed' \in BOOLEAN
    BY <1>3, <1>t DEF Abort
  <1>4. CASE Release BY <1>4, <1>t DEF Release
  <1>5. CASE Prepare \/ ForkDump \/ Publish \/ Join \/ DrainPasses \/ DrainRefuses
             \/ (\E victims \in SUBSET Ids : KillActive(victims)) \/ WarmForkReplies
             \/ WarmForkFails \/ Teardown \/ CriuRestores \/ CriuFails \/ Timeouts
    BY Zenon, <1>5, <1>t DEF Prepare, ForkDump, Publish, Join, DrainPasses, DrainRefuses,
       KillActive,
       WarmForkReplies, WarmForkFails, Teardown, CriuRestores, CriuFails, Timeouts,
       AdmitTimeout, JoinTimeout, DrainTimeout
  <1>6. CASE Take \/ AwaitParent \/ DumpCommits \/ DumpFails \/ Complete
             \/ (\E exited \in BOOLEAN : Dispose(exited)) \/ Environment \/ UNCHANGED vars
    BY Zenon, <1>6, <1>t DEF Take, AwaitParent, DumpCommits, DumpFails, Complete, Dispose,
       Environment, TemplateDies, WriterExitsLate, vars
  <1> QED BY Zenon, <1>1, <1>2, <1>3, <1>4, <1>5, <1>6 DEF Next, Continue, Worker

LEMMA TypeNext == IInv /\ [Next]_vars => TypeOK'
  BY Zenon, RegTypeNext, DumpTypeNext, ProcTypeNext, CallNext, WorkTypeNext, CountersNext DEF TypeOK

-----------------------------------------------------------------------------
(* The collector and the registry                                          *)

LEMMA RetainedClosed ==
  ASSUME NEW requested \in SUBSET registry
  PROVE  LET kept == retained_ids(requested)
         IN  /\ kept \subseteq registry
             /\ requested \cup Protected \subseteq kept
             /\ \A j \in kept : Links(j) \cap registry \subseteq kept
  <1> DEFINE kept == retained_ids(requested)
  <1>1. kept \subseteq registry BY Zenon DEF retained_ids
  <1>2. requested \cup Protected \subseteq kept BY Zenon DEF retained_ids, Protected
  <1>3. ASSUME NEW j \in kept, NEW x \in Links(j) \cap registry PROVE x \in kept
    BY Zenon, <1>3 DEF retained_ids
  <1> QED BY Zenon, <1>1, <1>2, <1>3

\* What gc_obsolete_snapshots leaves of the registry.
LEMMA GCKeeps ==
  ASSUME IInv, NEW keep \in SUBSET Ids, GC(keep)
  PROVE  /\ registry' \subseteq registry /\ Protected \subseteq registry'
         /\ init_tmpl \in registry => init_tmpl \in registry'
         /\ \A j \in registry' : Links(j) \subseteq registry' \cup {NoId}
         /\ \A i \in Ids \ (registry \ registry') :
              /\ node'[i] = node[i] /\ taken'[i] = taken[i] /\ state'[i] = state[i]
              /\ future'[i] = future[i] /\ image'[i] = image[i]
         /\ \A i \in registry \ registry' :
              /\ state'[i] = "none" /\ future'[i] = "none"
         /\ dispose_done' = dispose_done \ (registry \ registry')
         /\ UNCHANGED <<queue, wpc, wid, pc, cid, used>>
         /\ pc = "idle"
  <1> DEFINE requested == keep \cup (registry \cap {init_tmpl})
             kept == retained_ids(requested)
  <1>1. requested \in SUBSET registry BY Zenon DEF GC
  <1>2. /\ kept \subseteq registry
        /\ requested \cup Protected \subseteq kept
        /\ \A j \in kept : Links(j) \cap registry \subseteq kept
    BY Zenon, <1>1, RetainedClosed
  <1>3. registry' = kept BY Zenon DEF GC
  <1>4. \A j \in registry' : Links(j) \subseteq registry' \cup {NoId}
    BY Zenon, <1>2, <1>3 DEF IInv, RegistryInv
  <1>5. registry \subseteq Ids BY Zenon DEF IInv, TypeOK, RegType
  <1>6. \A i \in Ids \ (registry \ registry') :
              /\ node'[i] = node[i] /\ taken'[i] = taken[i] /\ state'[i] = state[i]
              /\ future'[i] = future[i] /\ image'[i] = image[i]
    BY Zenon, <1>3 DEF GC
  <1>7. \A i \in registry \ registry' : state'[i] = "none" /\ future'[i] = "none"
    BY Zenon, <1>3, <1>5 DEF GC
  <1>8. dispose_done' = dispose_done \ (registry \ registry') BY Zenon, <1>3 DEF GC
  <1>9. pc = "idle" /\ UNCHANGED <<queue, wpc, wid, pc, cid, used>>
    BY Zenon DEF GC, workVars, callVars
  <1>10. init_tmpl \in registry => init_tmpl \in registry' BY Zenon, <1>2, <1>3
  <1>11. registry' \subseteq registry /\ Protected \subseteq registry' BY Zenon, <1>2, <1>3
  <1> QED BY Zenon, <1>4, <1>6, <1>7, <1>8, <1>9, <1>10, <1>11

\* What each step of the dump worker does to the running dump.
LEMMA WorkerKeeps ==
  ASSUME IInv, Worker, wpc # "idle"
  PROVE  /\ wid \in registry /\ wid \in Ids /\ Pending(wid)
         /\ UNCHANGED <<registry, node, taken, used, queue, pc, cid>>
         /\ state' = [state EXCEPT ![wid] = state'[wid]]
         /\ future' = [future EXCEPT ![wid] = future'[wid]]
         /\ future'[wid] # "none"
         /\ wpc # "complete" => UNCHANGED <<future, wid>>
  <1>1. wid \in registry /\ wid \in Ids /\ Pending(wid)
    BY Zenon DEF IInv, WorkerInv, Running, TypeOK, RegType
  <1>2. state \in [Ids -> {"none", "WARM_READY", "DUMPING", "DURABLE_READY",
                           "DURABLE_FAILED"}]
        /\ future \in [Ids -> {"none", "pending", "result", "exception"}]
    BY Zenon DEF IInv, TypeOK, DumpType
  <1>3. UNCHANGED <<registry, node, taken, used, queue, pc, cid>>
    BY Zenon DEF Worker, Take, AwaitParent, DumpCommits, DumpFails, Dispose, Release, Complete,
       regVars, callVars
  <1>4. state' = [state EXCEPT ![wid] = state'[wid]]
    BY Zenon, <1>1, <1>2 DEF Worker, Take, AwaitParent, DumpCommits, DumpFails, Dispose, Release,
       Complete, dumpVars
  <1>5. /\ future' = [future EXCEPT ![wid] = future'[wid]]
        /\ future'[wid] # "none"
    BY Zenon, <1>1, <1>2 DEF Worker, Take, AwaitParent, DumpCommits, DumpFails, Dispose, Release,
       Complete, dumpVars, Pending
  <1>6. wpc # "complete" => UNCHANGED <<future, wid>>
    BY Zenon DEF Worker, Take, AwaitParent, DumpCommits, DumpFails, Dispose, Release, Complete,
       dumpVars
  <1> QED BY Zenon, <1>1, <1>3, <1>4, <1>5, <1>6

LEMMA RegistryNext == IInv /\ [Next]_vars => RegistryInv'
  <1> SUFFICES ASSUME IInv, [Next]_vars PROVE RegistryInv' OBVIOUS
  <1>t. /\ registry \subseteq used /\ used \subseteq Ids /\ NoId \notin Ids
        /\ node \in [Ids -> Node] /\ RegistryInv
        /\ future \in [Ids -> {"none", "pending", "result", "exception"}]
        /\ state \in [Ids -> {"none", "WARM_READY", "DUMPING", "DURABLE_READY",
                              "DURABLE_FAILED"}]
    BY Zenon, NoIdAssumption DEF IInv, TypeOK, RegType, DumpType
  <1>1. ASSUME NEW parent \in Ids, NEW i \in Ids, Lightweight(parent, i) PROVE RegistryInv'
    <2>1. /\ i \notin registry /\ parent \in registry /\ registry' = registry \cup {i}
          /\ UNCHANGED <<state, future>>
          /\ node'[i] = [parent_id |-> parent, prev_ckpt_id |-> NoId,
                         effective_restore_id |-> node[parent].effective_restore_id]
          /\ \A j \in registry : node'[j] = node[j]
      BY Zenon, <1>1, <1>t DEF Lightweight, dumpVars, Effective
    <2> QED BY <1>t, <2>1 DEF RegistryInv, Links, Effective, Prev
  <1>2. CASE Publish
    <2>1. /\ cid \notin registry /\ cid \in Ids /\ cparent \in registry \cup {NoId}
      BY Zenon, <1>2, <1>t DEF Publish, IInv, TypeOK, CallType, CallInv, Building
    <2>2. /\ registry' = registry \cup {cid}
          /\ node'[cid].parent_id = cparent
          /\ node'[cid].prev_ckpt_id = IF cparent = NoId THEN NoId ELSE Effective(cparent)
          /\ node'[cid].effective_restore_id = cid
          /\ future'[cid] = "pending"
          /\ \A j \in Ids \ {cid} : /\ node'[j] = node[j] /\ future'[j] = future[j]
                                     /\ state'[j] = state[j]
      BY Zenon, <1>2, <1>t, <2>1 DEF Publish
    <2> QED BY <1>t, <2>1, <2>2 DEF RegistryInv, Links, Effective, Prev
  <1>3. ASSUME NEW keep \in SUBSET Ids, GC(keep) PROVE RegistryInv'
    BY <1>t, <1>3, GCKeeps DEF RegistryInv, Links, Effective, Prev
  <1>4. CASE Worker
    <2>1. CASE wpc = "idle"
      BY SMTT(30), <1>4, <1>t, <2>1 DEF Worker, Take, AwaitParent, DumpCommits, DumpFails, Dispose,
         Release, Complete, regVars, dumpVars, RegistryInv, Links, Effective, Prev
    <2>2. CASE wpc # "idle"
      BY SMTT(30), <1>4, <1>t, <2>2, WorkerKeeps DEF RegistryInv, Links, Effective, Prev, Pending
    <2> QED BY Zenon, <2>1, <2>2
  <1>5. CASE UNCHANGED <<registry, node, taken, dumpVars, workVars>>
    BY Zenon, <1>5, <1>t DEF RegistryInv, dumpVars, Links, Effective, Prev
  <1> QED BY Zenon, <1>1, <1>2, <1>3, <1>4, <1>5, QuietSteps DEF RegistryStep

-----------------------------------------------------------------------------
(* The queue of the dump worker                                            *)

LEMMA TakeQueue ==
  ASSUME IInv, Take
  PROVE  /\ Len(queue) \in Nat /\ Len(queue') = Len(queue) - 1
         /\ wid' = queue[1] /\ 1 \in 1..Len(queue) /\ wpc = "idle" /\ wpc' = "parent"
         /\ \A k \in 1..Len(queue') : queue'[k] = queue[k + 1] /\ k + 1 \in 1..Len(queue)
         /\ Queued = Queued' \cup {wid'} /\ wid' \notin Queued'
         /\ UNCHANGED <<registry, node, taken, used, dumpVars>>
  <1>1. queue \in Seq(used) /\ queue # << >> BY Zenon DEF IInv, TypeOK, WorkType, Take
  <1>2. /\ Len(queue) \in Nat /\ Len(queue) >= 1 /\ Len(queue') = Len(queue) - 1
        /\ wid' = queue[1] /\ 1 \in 1..Len(queue)
        /\ \A k \in 1..Len(queue') : queue'[k] = queue[k + 1] /\ k + 1 \in 1..Len(queue)
    BY <1>1, TailFacts DEF Take
  <1>3. \A j, k \in 1..Len(queue) : queue[j] = queue[k] => j = k BY Zenon DEF IInv, WorkerInv
  <1>4. wid' \notin Queued' BY <1>2, <1>3 DEF Queued
  <1>5. ASSUME NEW x \in Queued PROVE x \in Queued' \cup {wid'}
    <2>1. PICK k \in 1..Len(queue) : x = queue[k] BY Zenon DEF Queued
    <2>2. CASE k = 1 BY Zenon, <1>2, <2>1, <2>2
    <2>3. CASE k # 1
      <3>1. k - 1 \in 1..Len(queue') /\ (k - 1) + 1 = k BY <1>2, <2>3
      <3>2. queue'[k - 1] = queue[k] BY Zenon, <1>2, <3>1
      <3> QED BY Zenon, <2>1, <3>1, <3>2 DEF Queued
    <2> QED BY Zenon, <2>2, <2>3
  <1>6. Queued' \cup {wid'} \subseteq Queued BY <1>2 DEF Queued
  <1> QED BY Zenon, <1>2, <1>4, <1>5, <1>6 DEF Take, regVars

LEMMA PublishQueue ==
  ASSUME IInv, Publish
  PROVE  /\ cid \in Ids /\ cid \notin registry /\ cid \notin Queued
         /\ Len(queue) \in Nat /\ Len(queue') = Len(queue) + 1
         /\ \A k \in 1..Len(queue) : queue'[k] = queue[k]
         /\ queue'[Len(queue) + 1] = cid
         /\ Queued' = Queued \cup {cid}
         /\ registry' = registry \cup {cid} /\ UNCHANGED <<wpc, wid, used>>
         /\ state'[cid] = "WARM_READY" /\ future'[cid] = "pending" /\ taken'[cid] = mem
         /\ \A j \in Ids \ {cid} : /\ node'[j] = node[j] /\ future'[j] = future[j]
                                    /\ state'[j] = state[j] /\ taken'[j] = taken[j]
  <1>1. cid \in used /\ cid \notin registry /\ cid \in Ids
    BY Zenon DEF IInv, CallInv, Building, Publish, TypeOK, RegType
  <1>2. cid \notin Queued BY Zenon, <1>1 DEF IInv, RegistryInv, WorkerInv, Pending
  <1>3. queue \in Seq(used) BY Zenon DEF IInv, TypeOK, WorkType
  <1>4. /\ Len(queue) \in Nat /\ Len(queue') = Len(queue) + 1
        /\ \A k \in 1..Len(queue) : queue'[k] = queue[k]
        /\ queue'[Len(queue) + 1] = cid
    BY <1>1, <1>3, AppendFacts DEF Publish
  <1>5. Queued' = Queued \cup {cid} BY <1>4 DEF Queued
  <1>6. /\ registry' = registry \cup {cid} /\ UNCHANGED <<wpc, wid, used>>
        /\ state'[cid] = "WARM_READY" /\ future'[cid] = "pending" /\ taken'[cid] = mem
        /\ \A j \in Ids \ {cid} : /\ node'[j] = node[j] /\ future'[j] = future[j]
                                    /\ state'[j] = state[j] /\ taken'[j] = taken[j]
    BY Zenon, <1>1 DEF Publish, IInv, TypeOK, RegType, DumpType
  <1> QED BY Zenon, <1>1, <1>2, <1>4, <1>5, <1>6

LEMMA WorkerNext == IInv /\ [Next]_vars => WorkerInv'
  <1> SUFFICES ASSUME IInv, [Next]_vars PROVE WorkerInv' OBVIOUS
  <1>t. /\ WorkerInv /\ RegistryInv /\ registry \subseteq Ids
        /\ future \in [Ids -> {"none", "pending", "result", "exception"}]
        /\ state \in [Ids -> {"none", "WARM_READY", "DUMPING", "DURABLE_READY",
                              "DURABLE_FAILED"}]
        /\ \A i \in Queued \cup Running : i \in registry
    <2>1. registry \subseteq Ids /\ Queued \subseteq Ids
      BY SMTT(30) DEF IInv, TypeOK, RegType, WorkType, Queued
    <2>2. \A i \in Queued : i \in registry BY Zenon, <2>1 DEF IInv, WorkerInv, RegistryInv, Pending
    <2> QED BY Zenon, <2>1, <2>2 DEF IInv, TypeOK, DumpType, Running, WorkerInv
  <1>1. ASSUME NEW parent \in Ids, NEW i \in Ids, Lightweight(parent, i) PROVE WorkerInv'
    <2>1. /\ UNCHANGED <<queue, wpc, wid, state, future>> /\ registry' = registry \cup {i}
          /\ future[i] = "none"
      BY Zenon, <1>1, <1>t DEF Lightweight, workVars, dumpVars, RegistryInv, IInv, TypeOK,
         RegType
    <2> QED BY <1>t, <2>1 DEF WorkerInv, Queued, Running, Pending, Done
  <1>2. CASE Publish
    <2>1. \A j, k \in 1..Len(queue') : queue'[j] = queue'[k] => j = k
      BY SMTT(30), <1>2, <1>t, PublishQueue DEF WorkerInv, Queued
    <2>2. Running' = Running /\ cid \notin Running BY Zenon, <1>2, <1>t, PublishQueue DEF Running
    <2>3. \A i \in Ids : Pending(i)' <=> i \in Queued' \cup Running'
      BY SMTT(30), <1>2, <1>t, <2>2, PublishQueue DEF WorkerInv, Pending
    <2>4. wpc' # "idle" => wid' \in registry' /\ wid' \notin Queued'
      BY <1>2, <1>t, PublishQueue DEF WorkerInv
    <2>5. \A i \in Queued' : state'[i] = "WARM_READY"
      BY <1>2, <1>t, PublishQueue DEF WorkerInv
    <2>6. wpc # "idle" => state'[wid] = state[wid]
      BY Zenon, <1>2, <1>t, PublishQueue DEF WorkerInv
    <2>7. \A i \in registry' : Done(i)' =>
         state'[i] = IF future'[i] = "result" THEN "DURABLE_READY" ELSE "DURABLE_FAILED"
      BY <1>2, <1>t, PublishQueue DEF WorkerInv, Done
    <2> QED BY Zenon, <1>2, <1>t, <2>1, <2>3, <2>4, <2>5, <2>6, <2>7, PublishQueue DEF WorkerInv
  <1>3. ASSUME NEW keep \in SUBSET Ids, GC(keep) PROVE WorkerInv'
    <2>1. \A i \in Queued \cup Running : i \in registry' /\ i \in Ids
      BY Zenon, <1>3, <1>t, GCKeeps DEF WorkerInv, Protected, Pending
    <2>2. Queued' = Queued /\ Running' = Running /\ UNCHANGED <<queue, wpc, wid>>
      BY Zenon, <1>3, GCKeeps DEF Queued, Running
    <2>3. \A i \in Ids : Pending(i)' <=> Pending(i)
      BY Zenon, <1>3, <1>t, GCKeeps DEF Pending, Protected
    <2>4. wpc # "idle" => wid \in Running BY Zenon DEF Running
    <2>5. \A i \in registry' : state'[i] = state[i] /\ future'[i] = future[i] /\ i \in registry
      BY Zenon, <1>3, <1>t, GCKeeps
    <2> QED BY SMTT(30), <1>t, <2>1, <2>2, <2>3, <2>4, <2>5 DEF WorkerInv, Done
  <1>4. CASE Take
    <2>1. Running = {} /\ Running' = {wid'} BY Zenon, <1>4, TakeQueue DEF Running
    <2>2. UNCHANGED <<registry, state, future>> /\ wid' \in Queued
      BY Zenon, <1>4, TakeQueue DEF dumpVars
    <2>3. \A j, k \in 1..Len(queue') : queue'[j] = queue'[k] => j = k
      BY <1>4, <1>t, TakeQueue DEF WorkerInv
    <2> QED BY Zenon, <1>4, <1>t, <2>1, <2>2, <2>3, TakeQueue DEF WorkerInv, Pending, Done
  <1>5. CASE Worker /\ wpc # "idle"
    <2>1. UNCHANGED <<registry, queue, Queued>> /\ wid \in Ids BY SMTT(30), <1>5, WorkerKeeps DEF Queued
    <2>2. CASE wpc = "complete"
      <3>1. Complete BY Zenon, <1>5, <2>2 DEF Worker, Take, AwaitParent, DumpCommits, DumpFails,
                         Dispose, Release
      <3>2. wpc' = "idle" /\ UNCHANGED state /\ Running' = {} /\ Running = {wid}
        BY Zenon, <3>1 DEF Complete, Running
      <3>3. \A i \in Ids : Pending(i)' <=> i \in Queued
        BY Zenon, <1>t, <2>1, <3>1, <3>2 DEF Complete, Pending, WorkerInv
      <3>4. \A i \in registry : Done(i)' =>
           state[i] = IF future'[i] = "result" THEN "DURABLE_READY" ELSE "DURABLE_FAILED"
        BY Zenon, <1>t, <2>1, <3>1 DEF Complete, Done, WorkerInv
      <3> QED BY Zenon, <1>t, <2>1, <3>2, <3>3, <3>4 DEF WorkerInv, Done
    <2>3. CASE wpc # "complete"
      <3>1. UNCHANGED <<future, wid>> /\ wpc' # "idle" /\ wpc' # "parent"
        BY Zenon, <1>5, <2>3, WorkerKeeps DEF Worker, Take, AwaitParent, DumpCommits,
           DumpFails,
           Dispose, Release, Complete
      <3>2. /\ wpc' = "dump" => state'[wid] = "DUMPING"
            /\ wpc' \in {"dispose", "release", "complete"} =>
                 state'[wid] \in {"DURABLE_READY", "DURABLE_FAILED"}
        BY Zenon, <1>5, <1>t, <2>1, <2>3 DEF Worker, Take, AwaitParent, DumpCommits, DumpFails,
           Dispose, Release, Complete, dumpVars, WorkerInv
      <3>3. \A i \in Ids \ {wid} : state'[i] = state[i] BY Zenon, <1>5, <1>t, WorkerKeeps
      <3>4. Running' = Running BY Zenon, <1>5, <3>1 DEF Running
      <3> QED
        BY SMTT(30), <1>5, <1>t, <2>1, <3>1, <3>2, <3>3, <3>4, WorkerKeeps
        DEF WorkerInv, Pending, Done
    <2> QED BY Zenon, <2>2, <2>3
  <1>6. CASE UNCHANGED <<registry, node, taken, dumpVars, workVars>>
    BY <1>6, <1>t DEF WorkerInv, dumpVars, workVars, Queued, Running, Pending, Done
  <1>7. Worker /\ wpc = "idle" => Take
    BY Zenon DEF Worker, AwaitParent, DumpCommits, DumpFails, Dispose, Release, Complete
  <1> QED BY Zenon, <1>1, <1>2, <1>3, <1>4, <1>5, <1>6, <1>7, QuietSteps DEF RegistryStep

\* A worker step between two takes leaves every link and every queue position.
LEMMA IdleTake == Worker /\ wpc = "idle" => Take
  BY Zenon DEF Worker, AwaitParent, DumpCommits, DumpFails, Dispose, Release, Complete

\* Submitted dumps and the running one are registered, and so are their parents.
LEMMA PendingRegistered ==
  ASSUME IInv
  PROVE  /\ registry \subseteq Ids
         /\ \A i \in Queued \cup Running : i \in registry /\ Pending(i)
         /\ \A i \in registry : Prev(i) = NoId \/ Prev(i) \in registry
         /\ \A i \in registry : Prev(i) # NoId => future[Prev(i)] # "none"
  <1>1. registry \subseteq Ids /\ Queued \subseteq Ids
    BY SMTT(30) DEF IInv, TypeOK, RegType, WorkType, Queued
  <1>2. \A i \in Queued : i \in registry /\ Pending(i)
    BY Zenon, <1>1 DEF IInv, WorkerInv, RegistryInv, Pending
  <1>3. \A i \in Running : i \in registry /\ Pending(i)
    BY Zenon, <1>1 DEF IInv, WorkerInv, Running
  <1>4. \A i \in registry : Prev(i) = NoId \/ Prev(i) \in registry
    BY Zenon DEF IInv, RegistryInv, Links, Prev
  <1>5. \A i \in registry : Prev(i) # NoId => future[Prev(i)] # "none"
    BY Zenon, <1>4 DEF IInv, RegistryInv
  <1> QED BY Zenon, <1>1, <1>2, <1>3, <1>4, <1>5

LEMMA OrderNext == IInv /\ [Next]_vars => OrderInv'
  <1> SUFFICES ASSUME IInv, [Next]_vars PROVE OrderInv' OBVIOUS
  <1>t. /\ OrderInv /\ registry \subseteq Ids /\ NoId \notin Ids
        /\ future \in [Ids -> {"none", "pending", "result", "exception"}]
        /\ \A k \in 1..Len(queue) : queue[k] \in registry
        /\ wpc # "idle" => wid \in registry
    BY Zenon, PendingRegistered, NoIdAssumption DEF IInv, TypeOK, DumpType, Queued, WorkerInv
  <1>1. ASSUME NEW parent \in Ids, NEW i \in Ids, Lightweight(parent, i) PROVE OrderInv'
    <2>1. /\ UNCHANGED <<queue, wpc, wid, future>>
          /\ \A j \in registry : node'[j] = node[j]
      BY Zenon, <1>1 DEF Lightweight, workVars, dumpVars, IInv, TypeOK, RegType
    <2> QED BY SMTT(30), <1>t, <2>1 DEF OrderInv, Prev, Done, Running
  <1>2. CASE Publish
    <2>1. \A j \in registry : node'[j] = node[j] /\ future'[j] = future[j]
      BY Zenon, <1>2, <1>t, PublishQueue
    <2>2. wpc # "idle" => LET p == node'[wid].prev_ckpt_id
                          IN  p = NoId \/ future'[p] \in {"result", "exception"}
      BY SMTT(30), <1>2, <1>t, <2>1, PublishQueue, PendingRegistered DEF OrderInv, Prev, Done
    <2>3. ASSUME NEW k \in 1..Len(queue)
          PROVE  LET p == node'[queue'[k]].prev_ckpt_id
                 IN  \/ p = NoId \/ future'[p] \in {"result", "exception"}
                     \/ p \in Running' \/ \E j \in 1..(k - 1) : queue'[j] = p
      <3>1. /\ queue'[k] = queue[k] /\ Running' = Running
            /\ node'[queue[k]].prev_ckpt_id = Prev(queue[k])
        BY Zenon, <1>2, <1>t, <2>1, PublishQueue DEF Prev, Running
      <3>2. Done(Prev(queue[k])) /\ Prev(queue[k]) # NoId =>
              future'[Prev(queue[k])] \in {"result", "exception"}
        BY Zenon, <1>t, <2>1, PendingRegistered DEF Done
      <3>3. \A j \in 1..(k - 1) : j \in 1..Len(queue) BY <1>2, PublishQueue
      <3> QED BY SMTT(30), <1>2, <1>t, <3>1, <3>2, <3>3, PublishQueue DEF OrderInv
    <2>4. LET p == node'[cid].prev_ckpt_id
          IN  \/ p = NoId \/ future'[p] \in {"result", "exception"} \/ p \in Running'
              \/ \E j \in 1..Len(queue) : queue'[j] = p
      <3> DEFINE p == node'[cid].prev_ckpt_id
      <3>1. p = IF cparent = NoId THEN NoId ELSE Effective(cparent)
        BY Zenon, <1>2, PublishQueue DEF Publish, Prev, IInv, TypeOK, RegType
      <3>2. CASE p = NoId BY Zenon, <3>2
      <3>3. CASE p # NoId
        <4>1. cparent \in registry BY Zenon, <3>1, <3>3 DEF IInv, TypeOK, CallType
        <4>2. p \in registry /\ future[p] # "none"
          BY Zenon, <3>1, <3>3, <4>1 DEF IInv, RegistryInv
        <4>3. Done(p) \/ p \in Queued \cup Running
          BY Zenon, <1>t, <4>2 DEF Done, Pending, IInv, WorkerInv
        <4>4. Done(p) => future'[p] \in {"result", "exception"} BY Zenon, <2>1, <4>2 DEF Done
        <4>5. p \in Queued => \E j \in 1..Len(queue) : queue'[j] = p
          BY Zenon, <1>2, PublishQueue DEF Queued
        <4>6. p \in Running => p \in Running' BY Zenon, <1>2, PublishQueue DEF Running
        <4> QED BY Zenon, <4>3, <4>4, <4>5, <4>6
      <3> QED BY Zenon, <3>2, <3>3
    <2>5. \A k \in 1..Len(queue)' : k \in 1..Len(queue) \/ k = Len(queue) + 1
      BY <1>2, PublishQueue
    <2>6. /\ queue'[Len(queue) + 1] = cid /\ (Len(queue) + 1) - 1 = Len(queue)
          /\ UNCHANGED <<wpc, wid>>
          /\ \A k \in 1..Len(queue) : queue'[k] = queue[k]
      BY SMTT(30), <1>2, PublishQueue
    <2> QED BY Zenon, <2>2, <2>3, <2>4, <2>5, <2>6 DEF OrderInv, Prev, Done, Running
  <1>3. ASSUME NEW keep \in SUBSET Ids, GC(keep) PROVE OrderInv'
    <2>1. \A i \in Queued \cup Running : i \in registry'
      <3>1. Protected \subseteq registry' BY Zenon, <1>3, GCKeeps
      <3>2. Queued \cup Running \subseteq Protected BY Zenon, PendingRegistered DEF Protected
      <3> QED BY Zenon, <3>1, <3>2
    <2>2. \A i \in Queued \cup Running :
            /\ node'[i] = node[i]
            /\ Prev(i) # NoId => future'[Prev(i)] = future[Prev(i)]
      BY Zenon, <1>3, <1>t, <2>1, GCKeeps DEF Prev, Links
    <2>3. wpc # "idle" => wid \in Running BY Zenon DEF Running
    <2> QED
      BY SMTT(30), <1>3, <1>t, <2>2, <2>3, GCKeeps DEF OrderInv, Prev, Done, Running, Queued
  <1>4. CASE Take
    <2>1. UNCHANGED <<node, future>> BY Zenon, <1>4, TakeQueue DEF dumpVars
    <2>2. Running = {} /\ Running' = {wid'} BY Zenon, <1>4, TakeQueue DEF Running
    <2>3. Prev(wid') = NoId \/ Done(Prev(wid'))
      <3>1. wid' = queue[1] /\ 1 \in 1..Len(queue) BY Zenon, <1>4, TakeQueue
      <3>2. \A j \in 1..(1 - 1) : FALSE OBVIOUS
      <3> QED BY Zenon, <1>t, <2>2, <3>1, <3>2 DEF OrderInv
    <2>4. ASSUME NEW k \in 1..Len(queue')
          PROVE  LET p == node[queue'[k]].prev_ckpt_id
                 IN  \/ p = NoId \/ Done(p) \/ p \in Running'
                     \/ \E j \in 1..(k - 1) : queue'[j] = p
      <3> DEFINE p == node[queue'[k]].prev_ckpt_id
      <3>1. k + 1 \in 1..Len(queue) /\ queue'[k] = queue[k + 1] /\ k \in Nat
        BY SMTT(30), <1>4, TakeQueue
      <3>2. p = NoId \/ Done(p) \/ \E j \in 1..((k + 1) - 1) : queue[j] = p
        BY Zenon, <1>t, <2>2, <3>1 DEF OrderInv, Prev
      <3>3. ASSUME NEW j \in 1..((k + 1) - 1), queue[j] = p
            PROVE  p \in Running' \/ \E l \in 1..(k - 1) : queue'[l] = p
        <4>1. CASE j = 1 BY Zenon, <1>4, <2>2, <3>3, <4>1, TakeQueue
        <4>2. CASE j # 1
          <5>1. j - 1 \in 1..(k - 1) /\ j - 1 \in 1..Len(queue') /\ (j - 1) + 1 = j
            BY <1>4, <3>1, <4>2, TakeQueue
          <5>2. queue'[j - 1] = queue[j] BY Zenon, <1>4, <5>1, TakeQueue
          <5> QED BY Zenon, <3>3, <5>1, <5>2
        <4> QED BY Zenon, <4>1, <4>2
      <3> QED BY Zenon, <3>2, <3>3
    <2> QED BY Zenon, <2>1, <2>3, <2>4 DEF OrderInv, Prev, Done
  <1>5. CASE Worker /\ wpc # "idle"
    <2>1. UNCHANGED <<node, queue>> /\ wid \in registry BY Zenon, <1>5, WorkerKeeps
    <2>2. CASE wpc = "complete"
      <3>1. Complete BY Zenon, <1>5, <2>2 DEF Worker, Take, AwaitParent, DumpCommits, DumpFails,
                         Dispose, Release
      <3>2. wpc' = "idle" /\ Running = {wid} /\ future'[wid] \in {"result", "exception"}
        BY Zenon, <1>t, <2>1, <3>1 DEF Complete, Running, Done
      <3>3. \A i \in Ids : Done(i) => future'[i] \in {"result", "exception"}
        BY Zenon, <1>t, <2>1, <3>1 DEF Complete, Done
      <3>4. \A k \in 1..Len(queue) : Prev(queue[k]) = NoId \/ Prev(queue[k]) \in Ids
        BY Zenon, <1>t, PendingRegistered
      <3> QED BY Zenon, <1>t, <2>1, <3>2, <3>3, <3>4 DEF OrderInv, Prev, Done
    <2>3. CASE wpc # "complete"
      <3>1. UNCHANGED <<future, wid>> BY Zenon, <1>5, <2>3, WorkerKeeps
      <3>2. wpc' \in {"parent", "dump", "dispose", "release", "complete"}
        BY Zenon, <1>5, <2>3 DEF Worker, Take, AwaitParent, DumpCommits, DumpFails, Dispose, Release,
           Complete
      <3>3. Running' = Running /\ wpc' # "idle" BY Zenon, <1>5, <3>1, <3>2 DEF Running
      <3> QED BY Zenon, <1>5, <1>t, <2>1, <3>1, <3>3 DEF OrderInv, Prev, Done
    <2> QED BY Zenon, <2>2, <2>3
  <1>6. CASE UNCHANGED <<registry, node, taken, dumpVars, workVars>>
    BY Zenon, <1>6, <1>t DEF OrderInv, dumpVars, workVars, Prev, Done, Running
  <1> QED BY Zenon, <1>1, <1>2, <1>3, <1>4, <1>5, <1>6, IdleTake, QuietSteps DEF RegistryStep

LEMMA ImageNext == IInv /\ [Next]_vars => ImageInv'
  <1> SUFFICES ASSUME IInv, [Next]_vars PROVE ImageInv' OBVIOUS
  <1>t. /\ ImageInv /\ registry \subseteq Ids /\ NoId \notin Ids
        /\ future \in [Ids -> {"none", "pending", "result", "exception"}]
        /\ state \in [Ids -> {"none", "WARM_READY", "DUMPING", "DURABLE_READY",
                              "DURABLE_FAILED"}]
        /\ image \in [Ids -> Contents \cup {Gone}]
        /\ \A i \in registry : Prev(i) = NoId \/ Prev(i) \in registry
    BY Zenon, PendingRegistered, NoIdAssumption DEF IInv, TypeOK, DumpType
  <1>1. ASSUME NEW parent \in Ids, NEW i \in Ids, Lightweight(parent, i) PROVE ImageInv'
    <2>1. /\ UNCHANGED <<state, future, image, taken>> /\ registry' = registry \cup {i}
          /\ \A j \in registry : node'[j] = node[j]
          /\ i \in Ids \ registry
      BY Zenon, <1>1 DEF Lightweight, dumpVars, IInv, TypeOK, RegType
    <2>2. state[i] = "none" BY Zenon, <2>1 DEF IInv, RegistryInv
    <2> QED BY SMTT(30), <1>t, <2>1, <2>2 DEF ImageInv, Prev
  <1>2. CASE Publish
    <2>1. image' = image BY Zenon, <1>2 DEF Publish
    <2> QED BY <1>2, <1>t, <2>1, PublishQueue DEF ImageInv, Prev
  <1>3. ASSUME NEW keep \in SUBSET Ids, GC(keep) PROVE ImageInv'
    <2>1. \A i \in registry' :
            /\ i \in registry /\ node'[i] = node[i] /\ state'[i] = state[i]
            /\ image'[i] = image[i] /\ taken'[i] = taken[i]
            /\ Prev(i) # NoId => future'[Prev(i)] = future[Prev(i)]
      BY Zenon, <1>3, <1>t, GCKeeps DEF Links, Prev
    <2> QED BY SMTT(30), <1>t, <2>1 DEF ImageInv, Prev
  <1>4. CASE Take
    BY SMTT(30), <1>4, <1>t, TakeQueue DEF dumpVars, ImageInv, Prev
  <1>5. CASE Worker /\ wpc # "idle"
    <2>1. /\ wid \in registry /\ Pending(wid) /\ UNCHANGED <<registry, node, taken>>
          /\ \A i \in Ids \ {wid} : state'[i] = state[i] /\ future'[i] = future[i]
          /\ wpc # "complete" => future' = future
      BY Zenon, <1>5, <1>t, WorkerKeeps
    <2>2. CASE AwaitParent
      <3>1. state'[wid] = "DUMPING" => Prev(wid) = NoId \/ future[Prev(wid)] = "result"
        BY Zenon, <1>t, <2>1, <2>2 DEF AwaitParent, IInv, WorkerInv, Done
      <3>2. state'[wid] # "DURABLE_READY" /\ UNCHANGED <<image, future>>
        BY Zenon, <1>t, <2>1, <2>2 DEF AwaitParent
      <3> QED BY Zenon, <1>t, <2>1, <3>1, <3>2 DEF ImageInv, Prev
    <2>3. CASE DumpCommits
      <3>1. writer[wid] = taken[wid]
        BY Zenon, <2>3 DEF DumpCommits, IInv, WriterInv, WriterUntouched, Dumping
      <3>2. state[wid] = "DUMPING" BY Zenon, <2>3 DEF DumpCommits, IInv, WorkerInv
      <3>3. /\ image'[wid] = taken[wid] /\ UNCHANGED future
            /\ \A i \in Ids \ {wid} : image'[i] = image[i]
        BY Zenon, <1>t, <2>1, <2>3, <3>1 DEF DumpCommits
      <3> QED BY SMTT(30), <1>t, <2>1, <3>2, <3>3 DEF ImageInv, Prev
    <2>4. CASE DumpFails \/ \E exited \in BOOLEAN : Dispose(exited)
      <3>1. UNCHANGED <<image, future>> /\ state'[wid] \in {state[wid], "DURABLE_FAILED"}
        BY Zenon, <1>t, <2>1, <2>4 DEF DumpFails, Dispose
      <3> QED BY Zenon, <1>t, <2>1, <3>1 DEF ImageInv, Prev
    <2>5. CASE Release BY Zenon, <1>t, <2>5 DEF Release, regVars, dumpVars, ImageInv, Prev
    <2>6. CASE Complete
      <3>1. UNCHANGED <<image, state>> BY Zenon, <2>6 DEF Complete
      <3>2. \A i \in Ids : future[i] = "result" => future'[i] = "result"
        BY Zenon, <2>1 DEF Pending
      <3> QED BY Zenon, <1>t, <2>1, <3>1, <3>2 DEF ImageInv, Prev
    <2> QED BY Zenon, <1>5, <2>2, <2>3, <2>4, <2>5, <2>6 DEF Worker, Take
  <1>6. CASE UNCHANGED <<registry, node, taken, dumpVars, workVars>>
    BY Zenon, <1>6, <1>t DEF ImageInv, dumpVars, Prev
  <1> QED BY Zenon, <1>1, <1>2, <1>3, <1>4, <1>5, <1>6, IdleTake, QuietSteps DEF RegistryStep
=============================================================================
