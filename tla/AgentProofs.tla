----------------------------- MODULE AgentProofs -----------------------------
(***************************************************************************)
(* Proofs about module Agent, for every value of its constants.            *)
(***************************************************************************)
EXTENDS Agent, FiniteSetTheorems, TLAPS

-----------------------------------------------------------------------------
(***************************************************************************)
(* Type correctness is not inductive by itself: that a handler's request   *)
(* and the pod it located are values and not Nil, that its index stays     *)
(* inside the annotation, and that the collector has a line in hand when   *)
(* it deletes links, depends on where they are in their code.              *)
(***************************************************************************)
Looping == {"stat", "sym", "ctl", "load", "save", "undo", "undoctl"}

HandlerOK(h) ==
    /\ pc[h] # "idle" => want[h] \in Claims /\ list[h] \in Lists
    /\ pc[h] \in Looping \cup {"getpod", "lock"} => at[h] \in Pods \X Containers
    /\ pc[h] \in {"idle", "locate", "getpod", "lock"} => idx[h] = 1
    /\ pc[h] = "lock" => Len(val[h]) >= 1
    /\ Len(val[h]) <= MaxLinks
    /\ pc[h] \in Looping => /\ idx[h] <= Len(val[h])
                            /\ \A i \in 1 .. Len(val[h]) : val[h][i] \in GPUs
    /\ h \in awaited => pc[h] # "idle"

HandlerInv == \A h \in Handlers : HandlerOK(h)

CollectorInv == gcpc \in {"sym", "ctl", "record"} => line \in Lines

TypeInv == TypeOK /\ HandlerInv /\ CollectorInv

-----------------------------------------------------------------------------
(***************************************************************************)
(* The collector never counts past the bound on links.                     *)
(***************************************************************************)
LEMMA LastLinkBound == \A d \in Devices : LastLink(d) <= MaxLinks - 1
<1> SUFFICES ASSUME NEW d \in Devices PROVE LastLink(d) <= MaxLinks - 1
    OBVIOUS
<1>1. d.list \in Lists
    BY DEF Devices
<1>2. Cardinality(d.list) \in Nat
    BY <1>1, ListsAssumption, FS_CardinalityType
<1>3. Cardinality(d.list) \div Percent <= MaxLinks
    BY <1>1, BoundsAssumption
<1>4. Cardinality(d.list) \div Percent \in Int
    BY <1>2, BoundsAssumption
<1> QED
    BY <1>3, <1>4, BoundsAssumption DEF LastLink

LEMMA ClaimParts ==
    \A cl \in Claims : /\ <<cl[1], cl[2]>> \in Pods \X Containers
                       /\ <<cl[1], cl[2]>> \in PodContainers
                       /\ cl[3] \in Resources
                       /\ cl = <<cl[1], cl[2], cl[3]>>
BY ClaimsAssumption DEF PodContainers

LEMMA InitTypes == Init => TypeInv
<1> SUFFICES ASSUME Init PROVE TypeInv
    OBVIOUS
<1>1. OperatorTypeOK /\ StorageTypeOK /\ SitterTypeOK
    BY DEF Init, OperatorInit, OperatorTypeOK, StorageInit, StorageTypeOK,
           PodInfos, NewPI, SitterInit, SitterTypeOK
<1>2. KubeletTypeOK
    BY DEF Init, KubeletInit, KubeletTypeOK
<1>3. PreStartTypeOK
    BY BoundsAssumption DEF Init, PreStartInit, PreStartTypeOK, Steps, PodInfos, NewPI
<1>4. GCTypeOK /\ up \in BOOLEAN
    BY BoundsAssumption DEF Init, GCInit, GCTypeOK
<1>5. HandlerInv
    BY BoundsAssumption DEF Init, PreStartInit, HandlerInv, HandlerOK, Looping
<1>6. CollectorInv
    BY DEF Init, GCInit, CollectorInv
<1> QED
    BY <1>1, <1>2, <1>3, <1>4, <1>5, <1>6 DEF TypeInv, TypeOK

-----------------------------------------------------------------------------
(***************************************************************************)
(* Steps of the kubelet, the API server and the informer leave the agent's *)
(* own state alone.                                                        *)
(***************************************************************************)
LEMMA AgentFrame ==
    ASSUME TypeInv, UNCHANGED agentVars
    PROVE  /\ OperatorTypeOK' /\ StorageTypeOK' /\ PreStartTypeOK' /\ GCTypeOK'
           /\ up' \in BOOLEAN /\ HandlerInv' /\ CollectorInv'
<1>1. OperatorTypeOK' /\ StorageTypeOK'
    BY DEF TypeInv, TypeOK, agentVars, operatorVars, OperatorTypeOK,
           StorageTypeOK
<1>2. PreStartTypeOK'
    BY DEF TypeInv, TypeOK, agentVars, preStartVars, PreStartTypeOK
<1>3. GCTypeOK' /\ up' \in BOOLEAN /\ CollectorInv'
    BY DEF TypeInv, TypeOK, agentVars, gcVars, GCTypeOK, CollectorInv
<1>4. HandlerInv'
    BY DEF TypeInv, agentVars, preStartVars, HandlerInv, HandlerOK
<1> QED
    BY <1>1, <1>2, <1>3, <1>4

LEMMA EnvironmentTypes ==
    ASSUME TypeInv,
           \/ \E p \in Pods : \/ \E a \in Annotations : Schedule(p, a)
                              \/ StopPod(p) \/ RemovePod(p) \/ InformerDeliver(p)
           \/ \E cl \in Claims, l \in Lists : Admit(cl, l)
           \/ \E ct \in PodContainers : StartContainer(ct) \/ StopContainer(ct)
    PROVE  TypeInv'
<1> USE DEF TypeInv, TypeOK, SitterTypeOK, KubeletTypeOK, sitterVars, kubeletVars
<1>1. ASSUME NEW p \in Pods, NEW a \in Annotations, Schedule(p, a)
      PROVE  TypeInv'
    BY <1>1, AgentFrame DEF Schedule, PodCreated
<1>2. ASSUME NEW p \in Pods, StopPod(p)
      PROVE  TypeInv'
    BY <1>2, AgentFrame DEF StopPod, Terminate
<1>3. ASSUME NEW p \in Pods, RemovePod(p)
      PROVE  TypeInv'
    BY <1>3, AgentFrame DEF RemovePod, ApiDelete
<1>4. ASSUME NEW p \in Pods, InformerDeliver(p)
      PROVE  TypeInv'
    BY <1>4, AgentFrame DEF InformerDeliver, Deliver, ApiObject
<1>5. ASSUME NEW cl \in Claims, NEW l \in Lists, Admit(cl, l)
      PROVE  TypeInv'
    BY <1>5, AgentFrame DEF Admit, Allocate
<1>6. ASSUME NEW ct \in PodContainers, StopContainer(ct)
      PROVE  TypeInv'
    BY <1>6, AgentFrame DEF StopContainer, ContainerExit
<1>7. ASSUME NEW ct \in PodContainers, StartContainer(ct)
      PROVE  TypeInv'
  <2>1. CASE CreateContainer(ct)
    BY <1>7, <2>1, AgentFrame DEF StartContainer, CreateContainer
  <2>2. CASE HookReadDir(ct)
    <3>1. \A h : FindGPUIndexes(h) \in SUBSET LinkIDs
      BY DEF FindGPUIndexes, LinksOf
    <3> QED
      BY <1>7, <2>2, <3>1, AgentFrame DEF StartContainer, HookReadDir
  <2>3. CASE HookReadLink(ct)
    <3>1. ASSUME NEW id \in names[ct], sym[id] # Nil
          PROVE  sym[id] \in GPUs
      BY <3>1 DEF OperatorTypeOK
    <3> QED
      BY <1>7, <2>3, <3>1, AgentFrame DEF StartContainer, HookReadLink, HookExits
  <2>4. CASE HookToolkit(ct)
    BY <1>7, <2>4, AgentFrame DEF StartContainer, HookToolkit
  <2>5. CASE HookFails(ct)
    BY <1>7, <2>5, AgentFrame DEF StartContainer, HookFails, HookExits
  <2> QED
    BY <1>7, <2>1, <2>2, <2>3, <2>4, <2>5 DEF StartContainer
<1> QED
    BY <1>1, <1>2, <1>3, <1>4, <1>5, <1>6, <1>7

-----------------------------------------------------------------------------
(***************************************************************************)
(* Steps of PreStartContainer. Each step is of one handler; what the       *)
(* invariant says of the others is untouched.                              *)
(***************************************************************************)
outsideHandler == <<sitterVars, gcVars, up>>

LEMMA OthersFrame ==
    ASSUME NEW h \in Handlers, NEW g \in Handlers, g # h, HandlerOK(g),
           pc'[g] = pc[g], want'[g] = want[g], list'[g] = list[g],
           at'[g] = at[g], val'[g] = val[g], idx'[g] = idx[g],
           g \in awaited' => g \in awaited
    PROVE  HandlerOK(g)'
BY DEF HandlerOK

LEMMA HandlerFrame ==
    ASSUME TypeInv, UNCHANGED outsideHandler,
           OperatorTypeOK', StorageTypeOK', KubeletTypeOK', PreStartTypeOK',
           HandlerInv'
    PROVE  TypeInv'
BY DEF TypeInv, TypeOK, outsideHandler, sitterVars, gcVars, SitterTypeOK,
       GCTypeOK, CollectorInv

LEMMA CallTypes ==
    ASSUME TypeInv, NEW h \in Handlers, NEW cl \in Claims, Call(h, cl)
    PROVE  TypeInv'
<1> USE DEF TypeInv, TypeOK, Call, PreStartContainer, Goto
<1>1. OperatorTypeOK' /\ StorageTypeOK' /\ KubeletTypeOK'
    BY DEF operatorVars, OperatorTypeOK, StorageTypeOK, kubeletVars,
           KubeletTypeOK
<1>2. PreStartTypeOK'
    BY DEF PreStartTypeOK, Steps, KubeletTypeOK
<1>3. HandlerOK(h)'
    BY DEF PreStartTypeOK, KubeletTypeOK, HandlerInv, HandlerOK, Looping
<1>4. \A g \in Handlers : g # h => HandlerOK(g)'
    BY OthersFrame DEF PreStartTypeOK, HandlerInv
<1> QED
    BY <1>1, <1>2, <1>3, <1>4, HandlerFrame DEF HandlerInv, outsideHandler

LEMMA GiveUpTypes ==
    ASSUME TypeInv, NEW h \in Handlers, GiveUp(h)
    PROVE  TypeInv'
<1> USE DEF TypeInv, TypeOK, GiveUp, KubeletTimeout
<1>1. OperatorTypeOK' /\ StorageTypeOK' /\ KubeletTypeOK' /\ PreStartTypeOK'
    BY DEF operatorVars, OperatorTypeOK, StorageTypeOK, kubeletVars,
           KubeletTypeOK, PreStartTypeOK
<1>2. HandlerInv'
    BY DEF HandlerInv, HandlerOK
<1> QED
    BY <1>1, <1>2, HandlerFrame DEF outsideHandler

LEMMA LookupTypes ==
    ASSUME TypeInv, NEW h \in Handlers, UNCHANGED <<gcVars, up>>,
           Locate(h) \/ ReadAnnotation(h) \/ Lock(h)
    PROVE  TypeInv'
<1> USE DEF TypeInv, TypeOK, Goto
<1>1. OperatorTypeOK' /\ StorageTypeOK' /\ KubeletTypeOK'
    BY DEF operatorVars, OperatorTypeOK, StorageTypeOK, kubeletVars,
           KubeletTypeOK, Locate, ReadAnnotation, Lock
<1>2. CASE Locate(h)
  <2>1. PreStartTypeOK'
    <3>1. CASE /\ Goto(h, "fail")
               /\ UNCHANGED at
      BY <1>2, <3>1 DEF Locate, PreStartTypeOK, Steps
    <3>2. ASSUME NEW cl \in Claims, Goto(h, "getpod"),
                 at' = [at EXCEPT ![h] = <<cl[1], cl[2]>>]
          PROVE  PreStartTypeOK'
      BY <1>2, <3>2, ClaimParts DEF Locate, PreStartTypeOK, Steps
    <3> QED
      BY <1>2, <3>1, <3>2 DEF Locate, Holders
  <2>2. HandlerOK(h)'
    BY <1>2, ClaimParts
       DEF Locate, Holders, PreStartTypeOK, HandlerInv, HandlerOK, Looping
  <2>3. \A g \in Handlers : g # h => HandlerOK(g)'
    BY <1>2, OthersFrame DEF Locate, PreStartTypeOK, HandlerInv
  <2> QED
    BY <1>1, <1>2, <2>1, <2>2, <2>3, HandlerFrame
       DEF Locate, HandlerInv, outsideHandler
<1>3. CASE ReadAnnotation(h)
  <2>1. /\ at[h] \in Pods \X Containers
        /\ pc[h] = "getpod"
    BY <1>3 DEF ReadAnnotation, HandlerInv, HandlerOK
  <2>2. ASSUME cache[at[h][1]] # Nil
        PROVE  /\ cache[at[h][1]][at[h][2]] \in Seq(GPUs \cup {Bad})
               /\ Len(cache[at[h][1]][at[h][2]]) <= MaxLinks
    BY <2>1, <2>2, AnnotationsAssumption DEF SitterTypeOK
  <2>3. PreStartTypeOK'
    BY <1>3, <2>1, <2>2
       DEF ReadAnnotation, ContainerAnnotation, GetPod, PreStartTypeOK, Steps
  <2>4. HandlerOK(h)'
    BY <1>3, <2>1, <2>2
       DEF ReadAnnotation, ContainerAnnotation, GetPod, PreStartTypeOK,
           HandlerInv, HandlerOK, Looping
  <2>5. \A g \in Handlers : g # h => HandlerOK(g)'
    BY <1>3, OthersFrame DEF ReadAnnotation, PreStartTypeOK, HandlerInv
  <2> QED
    BY <1>1, <1>3, <2>3, <2>4, <2>5, HandlerFrame
       DEF ReadAnnotation, HandlerInv, outsideHandler
<1>4. CASE Lock(h)
  <2>1. PreStartTypeOK'
    BY <1>4 DEF Lock, PreStartTypeOK, Steps
  <2>2. HandlerOK(h)'
    BY <1>4 DEF Lock, Parses, PreStartTypeOK, HandlerInv, HandlerOK, Looping
  <2>3. \A g \in Handlers : g # h => HandlerOK(g)'
    BY <1>4, OthersFrame DEF Lock, PreStartTypeOK, HandlerInv
  <2> QED
    BY <1>1, <1>4, <2>1, <2>2, <2>3, HandlerFrame
       DEF Lock, HandlerInv, outsideHandler
<1> QED
    BY <1>2, <1>3, <1>4

LEMMA AdvanceIdx ==
    ASSUME PreStartTypeOK, NEW h \in Handlers,
           Len(val[h]) \in Nat, Len(val[h]) <= MaxLinks,
           NEW again, NEW after, Advance(h, again, after)
    PROVE  idx' \in [Handlers -> 1 .. MaxLinks]
<1>1. idx[h] \in 1 .. MaxLinks /\ MaxLinks \in Nat \ {0}
    BY BoundsAssumption DEF PreStartTypeOK
<1>2. idx[h] < Len(val[h]) => idx[h] + 1 \in 1 .. MaxLinks
    BY <1>1
<1>3. 1 \in 1 .. MaxLinks
    BY <1>1
<1> QED
    BY <1>2, <1>3 DEF Advance, PreStartTypeOK

LEMMA CreateTypes ==
    ASSUME TypeInv, NEW h \in Handlers, UNCHANGED <<gcVars, up>>,
           CreateStat(h) \/ CreateSym(h) \/ CreateCtl(h)
    PROVE  TypeInv'
<1> USE DEF TypeInv, TypeOK, Goto
<1>1. StorageTypeOK' /\ KubeletTypeOK'
    BY DEF StorageTypeOK, kubeletVars, KubeletTypeOK, CreateStat, CreateSym,
           CreateCtl
<1>2. /\ idx[h] \in 1 .. Len(val[h])
      /\ Len(val[h]) \in Nat
      /\ Len(val[h]) <= MaxLinks
      /\ val[h][idx[h]] \in GPUs
    BY DEF CreateStat, CreateSym, CreateCtl, HandlerInv, HandlerOK, Looping,
           PreStartTypeOK
<1>3. LinkOf(h) \in LinkIDs
    BY <1>2, HashAssumption, BoundsAssumption
       DEF LinkOf, LinkIDs, CreateStat, CreateSym, CreateCtl, HandlerInv,
           HandlerOK, PreStartTypeOK
<1>4. OperatorTypeOK'
    BY <1>2, <1>3
       DEF OperatorTypeOK, operatorVars, CreateStat, CreateSym, CreateCtl,
           Symlink, SymlinkCtl
<1>5. CASE CreateStat(h)
  <2>1. PreStartTypeOK'
    <3>1. idx' \in [Handlers -> 1 .. MaxLinks]
      BY <1>2, <1>5, AdvanceIdx DEF CreateStat, PreStartTypeOK
    <3> QED
      BY <1>5, <3>1 DEF CreateStat, Advance, PreStartTypeOK, Steps
  <2>2. HandlerOK(h)'
    BY <1>2, <1>5
       DEF CreateStat, Advance, PreStartTypeOK, HandlerInv, HandlerOK, Looping
  <2>3. \A g \in Handlers : g # h => HandlerOK(g)'
    BY <1>5, OthersFrame DEF CreateStat, Advance, PreStartTypeOK, HandlerInv
  <2> QED
    BY <1>1, <1>4, <1>5, <2>1, <2>2, <2>3, HandlerFrame
       DEF CreateStat, HandlerInv, outsideHandler
<1>6. CASE CreateSym(h)
  <2>1. PreStartTypeOK'
    BY <1>6 DEF CreateSym, PreStartTypeOK, Steps
  <2>2. HandlerOK(h)'
    BY <1>6
       DEF CreateSym, PreStartTypeOK, HandlerInv, HandlerOK, Looping
  <2>3. \A g \in Handlers : g # h => HandlerOK(g)'
    BY <1>6, OthersFrame DEF CreateSym, PreStartTypeOK, HandlerInv
  <2> QED
    BY <1>1, <1>4, <1>6, <2>1, <2>2, <2>3, HandlerFrame
       DEF CreateSym, HandlerInv, outsideHandler
<1>7. CASE CreateCtl(h)
  <2>1. PreStartTypeOK'
    <3>1. idx' \in [Handlers -> 1 .. MaxLinks]
      BY <1>2, <1>7, AdvanceIdx DEF CreateCtl, PreStartTypeOK
    <3> QED
      BY <1>7, <3>1 DEF CreateCtl, Advance, PreStartTypeOK, Steps
  <2>2. HandlerOK(h)'
    BY <1>2, <1>7
       DEF CreateCtl, Advance, PreStartTypeOK, HandlerInv, HandlerOK, Looping
  <2>3. \A g \in Handlers : g # h => HandlerOK(g)'
    BY <1>7, OthersFrame DEF CreateCtl, Advance, PreStartTypeOK, HandlerInv
  <2> QED
    BY <1>1, <1>4, <1>7, <2>1, <2>2, <2>3, HandlerFrame
       DEF CreateCtl, HandlerInv, outsideHandler
<1> QED
    BY <1>5, <1>6, <1>7

LEMMA RecordTypes ==
    ASSUME TypeInv, NEW h \in Handlers, UNCHANGED <<gcVars, up>>,
           LoadRecord(h) \/ SaveRecord(h)
    PROVE  TypeInv'
<1> USE DEF TypeInv, TypeOK, Goto
<1>1. OperatorTypeOK' /\ KubeletTypeOK'
    BY DEF operatorVars, OperatorTypeOK, kubeletVars, KubeletTypeOK,
           LoadRecord, SaveRecord
<1>2. /\ at[h] \in Pods \X Containers
      /\ want[h] \in Claims
      /\ list[h] \in Lists
    BY DEF LoadRecord, SaveRecord, HandlerInv, HandlerOK, Looping
<1>3. NewDevice(list[h], want[h][3]) \in Devices
    BY <1>2, HashAssumption, ClaimParts DEF NewDevice, Devices
<1>4. CASE LoadRecord(h)
  <2>1. [db[at[h][1]] EXCEPT ![at[h][2]] = NewDevice(list[h], want[h][3])]
            \in PodInfos
    BY <1>2, <1>3 DEF StorageTypeOK, PodInfos
  <2>2. PreStartTypeOK' /\ StorageTypeOK'
    BY <1>4, <2>1
       DEF LoadRecord, LoadOrCreate, PreStartTypeOK, Steps, StorageTypeOK
  <2>3. HandlerOK(h)'
    BY <1>4
       DEF LoadRecord, PreStartTypeOK, HandlerInv, HandlerOK, Looping
  <2>4. \A g \in Handlers : g # h => HandlerOK(g)'
    BY <1>4, OthersFrame DEF LoadRecord, PreStartTypeOK, HandlerInv
  <2> QED
    BY <1>1, <1>4, <2>2, <2>3, <2>4, HandlerFrame
       DEF LoadRecord, HandlerInv, outsideHandler
<1>5. CASE SaveRecord(h)
  <2>1. StorageTypeOK'
    BY <1>2, <1>5 DEF SaveRecord, Save, StorageTypeOK, PreStartTypeOK
  <2>2. PreStartTypeOK'
    BY <1>5 DEF SaveRecord, PreStartTypeOK, Steps
  <2>3. HandlerOK(h)'
    BY <1>5
       DEF SaveRecord, PreStartTypeOK, HandlerInv, HandlerOK, Looping
  <2>4. \A g \in Handlers : g # h => HandlerOK(g)'
    BY <1>5, OthersFrame DEF SaveRecord, PreStartTypeOK, HandlerInv
  <2> QED
    BY <1>1, <1>5, <2>1, <2>2, <2>3, <2>4, HandlerFrame
       DEF SaveRecord, HandlerInv, outsideHandler
<1> QED
    BY <1>4, <1>5

LEMMA UndoTypes ==
    ASSUME TypeInv, NEW h \in Handlers, UNCHANGED <<gcVars, up>>,
           UndoSym(h) \/ UndoCtl(h)
    PROVE  TypeInv'
<1> USE DEF TypeInv, TypeOK, Goto
<1>1. StorageTypeOK' /\ KubeletTypeOK'
    BY DEF StorageTypeOK, kubeletVars, KubeletTypeOK, UndoSym, UndoCtl
<1>2. /\ idx[h] \in 1 .. Len(val[h])
      /\ Len(val[h]) \in Nat
      /\ Len(val[h]) <= MaxLinks
    BY DEF UndoSym, UndoCtl, HandlerInv, HandlerOK, Looping, PreStartTypeOK
<1>3. OperatorTypeOK'
    BY DEF OperatorTypeOK, operatorVars, UndoSym, UndoCtl, RemoveSym, RemoveCtl
<1>4. PreStartTypeOK'
  <2>1. idx' \in [Handlers -> 1 .. MaxLinks]
    BY <1>2, AdvanceIdx DEF UndoSym, UndoCtl, PreStartTypeOK
  <2> QED
    BY <2>1 DEF UndoSym, UndoCtl, Advance, PreStartTypeOK, Steps
<1>5. HandlerOK(h)'
    BY <1>2
       DEF UndoSym, UndoCtl, Advance, PreStartTypeOK, HandlerInv, HandlerOK,
           Looping
<1>6. \A g \in Handlers : g # h => HandlerOK(g)'
    BY OthersFrame DEF UndoSym, UndoCtl, Advance, PreStartTypeOK, HandlerInv
<1> QED
    BY <1>1, <1>3, <1>4, <1>5, <1>6, HandlerFrame
       DEF UndoSym, UndoCtl, HandlerInv, outsideHandler

LEMMA ReturnTypes ==
    ASSUME TypeInv, NEW h \in Handlers, UNCHANGED <<gcVars, up>>, Return(h)
    PROVE  TypeInv'
<1> USE DEF TypeInv, TypeOK, Goto, Return
<1>1. OperatorTypeOK' /\ StorageTypeOK'
    BY DEF operatorVars, OperatorTypeOK, StorageTypeOK
<1>2. KubeletTypeOK'
    BY DEF KubeletTypeOK, HandlerInv, HandlerOK
<1>3. NewPI \in PodInfos
    BY DEF NewPI, PodInfos
<1>4. PreStartTypeOK'
    BY <1>3, BoundsAssumption DEF PreStartTypeOK, Steps
<1>5. HandlerOK(h)'
    BY BoundsAssumption DEF PreStartTypeOK, HandlerOK, Looping
<1>6. \A g \in Handlers : g # h => HandlerOK(g)'
    BY OthersFrame DEF PreStartTypeOK, HandlerInv
<1> QED
    BY <1>1, <1>2, <1>4, <1>5, <1>6, HandlerFrame DEF HandlerInv, outsideHandler

-----------------------------------------------------------------------------
(***************************************************************************)
(* Steps of the collector, the crash and the start.                        *)
(***************************************************************************)
LEMMA CollectorFrame ==
    ASSUME TypeInv, UNCHANGED <<outsideGC, up>>,
           OperatorTypeOK', StorageTypeOK', GCTypeOK', CollectorInv'
    PROVE  TypeInv'
<1>1. SitterTypeOK' /\ KubeletTypeOK'
    BY DEF TypeInv, TypeOK, outsideGC, sitterVars, kubeletVars, SitterTypeOK,
           KubeletTypeOK
<1>2. PreStartTypeOK' /\ HandlerInv'
    BY DEF TypeInv, TypeOK, outsideGC, preStartVars, PreStartTypeOK,
           HandlerInv, HandlerOK
<1> QED
    BY <1>1, <1>2 DEF TypeInv, TypeOK

LEMMA ScanTypes ==
    ASSUME TypeInv, UNCHANGED up, GCStart \/ GCScan \/ GCAsk \/ GCNext
    PROVE  TypeInv'
<1> USE DEF TypeInv, TypeOK
<1>1. OperatorTypeOK' /\ StorageTypeOK'
    BY DEF GCStart, GCScan, GCAsk, GCNext, operatorVars, OperatorTypeOK,
           StorageTypeOK
<1>2. ForEach \subseteq Lines
    BY DEF ForEach, Lines, StorageTypeOK, PodInfos
<1>3. GCTypeOK' /\ CollectorInv'
  <2>1. CASE GCStart
    BY <1>2, <2>1 DEF GCStart, GCTypeOK, CollectorInv
  <2>2. CASE GCScan
    BY <2>2 DEF GCScan, GCTypeOK, CollectorInv
  <2>3. CASE GCAsk
    BY <2>3 DEF GCAsk, LinesOf, GCTypeOK, CollectorInv
  <2>4. CASE GCNext
    BY <2>4, BoundsAssumption DEF GCNext, LinesOf, GCTypeOK, CollectorInv
  <2> QED
    BY <2>1, <2>2, <2>3, <2>4
<1> QED
    BY <1>1, <1>3, CollectorFrame DEF GCStart, GCScan, GCAsk, GCNext

LEMMA DeleteTypes ==
    ASSUME TypeInv, UNCHANGED up, GCRemoveSym \/ GCRemoveCtl \/ GCDeleteRecord
    PROVE  TypeInv'
<1> USE DEF TypeInv, TypeOK
<1>1. line \in Lines
    BY DEF GCRemoveSym, GCRemoveCtl, GCDeleteRecord, CollectorInv
<1>2. line.dev \in Devices
    BY <1>1 DEF Lines
<1>3. OperatorTypeOK'
    BY DEF GCRemoveSym, GCRemoveCtl, GCDeleteRecord, operatorVars,
           OperatorTypeOK, RemoveSym, RemoveCtl
<1>4. StorageTypeOK'
    BY DEF GCRemoveSym, GCRemoveCtl, GCDeleteRecord, DeleteRecord,
           StorageTypeOK, PodInfos, NewPI
<1>5. GCTypeOK' /\ CollectorInv'
  <2>1. CASE GCRemoveSym
    BY <2>1, BoundsAssumption DEF GCRemoveSym, GCError, GCTypeOK, CollectorInv
  <2>2. CASE GCRemoveCtl
    <3>1. gci \in 0 .. MaxLinks - 1 /\ LastLink(line.dev) <= MaxLinks - 1
      BY <1>2, LastLinkBound DEF GCTypeOK
    <3>2. LastLink(line.dev) \in Int
      <4>1. line.dev.list \in Lists
        BY <1>2 DEF Devices
      <4> QED
        BY <4>1, ListsAssumption, FS_CardinalityType, BoundsAssumption
           DEF LastLink
    <3>3. gci < LastLink(line.dev) => gci + 1 \in 0 .. MaxLinks - 1
      BY <3>1, <3>2, BoundsAssumption
    <3> QED
      BY <2>2, <3>3, BoundsAssumption
         DEF GCRemoveCtl, GCError, GCTypeOK, CollectorInv
  <2>3. CASE GCDeleteRecord
    BY <2>3 DEF GCDeleteRecord, GCTypeOK, CollectorInv
  <2> QED
    BY <2>1, <2>2, <2>3
<1> QED
    BY <1>3, <1>4, <1>5, CollectorFrame
       DEF GCRemoveSym, GCRemoveCtl, GCDeleteRecord

LEMMA CrashTypes ==
    ASSUME TypeInv, Crash \/ Start
    PROVE  TypeInv'
<1> USE DEF TypeInv, TypeOK
<1>1. OperatorTypeOK' /\ StorageTypeOK' /\ KubeletTypeOK' /\ up' \in BOOLEAN
    BY DEF Crash, Start, operatorVars, kubeletVars, OperatorTypeOK,
           StorageTypeOK, KubeletTypeOK
<1>2. SitterTypeOK'
    BY DEF Crash, Start, Sync, ApiObject, SitterTypeOK
<1>3. PreStartTypeOK' /\ HandlerInv'
  <2>1. CASE Crash
    BY <2>1, BoundsAssumption
       DEF Crash, PreStartReset, PreStartTypeOK, Steps, PodInfos, NewPI,
           HandlerInv, HandlerOK, Looping
  <2>2. CASE Start
    BY <2>2 DEF Start, preStartVars, PreStartTypeOK, HandlerInv, HandlerOK
  <2> QED
    BY <2>1, <2>2
<1>4. GCTypeOK' /\ CollectorInv'
    BY BoundsAssumption DEF Crash, Start, GCReset, gcVars, GCTypeOK, CollectorInv
<1> QED
    BY <1>1, <1>2, <1>3, <1>4

LEMMA StutterTypes ==
    ASSUME TypeInv, UNCHANGED vars
    PROVE  TypeInv'
<1>1. /\ OperatorTypeOK' /\ StorageTypeOK' /\ PreStartTypeOK' /\ GCTypeOK'
      /\ up' \in BOOLEAN /\ HandlerInv' /\ CollectorInv'
    BY AgentFrame DEF vars, agentVars
<1>2. SitterTypeOK' /\ KubeletTypeOK'
    BY DEF TypeInv, TypeOK, vars, sitterVars, kubeletVars, SitterTypeOK,
           KubeletTypeOK
<1> QED
    BY <1>1, <1>2 DEF TypeInv, TypeOK

LEMMA NextTypes == TypeInv /\ [Next]_vars => TypeInv'
<1> SUFFICES ASSUME TypeInv, [Next]_vars PROVE TypeInv'
    OBVIOUS
<1>1. ASSUME NEW h \in Handlers, Serve(h)
      PROVE  TypeInv'
    BY <1>1, LookupTypes, CreateTypes, RecordTypes, UndoTypes, ReturnTypes
       DEF Serve, Handler
<1>2. CASE Collect
    BY <1>2, ScanTypes, DeleteTypes DEF Collect, GCStep
<1> QED
    BY <1>1, <1>2, EnvironmentTypes, CallTypes, GiveUpTypes, CrashTypes,
       StutterTypes DEF Next

(***************************************************************************)
(* Type correctness: every variable keeps its type. In particular indexes  *)
(* into an annotation and link numbers stay within their bounds, a link    *)
(* is only ever pointed at a parsed GPU index, and every answer to the     *)
(* kubelet is for a claim it made.                                         *)
(***************************************************************************)
THEOREM TypeCorrect == Spec => []TypeOK
<1>1. TypeInv => TypeOK
    BY DEF TypeInv
<1> QED
    BY InitTypes, NextTypes, <1>1, PTL DEF Spec
=============================================================================
