---------------------------- MODULE AccessProofs ----------------------------
(***************************************************************************)
(* The agent with its environment implements GPUAccess, for every value of *)
(* the constants, under the conditions of theorem Isolation. The mapping   *)
(* forgets everything but pods, container states and what hooks saw, so    *)
(* all steps of handlers, collector, informer and process are stutters.    *)
(***************************************************************************)
EXTENDS IsolationProofs

LEMMA AssumedType ==
    ASSUME NEW a \in Annotations, NEW c \in Containers
    PROVE  Assumed(a, c) \subseteq GPUs \cup {Bad}
<1>1. a[c] \in Seq(GPUs \cup {Bad})
    BY AnnotationsAssumption
<1> QED
    BY <1>1 DEF Assumed

LEMMA InitAccess == Init => Access!AccessInit
BY DEF Init, SitterInit, KubeletInit, Access!AccessInit, Granted, Use

(***************************************************************************)
(* A new pod: its containers see nothing yet, since no pod had its name.   *)
(***************************************************************************)
LEMMA ScheduleAccess ==
    ASSUME TypeInv, IsolationInv, "recreate" \notin Faults,
           NEW p \in Pods, NEW a \in Annotations, Schedule(p, a)
    PROVE  Access!Grant(p)
<1>1. /\ pod[p] = Nil
      /\ pod' = [pod EXCEPT ![p] = a]
      /\ UNCHANGED <<ctr, seen>>
    BY DEF Schedule, PodCreated
<1>2. pod \in [Pods -> Annotations \cup {Nil}]
    BY DEF TypeInv, TypeOK, SitterTypeOK
<1>3. \A ct \in PodContainers : ct[1] = p => seen[ct] = {}
    BY <1>1 DEF IsolationInv, SeenInv
<1>4. \A ct \in PodContainers : ct[1] = p => Use[ct] = {}
    BY <1>3 DEF Use
<1>5. Granted' \in [Pods -> [Containers -> SUBSET (GPUs \cup {Bad})]]
  <2>1. pod' \in [Pods -> Annotations \cup {Nil}]
    BY <1>1, <1>2
  <2>2. \A q \in Pods, c \in Containers :
            pod'[q] # Nil => Assumed(pod'[q], c) \subseteq GPUs \cup {Bad}
    BY <2>1, AssumedType
  <2> QED
    BY <2>2 DEF Granted
<1>6. \A q \in Pods \ {p} : Granted'[q] = Granted[q]
    BY <1>1, <1>2 DEF Granted
<1>7. Use' = Use
    BY <1>1 DEF Use
<1> QED
    BY <1>4, <1>5, <1>6, <1>7 DEF Access!Grant

(***************************************************************************)
(* Termination of a pod, and the exit of a container.                      *)
(***************************************************************************)
LEMMA StopAccess ==
    ASSUME NEW cts \in SUBSET PodContainers, UNCHANGED pod,
           \A ct \in PodContainers : Use'[ct] = IF ct \in cts THEN {} ELSE Use[ct]
    PROVE  Access!EndUse(cts)
<1>1. Granted' = Granted
    BY DEF Granted
<1>2. Use' = [ct \in PodContainers |-> IF ct \in cts THEN {} ELSE Use[ct]]
    BY DEF Use
<1> QED
    BY <1>1, <1>2 DEF Access!EndUse

LEMMA StopPodAccess ==
    ASSUME TypeInv, NEW p \in Pods, StopPod(p)
    PROVE  Access!AccessNext
<1> DEFINE cts == {ct \in PodContainers : ct[1] = p}
<1>1. /\ UNCHANGED pod
      /\ \A ct \in PodContainers :
             /\ ctr'[ct] = IF ct[1] = p THEN "waiting" ELSE ctr[ct]
             /\ seen'[ct] = IF ct[1] = p THEN {} ELSE seen[ct]
    BY DEF StopPod, Terminate, sitterVars
<1>2. \A ct \in PodContainers : Use'[ct] = IF ct \in cts THEN {} ELSE Use[ct]
    BY <1>1 DEF Use
<1>3. Access!EndUse(cts)
    BY <1>1, <1>2, StopAccess
<1> QED
    BY <1>3 DEF Access!AccessNext

LEMMA StopContainerAccess ==
    ASSUME TypeInv, NEW c \in PodContainers, StopContainer(c)
    PROVE  Access!AccessNext
<1>1. /\ UNCHANGED pod
      /\ \A ct \in PodContainers :
             /\ ctr'[ct] = IF ct = c THEN "waiting" ELSE ctr[ct]
             /\ seen'[ct] = IF ct = c THEN {} ELSE seen[ct]
    BY DEF StopContainer, ContainerExit, sitterVars, TypeInv, TypeOK, KubeletTypeOK
<1>2. \A ct \in PodContainers : Use'[ct] = IF ct \in {c} THEN {} ELSE Use[ct]
    BY <1>1 DEF Use
<1>3. Access!EndUse({c})
    BY <1>1, <1>2, StopAccess
<1> QED
    BY <1>3 DEF Access!AccessNext

-----------------------------------------------------------------------------
LEMMA StutterAccess ==
    ASSUME UNCHANGED pod, \A ct \in PodContainers : Use'[ct] = Use[ct]
    PROVE  UNCHANGED Access!accessVars
BY DEF Granted, Use, Access!accessVars

(***************************************************************************)
(* The start of a container. Only the last step of the hook shows; what    *)
(* it hands over was collected link by link.                               *)
(***************************************************************************)
LEMMA StartAccess ==
    ASSUME TypeInv, IsolationInv, NEW c \in PodContainers, StartContainer(c)
    PROVE  [Access!AccessNext]_(Access!accessVars)
<1>1. /\ ctr \in [PodContainers -> {"waiting", "created", "hooking", "running"}]
      /\ seen \in [PodContainers -> SUBSET GPUs]
    BY DEF TypeInv, TypeOK, KubeletTypeOK
<1>2. UNCHANGED pod
    BY DEF StartContainer, CreateContainer, HookReadDir, HookReadLink, HookToolkit,
           HookFails, HookExits, sitterVars
<1>3. CASE HookToolkit(c)
  <2>1. ctr[c] = "hooking" /\ ctr' = [ctr EXCEPT ![c] = "running"] /\ seen' = seen
    BY <1>3 DEF HookToolkit
  <2>2. Use[c] = {} /\ Use' = [Use EXCEPT ![c] = seen[c]]
    BY <1>1, <2>1 DEF Use
  <2>3. seen[c] \in SUBSET Granted[c[1]][c[2]]
    <3>1. c[1] \in Pods /\ c[2] \in Containers
      BY ClaimParts DEF PodContainers
    <3> QED
      BY <3>1 DEF IsolationInv, SeenInv, Granted
  <2>4. Granted' = Granted
    BY <1>2 DEF Granted
  <2>5. Access!BeginUse(c)
    BY <2>2, <2>3, <2>4 DEF Access!BeginUse
  <2> QED
    BY <2>5 DEF Access!AccessNext
<1>4. CASE ~HookToolkit(c)
  <2>1. \A ct \in PodContainers : Use'[ct] = Use[ct]
    BY <1>1, <1>4 DEF StartContainer, CreateContainer, HookReadDir, HookReadLink,
                      HookFails, HookExits, Use
  <2> QED
    BY <1>2, <2>1, StutterAccess
<1> QED
    BY <1>3, <1>4

(***************************************************************************)
(* Every other step leaves pods, containers and what they see alone.       *)
(***************************************************************************)
LEMMA OtherAccess ==
    ASSUME UNCHANGED <<pod, ctr, seen>>
    PROVE  UNCHANGED Access!accessVars
BY DEF Granted, Use, Access!accessVars

LEMMA HandlerAccess ==
    ASSUME NEW h \in Handlers, Serve(h) \/ GiveUp(h) \/ \E cl \in Claims : Call(h, cl)
    PROVE  UNCHANGED <<pod, ctr, seen>>
<1> USE DEF sitterVars, kubeletVars
<1>1. ASSUME NEW cl \in Claims, Call(h, cl)
      PROVE  UNCHANGED <<pod, ctr, seen>>
    BY <1>1 DEF Call, PreStartContainer
<1>2. CASE GiveUp(h)
    BY <1>2 DEF GiveUp, KubeletTimeout
<1>3. CASE Serve(h)
    BY <1>3 DEF Serve, Handler, Locate, ReadAnnotation, Lock, CreateStat, CreateSym,
                CreateCtl, LoadRecord, SaveRecord, UndoSym, UndoCtl, Return
<1> QED
    BY <1>1, <1>2, <1>3

LEMMA CollectAccess ==
    ASSUME Collect
    PROVE  UNCHANGED <<pod, ctr, seen>>
BY DEF Collect, GCStep, GCStart, GCScan, GCAsk, GCNext, GCRemoveSym, GCRemoveCtl,
       GCDeleteRecord, outsideGC, sitterVars, kubeletVars

LEMMA NextAccess ==
    ASSUME "recreate" \notin Faults, TypeInv, IsolationInv, [Next]_vars
    PROVE  [Access!AccessNext]_(Access!accessVars)
<1>1. ASSUME NEW p \in Pods, NEW a \in Annotations, Schedule(p, a)
      PROVE  Access!AccessNext
    BY <1>1, ScheduleAccess DEF Access!AccessNext
<1>2. ASSUME NEW p \in Pods, RemovePod(p) \/ InformerDeliver(p)
      PROVE  UNCHANGED <<pod, ctr, seen>>
    BY <1>2 DEF RemovePod, ApiDelete, InformerDeliver, Deliver, kubeletVars
<1>3. ASSUME NEW cl \in Claims, NEW l \in Lists, Admit(cl, l)
      PROVE  UNCHANGED <<pod, ctr, seen>>
    BY <1>3 DEF Admit, Allocate, sitterVars
<1>4. ASSUME Crash \/ Start
      PROVE  UNCHANGED <<pod, ctr, seen>>
    BY <1>4 DEF Crash, Start, Sync, kubeletVars
<1>5. ASSUME UNCHANGED vars
      PROVE  UNCHANGED <<pod, ctr, seen>>
    BY <1>5 DEF vars, sitterVars, kubeletVars
<1> QED
    BY <1>1, <1>2, <1>3, <1>4, <1>5, StopPodAccess, StopContainerAccess, StartAccess,
       HandlerAccess, CollectAccess, OtherAccess DEF Next

(***************************************************************************)
(* The agent with kubelet, hook and API server implements GPUAccess: every *)
(* container uses a fixed part of what the scheduler granted it, from its  *)
(* start to its end, and no grant is replaced under a container that uses  *)
(* GPUs. Conditions and faults as for theorem Isolation.                   *)
(***************************************************************************)
THEOREM Implementation ==
    ASSUME Reused \cap Faults = {}, "recreate" \notin Faults
    PROVE  Spec => ImplementsGPUAccess
<1>1. Init => Access!AccessInit
    BY InitAccess
<1>2. Init => TypeInv /\ IsolationInv
    BY InitTypes, InitIsolation
<1>3. TypeInv /\ IsolationInv /\ [Next]_vars => (TypeInv /\ IsolationInv)'
    BY NextTypes, NextIsolation
<1>4. TypeInv /\ IsolationInv /\ [Next]_vars => [Access!AccessNext]_(Access!accessVars)
    BY NextAccess
<1> QED
    BY <1>1, <1>2, <1>3, <1>4, PTL DEF Spec, ImplementsGPUAccess, Access!AccessSpec
=============================================================================
