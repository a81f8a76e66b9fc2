---------------------------- MODULE RecordProofs ----------------------------
(***************************************************************************)
(* The collector removes no record of a pod that exists, for every value   *)
(* of the constants, as long as pod names are not used again. Between the  *)
(* answer of the API server and the deletion any number of steps may pass, *)
(* so what the collector has on its list must stay true. And the database  *)
(* holds the device of every running container, although a record is read  *)
(* and written in two transactions.                                        *)
(***************************************************************************)
EXTENDS IsolationProofs

Known(p) == pod[p] # Nil

Gone(p) == Known(p) /\ p \notin api

(***************************************************************************)
(* Devices, handlers and records are of pods that exist or have existed,   *)
(* and a handler never saves an empty record.                              *)
(***************************************************************************)
OriginInv ==
    /\ \A p \in api : Known(p)
    /\ \A cl \in Claims : assign[cl] # {} => Known(cl[1])
    /\ \A p \in Pods : db[p] # NewPI => Known(p)

SaverInv ==
    \A h \in Handlers : /\ at[h] # Nil => Known(at[h][1])
                        /\ pc[h] = "save" => info[h] # NewPI

(***************************************************************************)
(* What the collector has yet to look at is of known pods, what it has     *)
(* decided to delete is of pods that are gone.                             *)
(***************************************************************************)
DoomedInv ==
    /\ \A l \in scan : Known(l.pod)
    /\ \A l \in todo : Gone(l.pod)
    /\ gcpc \in {"sym", "ctl", "record"} => Gone(line.pod)

RecordInv == OriginInv /\ SaverInv /\ DoomedInv

Removal == \A p \in Pods : db[p] # NewPI /\ db'[p] = NewPI => p \notin api

-----------------------------------------------------------------------------
LEMMA InitRecord == Init => RecordInv
BY DEF Init, SitterInit, KubeletInit, StorageInit, PreStartInit, GCInit, RecordInv,
       OriginInv, SaverInv, DoomedInv

(***************************************************************************)
(* Steps that change neither pods' existence nor what is kept about them.  *)
(***************************************************************************)
LEMMA RecordFrame ==
    ASSUME RecordInv, UNCHANGED <<pod, assign, db, gcVars>>, api' \subseteq api,
           \A h \in Handlers : /\ at'[h] \in {at[h], Nil}
                               /\ pc'[h] = "save" => pc[h] = "save" /\ info'[h] = info[h]
    PROVE  RecordInv'
BY DEF RecordInv, OriginInv, SaverInv, DoomedInv, Known, Gone, gcVars

LEMMA ScheduleRecord ==
    ASSUME TypeInv, RecordInv, "recreate" \notin Faults,
           NEW p \in Pods, NEW a \in Annotations, Schedule(p, a)
    PROVE  RecordInv'
<1>1. /\ pod[p] = Nil /\ a # Nil
      /\ pod' = [pod EXCEPT ![p] = a]
      /\ api' = api \cup {p}
      /\ assign' = [cl \in Claims |-> IF cl[1] = p THEN {} ELSE assign[cl]]
      /\ UNCHANGED <<db, at, pc, info, gcpc, scan, todo, line>>
    BY AnnotationsAssumption
       DEF Schedule, PodCreated, agentVars, preStartVars, gcVars
<1>2. \A q \in Pods : /\ Known(q) => Known(q)' /\ q # p
                      /\ Gone(q) => Gone(q)'
    BY <1>1 DEF Known, Gone, TypeInv, TypeOK, SitterTypeOK
<1>3. Known(p)'
    BY <1>1 DEF Known, TypeInv, TypeOK, SitterTypeOK
<1>4. OriginInv'
  <2>1. api \subseteq Pods
    BY DEF TypeInv, TypeOK, SitterTypeOK
  <2> QED
    BY <1>1, <1>2, <1>3, <2>1, ClaimParts DEF RecordInv, OriginInv
<1>5. SaverInv'
  <2>1. \A h \in Handlers : at[h] # Nil => at[h][1] \in Pods
    BY DEF TypeInv, TypeOK, PreStartTypeOK
  <2> QED
    BY <1>1, <1>2, <2>1 DEF RecordInv, SaverInv
<1>6. DoomedInv'
  <2>1. /\ \A l \in scan \cup todo : l.pod \in Pods
        /\ gcpc \in {"sym", "ctl", "record"} => line.pod \in Pods
    BY DEF TypeInv, TypeOK, GCTypeOK, CollectorInv, Lines
  <2> QED
    BY <1>1, <1>2, <2>1 DEF RecordInv, DoomedInv
<1> QED
    BY <1>4, <1>5, <1>6 DEF RecordInv

LEMMA EnvironmentRecord ==
    ASSUME TypeInv, RecordInv,
           \/ \E p \in Pods : StopPod(p) \/ RemovePod(p) \/ InformerDeliver(p)
           \/ \E ct \in PodContainers : StartContainer(ct) \/ StopContainer(ct)
    PROVE  RecordInv'
<1>1. /\ UNCHANGED <<pod, assign, db, gcVars, preStartVars>>
      /\ api' \subseteq api
    BY DEF StopPod, Terminate, RemovePod, ApiDelete, InformerDeliver, Deliver,
           StartContainer, CreateContainer, HookReadDir, HookReadLink, HookToolkit,
           HookFails, HookExits, StopContainer, ContainerExit, sitterVars, kubeletVars,
           agentVars
<1> QED
    BY <1>1, RecordFrame DEF preStartVars

LEMMA AdmitRecord ==
    ASSUME TypeInv, RecordInv, NEW cl \in Claims, NEW l \in Lists, Admit(cl, l)
    PROVE  RecordInv'
<1>1. /\ UNCHANGED <<pod, api, db, preStartVars, gcVars>>
      /\ cl[1] \in api
      /\ \A c \in Claims : assign'[c] # {} => c = cl \/ assign[c] # {}
    BY DEF Admit, Allocate, sitterVars, agentVars
<1>2. OriginInv'
    BY <1>1 DEF RecordInv, OriginInv, Known
<1> QED
    BY <1>1, <1>2
       DEF RecordInv, SaverInv, DoomedInv, Known, Gone, preStartVars, gcVars

-----------------------------------------------------------------------------
(***************************************************************************)
(* Handlers. Locate names a pod that holds devices.                        *)
(***************************************************************************)
LEMMA LocateRecord ==
    ASSUME TypeInv, RecordInv, NEW h \in Handlers, Locate(h), UNCHANGED gcVars
    PROVE  RecordInv'
<1>1. UNCHANGED <<pod, api, assign, db, info, gcVars>>
    BY DEF Locate, sitterVars, kubeletVars
<1>2. \A g \in Handlers : g # h => at'[g] = at[g] /\ pc'[g] = pc[g]
    BY DEF Locate, Goto, TypeInv, TypeOK, PreStartTypeOK
<1>3. pc'[h] # "save"
    BY DEF Locate, Goto, TypeInv, TypeOK, PreStartTypeOK
<1>4. at'[h] # Nil => Known(at'[h][1])
  <2>1. CASE UNCHANGED at
    BY <2>1 DEF RecordInv, SaverInv
  <2>2. ASSUME NEW x \in Holders(h), at' = [at EXCEPT ![h] = <<x[1], x[2]>>]
        PROVE  Known(at'[h][1])
    <3>1. list[h] # {}
      BY ListsAssumption DEF Locate, TypeInv, HandlerInv, HandlerOK
    <3>2. x \in Claims /\ assign[x] # {}
      BY <3>1 DEF Holders, Found, Entries
    <3>3. at'[h] = <<x[1], x[2]>>
      BY <2>2 DEF TypeInv, TypeOK, PreStartTypeOK
    <3> QED
      BY <3>2, <3>3 DEF RecordInv, OriginInv
  <2> QED
    BY <2>1, <2>2 DEF Locate
<1>5. SaverInv'
    BY <1>1, <1>2, <1>3, <1>4 DEF RecordInv, SaverInv, Known
<1> QED
    BY <1>1, <1>5 DEF RecordInv, OriginInv, DoomedInv, Known, Gone, gcVars

LEMMA LoadRecordKept ==
    ASSUME TypeInv, RecordInv, NEW h \in Handlers, LoadRecord(h), UNCHANGED gcVars
    PROVE  RecordInv'
<1>1. UNCHANGED <<pod, api, assign, db, at, gcVars>>
    BY DEF LoadRecord, sitterVars, kubeletVars
<1>2. /\ at[h] \in Pods \X Containers
      /\ want[h] \in Claims
      /\ list[h] \in Lists
    BY DEF LoadRecord, TypeInv, HandlerInv, HandlerOK, Looping
<1>3. \A g \in Handlers : g # h => info'[g] = info[g] /\ pc'[g] = pc[g]
    BY DEF LoadRecord, Goto, TypeInv, TypeOK, PreStartTypeOK
<1>4. info'[h][at[h][2]] = NewDevice(list[h], want[h][3])
    BY <1>2 DEF LoadRecord, LoadOrCreate, TypeInv, TypeOK, PreStartTypeOK,
                StorageTypeOK, PodInfos
<1>5. NewDevice(list[h], want[h][3]) # Nil
  <2>1. NewDevice(list[h], want[h][3]) \in Devices
    BY <1>2, HashAssumption, ClaimParts DEF NewDevice, Devices
  <2> QED
    BY <2>1, NamesAssumption
<1>6. info'[h] # NewPI
    BY <1>2, <1>4, <1>5 DEF NewPI
<1>7. SaverInv'
    BY <1>1, <1>3, <1>6 DEF RecordInv, SaverInv, Known
<1> QED
    BY <1>1, <1>7 DEF RecordInv, OriginInv, DoomedInv, Known, Gone, gcVars

LEMMA SaveRecordKept ==
    ASSUME TypeInv, RecordInv, NEW h \in Handlers, SaveRecord(h), UNCHANGED gcVars
    PROVE  RecordInv' /\ Removal
<1>1. UNCHANGED <<pod, api, assign, at, info, gcVars>>
    BY DEF SaveRecord, sitterVars, kubeletVars
<1>2. \A g \in Handlers : pc'[g] = "save" => pc[g] = "save"
    BY DEF SaveRecord, Goto, TypeInv, TypeOK, PreStartTypeOK
<1>3. at[h] \in Pods \X Containers /\ pc[h] = "save"
    BY DEF SaveRecord, TypeInv, HandlerInv, HandlerOK, Looping
<1>4. Known(at[h][1]) /\ info[h] # NewPI
    BY <1>3, NamesAssumption DEF RecordInv, SaverInv
<1>5. \A p \in Pods : db'[p] = db[p] \/ (p = at[h][1] /\ db'[p] = info[h])
    BY DEF SaveRecord, Save, TypeInv, TypeOK, StorageTypeOK
<1>6. RecordInv'
    BY <1>1, <1>2, <1>4, <1>5
       DEF RecordInv, OriginInv, SaverInv, DoomedInv, Known, Gone, gcVars
<1> QED
    BY <1>4, <1>5, <1>6 DEF Removal

LEMMA HandlerRecord ==
    ASSUME TypeInv, RecordInv, NEW h \in Handlers,
           \/ Serve(h) /\ ~(Locate(h) \/ LoadRecord(h) \/ SaveRecord(h))
           \/ GiveUp(h) \/ \E cl \in Claims : Call(h, cl)
    PROVE  RecordInv' /\ UNCHANGED db
<1> USE DEF Goto, sitterVars, kubeletVars, TypeInv, TypeOK, PreStartTypeOK
<1>1. UNCHANGED <<pod, api, assign, db, gcVars>>
    BY DEF Serve, Handler, ReadAnnotation, Lock, CreateStat, CreateSym, CreateCtl,
           UndoSym, UndoCtl, Return, GiveUp, KubeletTimeout, Call, PreStartContainer
<1>2. \A g \in Handlers : at'[g] \in {at[g], Nil}
    BY DEF Serve, Handler, ReadAnnotation, Lock, CreateStat, CreateSym, CreateCtl,
           UndoSym, UndoCtl, Return, GiveUp, KubeletTimeout, Call, PreStartContainer
<1>3. \A g \in Handlers : pc'[g] = "save" => pc[g] = "save" /\ info'[g] = info[g]
  <2>1. CASE CreateStat(h) \/ CreateCtl(h)
    BY <2>1 DEF CreateStat, CreateCtl, Advance
  <2>2. CASE UndoSym(h) \/ UndoCtl(h)
    BY <2>2 DEF UndoSym, UndoCtl, Advance
  <2>3. CASE ReadAnnotation(h) \/ Lock(h) \/ CreateSym(h)
    BY <2>3 DEF ReadAnnotation, Lock, CreateSym
  <2>4. CASE Return(h)
    BY <2>4 DEF Return
  <2>5. CASE GiveUp(h)
    BY <2>5 DEF GiveUp, KubeletTimeout
  <2>6. ASSUME NEW cl \in Claims, Call(h, cl)
        PROVE  \A g \in Handlers : pc'[g] = "save" =>
                   pc[g] = "save" /\ info'[g] = info[g]
    BY <2>6 DEF Call, PreStartContainer
  <2> QED
    BY <2>1, <2>2, <2>3, <2>4, <2>5, <2>6 DEF Serve, Handler
<1> QED
    BY <1>1, <1>2, <1>3, RecordFrame

-----------------------------------------------------------------------------
(***************************************************************************)
(* The collector. Its answer from the API server stays true: a pod that is *)
(* gone does not come back.                                                *)
(***************************************************************************)
LEMMA CollectRecord ==
    ASSUME TypeInv, RecordInv, GCStep
    PROVE  RecordInv' /\ Removal
<1>1. UNCHANGED <<pod, api, assign, at, pc, info>>
    BY DEF GCStep, GCStart, GCScan, GCAsk, GCNext, GCRemoveSym, GCRemoveCtl,
           GCDeleteRecord, outsideGC, sitterVars, kubeletVars, preStartVars
<1>2. SaverInv'
    BY <1>1 DEF RecordInv, SaverInv, Known
<1>3. \A p \in Pods : db'[p] = db[p] \/ (db'[p] = NewPI /\ p \notin api)
  <2>1. CASE GCDeleteRecord
    <3>1. Gone(line.pod)
      BY <2>1 DEF GCDeleteRecord, RecordInv, DoomedInv
    <3> QED
      BY <2>1, <3>1 DEF GCDeleteRecord, DeleteRecord, Gone,
                        TypeInv, TypeOK, StorageTypeOK
  <2>2. CASE ~GCDeleteRecord
    BY <2>2 DEF GCStep, GCStart, GCScan, GCAsk, GCNext, GCRemoveSym, GCRemoveCtl
  <2> QED
    BY <2>1, <2>2
<1>4. OriginInv'
    BY <1>1, <1>3 DEF RecordInv, OriginInv, Known
<1>5. DoomedInv'
  <2> USE DEF RecordInv, DoomedInv
  <2>1. CASE GCStart
    <3>1. \A l \in ForEach : l.pod \in Pods /\ db[l.pod] # NewPI
      BY DEF ForEach, NewPI
    <3> QED
      BY <1>1, <2>1, <3>1 DEF GCStart, OriginInv, Known, Gone
  <2>2. CASE GCScan
    BY <1>1, <2>2 DEF GCScan, Known, Gone
  <2>3. CASE GCAsk
    <3>1. \A l \in LinesOf(scan, First(scan)) : l \in scan /\ l.pod = First(scan)
      BY DEF LinesOf
    <3>2. ASSUME Collectable(First(scan)), NEW l \in LinesOf(scan, First(scan))
          PROVE  Gone(l.pod)
      BY <3>1, <3>2 DEF Collectable, FoundInApiServer, Gone
    <3> QED
      BY <1>1, <2>3, <3>2 DEF GCAsk, Known, Gone
  <2>4. CASE GCNext
    BY <1>1, <2>4 DEF GCNext, LinesOf, Known, Gone
  <2>5. CASE GCRemoveSym \/ GCRemoveCtl
    BY <1>1, <2>5 DEF GCRemoveSym, GCRemoveCtl, GCError, Known, Gone
  <2>6. CASE GCDeleteRecord
    BY <1>1, <2>6 DEF GCDeleteRecord, Known, Gone
  <2> QED
    BY <2>1, <2>2, <2>3, <2>4, <2>5, <2>6 DEF GCStep
<1> QED
    BY <1>2, <1>3, <1>4, <1>5 DEF RecordInv, Removal

LEMMA ProcessRecord ==
    ASSUME TypeInv, RecordInv, Crash \/ Start \/ UNCHANGED vars
    PROVE  RecordInv' /\ UNCHANGED db
<1>1. UNCHANGED <<pod, api, assign, db>>
    BY DEF Crash, Start, Sync, vars, sitterVars, kubeletVars
<1>2. CASE Crash
    BY <1>1, <1>2 DEF Crash, PreStartReset, GCReset, RecordInv, OriginInv, SaverInv,
                      DoomedInv, Known
<1>3. CASE UNCHANGED <<preStartVars, gcVars>>
    BY <1>1, <1>3, RecordFrame DEF preStartVars
<1> QED
    BY <1>1, <1>2, <1>3 DEF Start, vars

LEMMA NextRecord ==
    ASSUME "recreate" \notin Faults, TypeInv, RecordInv, [Next]_vars
    PROVE  RecordInv' /\ Removal
<1>1. ASSUME UNCHANGED db PROVE Removal
    BY <1>1 DEF Removal
<1>2. ASSUME NEW p \in Pods, NEW a \in Annotations, Schedule(p, a)
      PROVE  RecordInv' /\ Removal
    BY <1>1, <1>2, ScheduleRecord DEF Schedule, agentVars
<1>3. ASSUME \/ \E p \in Pods : StopPod(p) \/ RemovePod(p) \/ InformerDeliver(p)
             \/ \E ct \in PodContainers : StartContainer(ct) \/ StopContainer(ct)
      PROVE  RecordInv' /\ Removal
  <2>1. UNCHANGED db
    BY <1>3 DEF StopPod, RemovePod, InformerDeliver, StartContainer, StopContainer,
                agentVars
  <2> QED
    BY <1>1, <1>3, <2>1, EnvironmentRecord
<1>4. ASSUME NEW cl \in Claims, NEW l \in Lists, Admit(cl, l)
      PROVE  RecordInv' /\ Removal
    BY <1>1, <1>4, AdmitRecord DEF Admit, agentVars
<1>5. ASSUME NEW h \in Handlers, Serve(h)
      PROVE  RecordInv' /\ Removal
  <2>1. UNCHANGED gcVars
    BY <1>5 DEF Serve
  <2>2. CASE Locate(h)
    BY <1>1, <2>1, <2>2, LocateRecord DEF Locate
  <2>3. CASE LoadRecord(h)
    BY <1>1, <2>1, <2>3, LoadRecordKept DEF LoadRecord
  <2>4. CASE SaveRecord(h)
    BY <2>1, <2>4, SaveRecordKept
  <2>5. CASE ~(Locate(h) \/ LoadRecord(h) \/ SaveRecord(h))
    BY <1>1, <1>5, <2>5, HandlerRecord
  <2> QED
    BY <2>2, <2>3, <2>4, <2>5
<1>6. ASSUME NEW h \in Handlers, GiveUp(h) \/ \E cl \in Claims : Call(h, cl)
      PROVE  RecordInv' /\ Removal
    BY <1>1, <1>6, HandlerRecord
<1>7. CASE Collect
    BY <1>7, CollectRecord DEF Collect
<1>8. CASE Crash \/ Start \/ UNCHANGED vars
    BY <1>1, <1>8, ProcessRecord
<1> QED
    BY <1>2, <1>3, <1>4, <1>5, <1>6, <1>7, <1>8 DEF Next

(***************************************************************************)
(* GC drops a record only when its pod is gone from the API server at the  *)
(* moment of the deletion, however long ago it asked: for any number of    *)
(* pods and handlers and under every fault but the reuse of a pod's name.  *)
(***************************************************************************)
THEOREM RemovalJustified ==
    ASSUME "recreate" \notin Faults
    PROVE  Spec => RecordRemovalJustified
<1>1. Init => TypeInv /\ RecordInv
    BY InitTypes, InitRecord
<1>2. TypeInv /\ RecordInv /\ [Next]_vars => (TypeInv /\ RecordInv)'
    BY NextTypes, NextRecord
<1>3. TypeInv /\ RecordInv /\ [Next]_vars
      => [\A p \in Pods : db[p] # NewPI /\ db'[p] = NewPI => p \notin api]_vars
    BY NextRecord DEF Removal
<1> QED
    BY <1>1, <1>2, <1>3, PTL DEF Spec, RecordRemovalJustified

-----------------------------------------------------------------------------
(***************************************************************************)
(* What a running container finds in the database. While the kubelet waits *)
(* for its answers and pod names are not used again, a running handler     *)
(* works for the claim it was called for: one pod has one handler, its     *)
(* list is still assigned, and Locate can only name its container.         *)
(***************************************************************************)
Active(h) == pc[h] # "idle"

ActiveOK(h) ==
    /\ pc[h] \in {"idle", "locate"} => at[h] = Nil
    /\ Active(h) => /\ h \in awaited
                    /\ Holds(want[h])
                    /\ assign[want[h]] = list[h]
                    /\ want[h] \notin ready
                    /\ at[h] # Nil => at[h] = Cont(want[h])

OnePerPod ==
    \A g, h \in Handlers :
        Active(g) /\ Active(h) /\ want[g][1] = want[h][1] => g = h

ReadyInv ==
    /\ \A cl \in ready : Holds(cl)
    /\ \A ct \in PodContainers : ctr[ct] # "waiting" => ClaimsOf(ct) \subseteq ready

Disjoint ==
    \A c1, c2 \in Claims :
        c1 # c2 /\ c1[3] = c2[3] => assign[c1] \cap assign[c2] = {}

HashInv ==
    "collide" \notin Faults =>
    \A c1, c2 \in Claims :
        assign[c1] # {} /\ assign[c2] # {} /\ Hash[assign[c1]] = Hash[assign[c2]]
        => Cont(c1) = Cont(c2)

LiveInv ==
    /\ \A h \in Handlers : ActiveOK(h)
    /\ OnePerPod /\ ReadyInv /\ Disjoint /\ HashInv

LEMMA InitLive == Init => LiveInv
BY ClaimParts DEF Init, PreStartInit, KubeletInit, LiveInv, ActiveOK, Active, OnePerPod,
                  ReadyInv, Disjoint, HashInv

(***************************************************************************)
(* Steps that leave handlers and assignments alone.                        *)
(***************************************************************************)
LEMMA LiveFrame ==
    ASSUME LiveInv, UNCHANGED <<assign, pc, want, list, at, awaited>>,
           ready' \subseteq ready, \A cl \in Claims : Holds(cl) => cl[1] \notin done',
           ready \subseteq Claims, \A h \in Handlers : Active(h) => want[h] \in Claims,
           \A ct \in PodContainers : ctr'[ct] # "waiting" => ClaimsOf(ct) \subseteq ready'
    PROVE  LiveInv'
<1>1. \A cl \in Claims : Holds(cl) => Holds(cl)'
    BY DEF Holds
<1>2. \A h \in Handlers : ActiveOK(h)'
    BY <1>1 DEF LiveInv, ActiveOK, Active
<1>3. OnePerPod' /\ Disjoint' /\ HashInv'
    BY DEF LiveInv, OnePerPod, Active, Disjoint, HashInv
<1>4. ReadyInv'
    BY <1>1 DEF LiveInv, ReadyInv
<1> QED
    BY <1>2, <1>3, <1>4 DEF LiveInv

LEMMA LiveTypes ==
    ASSUME TypeInv
    PROVE  /\ ready \subseteq Claims
           /\ \A h \in Handlers : Active(h) => want[h] \in Claims /\ list[h] \in Lists
           /\ \A h \in awaited : h \in Handlers /\ Active(h)
           /\ ctr \in [PodContainers -> {"waiting", "created", "hooking", "running"}]
BY DEF TypeInv, TypeOK, KubeletTypeOK, PreStartTypeOK, HandlerInv, HandlerOK, Active

LEMMA EnvironmentLive ==
    ASSUME TypeInv, LiveInv,
           \/ \E p \in Pods : RemovePod(p) \/ InformerDeliver(p)
           \/ Collect \/ Start \/ UNCHANGED vars
    PROVE  LiveInv'
<1>1. UNCHANGED <<assign, pc, want, list, at, awaited, ready, done, ctr>>
    BY DEF RemovePod, ApiDelete, InformerDeliver, Deliver, Collect, GCStep, GCStart,
           GCScan, GCAsk, GCNext, GCRemoveSym, GCRemoveCtl, GCDeleteRecord, outsideGC,
           Start, vars, agentVars, preStartVars, kubeletVars
<1> QED
    BY <1>1, LiveFrame, LiveTypes DEF LiveInv, ReadyInv, Holds

LEMMA ScheduleLive ==
    ASSUME TypeInv, RecordInv, LiveInv, "recreate" \notin Faults,
           NEW p \in Pods, NEW a \in Annotations, Schedule(p, a)
    PROVE  LiveInv'
<1>1. pod[p] = Nil
    BY DEF Schedule
<1>2. assign' = assign
    BY <1>1 DEF Schedule, PodCreated, RecordInv, OriginInv, Known, TypeInv, TypeOK,
                KubeletTypeOK
<1>3. UNCHANGED <<pc, want, list, at, awaited, ready, ctr>> /\ done' \subseteq done
    BY DEF Schedule, PodCreated, agentVars, preStartVars
<1> QED
    BY <1>2, <1>3, LiveFrame, LiveTypes DEF LiveInv, ReadyInv, Holds

LEMMA StopLive ==
    ASSUME TypeInv, LiveInv, NEW p \in Pods, StopPod(p)
    PROVE  LiveInv'
<1>1. /\ UNCHANGED <<assign, pc, want, list, at, awaited>>
      /\ done' = done \cup {p}
      /\ ready' = {cl \in ready : cl[1] # p}
      /\ ctr' = [ct \in PodContainers |-> IF ct[1] = p THEN "waiting" ELSE ctr[ct]]
      /\ \A h \in awaited : want[h][1] # p
    BY DEF StopPod, Terminate, agentVars, preStartVars
<1>2. \A h \in Handlers : ActiveOK(h)'
    BY <1>1 DEF LiveInv, ActiveOK, Active, Holds
<1>3. OnePerPod' /\ Disjoint' /\ HashInv'
    BY <1>1 DEF LiveInv, OnePerPod, Active, Disjoint, HashInv
<1>4. ReadyInv'
  <2>1. \A cl \in ready' : Holds(cl)'
    BY <1>1 DEF LiveInv, ReadyInv, Holds
  <2>2. ASSUME NEW ct \in PodContainers, ctr'[ct] # "waiting"
        PROVE  ClaimsOf(ct) \subseteq ready'
    <3>1. ct[1] # p /\ ctr[ct] # "waiting"
      BY <1>1, <2>2
    <3>2. \A cl \in ClaimsOf(ct) : cl[1] = ct[1]
      BY DEF ClaimsOf
    <3> QED
      BY <1>1, <3>1, <3>2 DEF LiveInv, ReadyInv
  <2> QED
    BY <2>1, <2>2 DEF ReadyInv
<1> QED
    BY <1>2, <1>3, <1>4 DEF LiveInv

LEMMA ContainerLive ==
    ASSUME TypeInv, LiveInv, NEW ct \in PodContainers,
           StartContainer(ct) \/ StopContainer(ct)
    PROVE  LiveInv'
<1> USE DEF StartContainer, StopContainer, CreateContainer, HookReadDir, HookReadLink,
            HookToolkit, HookFails, HookExits, ContainerExit
<1>1. UNCHANGED <<assign, pc, want, list, at, awaited, done>> /\ ready' \subseteq ready
    BY DEF agentVars, preStartVars
<1>2. \A c \in PodContainers : c # ct => ctr'[c] = ctr[c]
    BY LiveTypes
<1>3. \/ ready' = ready
      \/ ready' = ready \ ClaimsOf(ct) /\ ctr'[ct] = "waiting"
    BY LiveTypes
<1>4. ctr'[ct] # "waiting" => ctr[ct] # "waiting" \/ ClaimsOf(ct) \subseteq ready
    BY LiveTypes
<1>5. ASSUME NEW c \in PodContainers, ctr'[c] # "waiting"
      PROVE  ClaimsOf(c) \subseteq ready'
  <2>1. ClaimsOf(c) \subseteq ready
    BY <1>2, <1>4, <1>5 DEF LiveInv, ReadyInv
  <2>2. c # ct => ClaimsOf(c) \cap ClaimsOf(ct) = {}
    BY DEF ClaimsOf
  <2> QED
    BY <1>3, <1>5, <2>1, <2>2
<1> HIDE DEF StartContainer, StopContainer
<1> QED
    BY <1>1, <1>5, LiveFrame, LiveTypes DEF Holds

LEMMA AdmitLive ==
    ASSUME TypeInv, LiveInv, NEW cl \in Claims, NEW l \in Lists, Admit(cl, l)
    PROVE  LiveInv'
<1>1. /\ UNCHANGED <<pc, want, list, at, awaited, ready, ctr, done>>
      /\ assign[cl] = {} /\ l # {}
      /\ "collide" \notin Faults => NoSharer(cl, l)
    BY ListsAssumption DEF Admit, Allocate, agentVars, preStartVars
<1>2. /\ assign'[cl] = l
      /\ \A c \in Claims : c # cl =>
             assign'[c] = IF c[1] \in done THEN {} ELSE assign[c]
    BY DEF Admit, Allocate, TypeInv, TypeOK, KubeletTypeOK
<1>3. \A c \in Claims : Holds(c) => assign'[c] = assign[c] /\ Holds(c)'
    BY <1>1, <1>2 DEF Holds
<1>4. \A h \in Handlers : ActiveOK(h)'
    BY <1>1, <1>3, LiveTypes DEF LiveInv, ActiveOK, Active
<1>5. OnePerPod' /\ ReadyInv'
    BY <1>1, <1>3, LiveTypes DEF LiveInv, OnePerPod, ReadyInv, Active
<1>6. Disjoint'
  <2>1. \A c \in Claims : c[3] = cl[3] /\ c # cl => assign'[c] \cap l = {}
    BY <1>2 DEF Admit, Allocate
  <2>2. \A c1, c2 \in Claims : c1 # cl /\ c2 # cl /\ c1 # c2 /\ c1[3] = c2[3] =>
            assign'[c1] \cap assign'[c2] = {}
    BY <1>2 DEF LiveInv, Disjoint
  <2> QED
    BY <1>2, <2>1, <2>2 DEF Disjoint
<1>7. HashInv'
  <2> SUFFICES ASSUME "collide" \notin Faults, NEW c1 \in Claims, NEW c2 \in Claims,
                      assign'[c1] # {}, assign'[c2] # {},
                      Hash[assign'[c1]] = Hash[assign'[c2]]
               PROVE  Cont(c1) = Cont(c2)
    BY DEF HashInv
  <2>1. \A c \in Claims : c # cl /\ assign'[c] # {} =>
            assign'[c] = assign[c] /\ c[1] \notin done
    BY <1>2
  <2> QED
    BY <1>1, <1>2, <2>1 DEF LiveInv, HashInv, NoSharer, Cont
<1> QED
    BY <1>4, <1>5, <1>6, <1>7 DEF LiveInv

LEMMA CallLive ==
    ASSUME TypeInv, LiveInv, NEW h \in Handlers, NEW cl \in Claims, Call(h, cl)
    PROVE  LiveInv'
<1>1. /\ UNCHANGED <<assign, ready, ctr, done, at>>
      /\ pc[h] = "idle" /\ Holds(cl) /\ cl \notin ready
      /\ pc' = [pc EXCEPT ![h] = "locate"]
      /\ want' = [want EXCEPT ![h] = cl]
      /\ list' = [list EXCEPT ![h] = assign[cl]]
      /\ awaited' = awaited \cup {h}
      /\ \A g \in awaited : want[g][1] # cl[1]
    BY DEF Call, PreStartContainer, Goto, Holds, kubeletVars
<1>2. PreStartTypeOK
    BY DEF TypeInv, TypeOK
<1>3. /\ pc'[h] = "locate" /\ want'[h] = cl /\ list'[h] = assign[cl]
      /\ \A g \in Handlers : g # h => /\ pc'[g] = pc[g] /\ want'[g] = want[g]
                                      /\ list'[g] = list[g]
    BY <1>1, <1>2 DEF PreStartTypeOK
<1>4. \A c : Holds(c)' <=> Holds(c)
    BY <1>1 DEF Holds
<1>5. \A g \in Handlers : ActiveOK(g)'
    BY <1>1, <1>3, <1>4 DEF LiveInv, ActiveOK, Active
<1>6. OnePerPod'
    BY <1>1, <1>3 DEF LiveInv, ActiveOK, Active, OnePerPod
<1>7. ReadyInv' /\ Disjoint' /\ HashInv'
    BY <1>1, <1>4 DEF LiveInv, ReadyInv, Disjoint, HashInv
<1> QED
    BY <1>5, <1>6, <1>7 DEF LiveInv

(***************************************************************************)
(* Locate: a claim of the same resource that matches the list, whole or as *)
(* one entry of several, has a device in common with it.                   *)
(***************************************************************************)
LEMMA LocateLive ==
    ASSUME TypeInv, LiveInv, NEW h \in Handlers, Locate(h)
    PROVE  LiveInv'
<1>1. UNCHANGED <<assign, ready, ctr, done, want, list, awaited>> /\ Active(h)
    BY DEF Locate, Active, kubeletVars
<1>2. \A g \in Handlers : g # h => pc'[g] = pc[g] /\ at'[g] = at[g]
    BY DEF Locate, Goto, TypeInv, TypeOK, PreStartTypeOK
<1>3. pc'[h] \in {"getpod", "fail"}
    BY DEF Locate, Goto, TypeInv, TypeOK, PreStartTypeOK
<1>4. at'[h] \in {Nil, Cont(want[h])}
  <2>1. ASSUME NEW x \in Holders(h), at' = [at EXCEPT ![h] = <<x[1], x[2]>>]
        PROVE  at'[h] = Cont(want[h])
    <3>1. x \in Claims /\ x[3] = want[h][3] /\ list[h] \subseteq assign[x]
      BY DEF Holders, Found, Entries
    <3>2. want[h] \in Claims /\ list[h] # {} /\ assign[want[h]] = list[h]
      BY <1>1, LiveTypes, ListsAssumption DEF LiveInv, ActiveOK
    <3>3. x = want[h]
      BY <3>1, <3>2 DEF LiveInv, Disjoint
    <3> QED
      BY <2>1, <3>3 DEF Cont, TypeInv, TypeOK, PreStartTypeOK
  <2>2. CASE UNCHANGED at
    BY <2>2 DEF Locate, LiveInv, ActiveOK
  <2> QED
    BY <2>1, <2>2 DEF Locate
<1>5. \A g \in Handlers : ActiveOK(g)'
    BY <1>1, <1>2, <1>3, <1>4 DEF LiveInv, ActiveOK, Active, Holds
<1>6. OnePerPod'
    BY <1>1, <1>2 DEF LiveInv, OnePerPod, Active
<1>7. ReadyInv' /\ Disjoint' /\ HashInv'
    BY <1>1 DEF LiveInv, ReadyInv, Disjoint, HashInv, Holds
<1> QED
    BY <1>5, <1>6, <1>7 DEF LiveInv

LEMMA ReturnLive ==
    ASSUME TypeInv, LiveInv, NEW h \in Handlers, Return(h)
    PROVE  LiveInv'
<1>1. /\ UNCHANGED <<assign, ctr, done>> /\ Active(h)
      /\ ready \subseteq ready' /\ ready' \subseteq ready \cup {want[h]}
      /\ awaited' = awaited \ {h}
    BY DEF Return, Active
<1>2. /\ pc'[h] = "idle" /\ at'[h] = Nil
      /\ \A g \in Handlers : g # h => /\ pc'[g] = pc[g] /\ want'[g] = want[g]
                                      /\ list'[g] = list[g] /\ at'[g] = at[g]
    BY DEF Return, Goto, TypeInv, TypeOK, PreStartTypeOK
<1>3. \A c : Holds(c)' <=> Holds(c)
    BY <1>1 DEF Holds
<1>4. \A g \in Handlers : g # h /\ Active(g) => want[g] # want[h]
    BY <1>1 DEF LiveInv, OnePerPod
<1>5. \A g \in Handlers : ActiveOK(g)'
    BY <1>1, <1>2, <1>3, <1>4 DEF LiveInv, ActiveOK, Active
<1>6. OnePerPod'
    BY <1>2 DEF LiveInv, OnePerPod, Active
<1>7. ReadyInv'
    BY <1>1, <1>3 DEF LiveInv, ActiveOK, ReadyInv
<1>8. Disjoint' /\ HashInv'
    BY <1>1 DEF LiveInv, Disjoint, HashInv
<1> QED
    BY <1>5, <1>6, <1>7, <1>8 DEF LiveInv

(***************************************************************************)
(* The steps of a handler between Locate and the return.                   *)
(***************************************************************************)
Working(h) ==
    \/ ReadAnnotation(h) \/ Lock(h) \/ CreateStat(h) \/ CreateSym(h) \/ CreateCtl(h)
    \/ LoadRecord(h) \/ SaveRecord(h) \/ UndoSym(h) \/ UndoCtl(h)

LEMMA WorkingFrame ==
    ASSUME TypeInv, NEW h \in Handlers, Working(h)
    PROVE  /\ UNCHANGED <<pod, api, assign, ready, ctr, names, seen, done>>
           /\ UNCHANGED <<want, list, at, awaited>>
           /\ \A g \in Handlers : g # h => /\ pc'[g] = pc[g] /\ idx'[g] = idx[g]
                                           /\ info'[g] = info[g] /\ val'[g] = val[g]
           /\ pc[h] \notin {"idle", "locate"} /\ pc'[h] \notin {"idle", "locate"}
<1> USE DEF Working, Goto
<1>1. /\ UNCHANGED <<pod, api, assign, ready, ctr, names, seen, done>>
      /\ UNCHANGED <<want, list, at, awaited>>
    BY DEF ReadAnnotation, Lock, CreateStat, CreateSym, CreateCtl, LoadRecord, SaveRecord,
           UndoSym, UndoCtl, sitterVars, kubeletVars
<1>2. pc[h] \notin {"idle", "locate"}
    BY DEF ReadAnnotation, Lock, CreateStat, CreateSym, CreateCtl, LoadRecord, SaveRecord,
           UndoSym, UndoCtl
<1>3. PreStartTypeOK
    BY DEF TypeInv, TypeOK
<1>4. CASE ReadAnnotation(h) \/ Lock(h) \/ CreateSym(h) \/ LoadRecord(h) \/ SaveRecord(h)
    BY <1>1, <1>2, <1>3, <1>4
       DEF ReadAnnotation, Lock, CreateSym, LoadRecord, SaveRecord, PreStartTypeOK
<1>5. CASE CreateStat(h) \/ CreateCtl(h) \/ UndoSym(h) \/ UndoCtl(h)
    BY <1>1, <1>2, <1>3, <1>5
       DEF CreateStat, CreateCtl, UndoSym, UndoCtl, Advance, PreStartTypeOK
<1> QED
    BY <1>4, <1>5

LEMMA WorkingLive ==
    ASSUME TypeInv, LiveInv, NEW h \in Handlers, Working(h)
    PROVE  LiveInv'
<1>1. /\ UNCHANGED <<assign, ready, ctr, done, want, list, at, awaited>>
      /\ \A g \in Handlers : g # h => pc'[g] = pc[g]
      /\ pc[h] \notin {"idle", "locate"} /\ pc'[h] \notin {"idle", "locate"}
    BY WorkingFrame
<1>2. \A g \in Handlers : ActiveOK(g)'
    BY <1>1 DEF LiveInv, ActiveOK, Active, Holds
<1>3. OnePerPod'
    BY <1>1 DEF LiveInv, OnePerPod, Active
<1>4. ReadyInv' /\ Disjoint' /\ HashInv'
    BY <1>1 DEF LiveInv, ReadyInv, Disjoint, HashInv, Holds
<1> QED
    BY <1>2, <1>3, <1>4 DEF LiveInv

LEMMA CrashLive ==
    ASSUME LiveInv, Crash
    PROVE  LiveInv'
<1>1. UNCHANGED <<assign, ready, ctr, done>>
    BY DEF Crash, kubeletVars
<1>2. \A g \in Handlers : pc'[g] = "idle" /\ at'[g] = Nil
    BY DEF Crash, PreStartReset
<1> QED
    BY <1>1, <1>2 DEF LiveInv, ActiveOK, Active, OnePerPod, ReadyInv, Disjoint, HashInv, Holds

LEMMA NextLive ==
    ASSUME {"timeout", "recreate"} \cap Faults = {},
           TypeInv, RecordInv, LiveInv, [Next]_vars
    PROVE  LiveInv'
<1>1. ASSUME NEW h \in Handlers, GiveUp(h) \/ Serve(h)
      PROVE  LiveInv'
    BY <1>1, LocateLive, ReturnLive, WorkingLive DEF GiveUp, Serve, Handler, Working
<1> QED
    BY <1>1, EnvironmentLive, ScheduleLive, StopLive, ContainerLive, AdmitLive, CallLive,
       CrashLive DEF Next

-----------------------------------------------------------------------------
(***************************************************************************)
(* A container whose claims are all answered has a record, unless the last *)
(* save failed: then link 0, which Allocate announced, has been removed,   *)
(* and the runtime refuses to create the container.                        *)
(***************************************************************************)
Recorded(ct) ==
    \E cl \in ClaimsOf(ct) : /\ assign[cl] # {}
                             /\ db[ct[1]][ct[2]] = NewDevice(assign[cl], cl[3])

Link0(l) == <<Hash[l], 0>>

Unlinked(l) == "save" \in Faults /\ sym[Link0(l)] = Nil

(***************************************************************************)
(* Where a handler is after its loop: what it is about to save is what is  *)
(* stored, but for its own entry; the removal of the links of a failed     *)
(* save begins with link 0.                                                *)
(***************************************************************************)
HandlerStored(h) ==
    /\ pc[h] \in {"load", "save"} => idx[h] = 1
    /\ pc[h] \in {"undo", "undoctl"} => "save" \in Faults
    /\ pc[h] = "undoctl" \/ (pc[h] = "undo" /\ idx[h] > 1) => Unlinked(list[h])
    /\ pc[h] = "save" /\ at[h][1] \in api =>
           info[h] = [db[at[h][1]] EXCEPT ![at[h][2]] = NewDevice(list[h], want[h][3])]
    /\ pc[h] = "ok" /\ want[h][1] \in api =>
           Recorded(Cont(want[h])) \/ Unlinked(list[h])

AnsweredInv ==
    \A ct \in PodContainers :
        ct[1] \in api /\ ClaimsOf(ct) \subseteq ready
        => Recorded(ct) \/ \E cl \in ClaimsOf(ct) : Unlinked(assign[cl])

CreatedInv ==
    \A ct \in PodContainers : ct[1] \in api /\ ctr[ct] # "waiting" => Recorded(ct)

StoredInv == AnsweredInv /\ CreatedInv /\ \A h \in Handlers : HandlerStored(h)

LEMMA InitStored == Init => StoredInv
BY DEF Init, PreStartInit, KubeletInit, SitterInit, StoredInv, AnsweredInv, CreatedInv,
       HandlerStored

LEMMA ClaimsOfParts ==
    /\ \A ct : \A cl \in ClaimsOf(ct) :
           cl \in Claims /\ Cont(cl) = ct /\ cl[1] = ct[1] /\ cl[2] = ct[2]
    /\ \A cl \in Claims : cl \in ClaimsOf(Cont(cl)) /\ Cont(cl) \in PodContainers
    /\ \A ct \in PodContainers : ClaimsOf(ct) # {} /\ ct \in Pods \X Containers
<1>1. \A ct : \A cl \in ClaimsOf(ct) :
          cl \in Claims /\ Cont(cl) = ct /\ cl[1] = ct[1] /\ cl[2] = ct[2]
    BY DEF ClaimsOf, Cont
<1>2. \A cl \in Claims : cl \in ClaimsOf(Cont(cl)) /\ Cont(cl) \in PodContainers
    BY ClaimParts DEF ClaimsOf, Cont
<1>3. \A ct \in PodContainers : ClaimsOf(ct) # {} /\ ct \in Pods \X Containers
    BY ClaimParts DEF ClaimsOf, PodContainers
<1> QED
    BY <1>1, <1>2, <1>3

LEMMA Link0Typed == \A l \in Lists : Link0(l) \in LinkIDs
BY HashAssumption, BoundsAssumption DEF Link0, LinkIDs

(***************************************************************************)
(* A record stays while the pod exists, and a missing link stays missing,  *)
(* in every step that neither saves nor makes a link.                      *)
(***************************************************************************)
LEMMA StoredFrame ==
    ASSUME TypeInv, LiveInv, StoredInv, OnlyRemoves,
           UNCHANGED <<assign, pc, want, list, at, idx, info>>,
           api' \subseteq api, ready' \subseteq ready,
           \A p \in api : db'[p] = db[p],
           \A ct \in PodContainers :
               ct[1] \in api' /\ ctr'[ct] # "waiting" => Recorded(ct)
    PROVE  StoredInv'
<1>1. \A ct : ct[1] \in api /\ Recorded(ct) => Recorded(ct)'
    BY DEF Recorded
<1>2. \A l \in Lists : Unlinked(l) => Unlinked(l)'
    BY Link0Typed DEF Unlinked, OnlyRemoves
<1>3. \A cl \in ready : assign[cl] \in Lists
    BY DEF LiveInv, ReadyInv, Holds, TypeInv, TypeOK, KubeletTypeOK
<1>4. AnsweredInv'
    BY <1>1, <1>2, <1>3 DEF StoredInv, AnsweredInv
<1>5. CreatedInv'
    BY <1>1 DEF CreatedInv
<1>6. \A h \in Handlers : HandlerStored(h)'
  <2> SUFFICES ASSUME NEW h \in Handlers PROVE HandlerStored(h)'
    OBVIOUS
  <2>1. Active(h) => want[h] \in Claims /\ list[h] \in Lists
    BY LiveTypes
  <2>2. Cont(want[h])[1] = want[h][1]
    BY DEF Cont
  <2> QED
    BY <1>1, <1>2, <2>1, <2>2 DEF StoredInv, HandlerStored, Active
<1> QED
    BY <1>4, <1>5, <1>6 DEF StoredInv

LEMMA CollectEffect ==
    ASSUME TypeInv, RecordInv, Collect
    PROVE  /\ UNCHANGED <<pod, api, cache, assign, ready, ctr, names, seen, done>>
           /\ UNCHANGED preStartVars
           /\ OnlyRemoves
           /\ \A p \in api : db'[p] = db[p]
<1> USE DEF Collect
<1>1. UNCHANGED outsideGC
    BY DEF GCStep, GCStart, GCScan, GCAsk, GCNext, GCRemoveSym, GCRemoveCtl,
           GCDeleteRecord
<1>2. OnlyRemoves
    BY DEF GCStep, GCStart, GCScan, GCAsk, GCNext, GCRemoveSym, GCRemoveCtl,
           GCDeleteRecord, RemoveSym, RemoveCtl, operatorVars, OnlyRemoves,
           TypeInv, TypeOK, OperatorTypeOK
<1>3. \A p \in api : db'[p] = db[p]
  <2>1. CASE GCDeleteRecord
    <3>1. line.pod \notin api
      BY <2>1 DEF GCDeleteRecord, RecordInv, DoomedInv, Gone
    <3> QED
      BY <2>1, <3>1 DEF GCDeleteRecord, DeleteRecord, TypeInv, TypeOK, StorageTypeOK,
                        SitterTypeOK
  <2>2. CASE ~GCDeleteRecord
    BY <2>2 DEF GCStep, GCStart, GCScan, GCAsk, GCNext, GCRemoveSym, GCRemoveCtl
  <2> QED
    BY <2>1, <2>2
<1> QED
    BY <1>1, <1>2, <1>3 DEF outsideGC, sitterVars, kubeletVars

LEMMA EnvironmentStored ==
    ASSUME TypeInv, RecordInv, LiveInv, StoredInv,
           \/ \E p \in Pods : StopPod(p) \/ RemovePod(p) \/ InformerDeliver(p)
           \/ \E ct \in PodContainers : StopContainer(ct)
           \/ Collect \/ Start \/ UNCHANGED vars
    PROVE  StoredInv'
<1>1. CASE Collect
    BY <1>1, CollectEffect, StoredFrame DEF preStartVars, StoredInv, CreatedInv
<1>2. CASE ~Collect
  <2>1. /\ UNCHANGED <<db, sym, assign, preStartVars>>
        /\ api' \subseteq api /\ ready' \subseteq ready
        /\ \A ct \in PodContainers : ctr'[ct] # "waiting" => ctr[ct] # "waiting"
    BY <1>2, LiveTypes
       DEF StopPod, Terminate, RemovePod, ApiDelete, InformerDeliver, Deliver,
           StopContainer, ContainerExit, Start, Sync, vars, sitterVars, kubeletVars,
           agentVars, operatorVars
  <2>2. OnlyRemoves
    BY <2>1 DEF OnlyRemoves
  <2> QED
    BY <2>1, <2>2, StoredFrame DEF preStartVars, StoredInv, CreatedInv
<1> QED
    BY <1>1, <1>2

(***************************************************************************)
(* The runtime creates a container only when all announced links exist,    *)
(* link 0 among them: so it has a record.                                  *)
(***************************************************************************)
LEMMA AnnouncesLink0 == \A l \in Lists, r \in Resources : 0 \in AllocateLinks(l, r)
<1> SUFFICES ASSUME NEW l \in Lists PROVE 0 \in CoreLinks(l)
    BY DEF AllocateLinks
<1>1. Cardinality(l) \in Nat /\ Percent \in Nat \ {0}
    BY ListsAssumption, FS_CardinalityType, BoundsAssumption
<1>2. Cardinality(l) > Percent => (Cardinality(l) \div Percent) - 1 >= 0
    BY <1>1
<1> QED
    BY <1>1, <1>2 DEF CoreLinks

LEMMA StartStored ==
    ASSUME TypeInv, LiveInv, StoredInv, NEW ct \in PodContainers, StartContainer(ct)
    PROVE  StoredInv'
<1>1. /\ UNCHANGED <<db, sym, api, assign, preStartVars>>
      /\ ready' \subseteq ready
    BY DEF StartContainer, CreateContainer, HookReadDir, HookReadLink, HookToolkit,
           HookFails, HookExits, agentVars, operatorVars, sitterVars
<1>2. OnlyRemoves
    BY <1>1 DEF OnlyRemoves
<1>3. ASSUME NEW c \in PodContainers, c[1] \in api, ctr'[c] # "waiting"
      PROVE  Recorded(c)
  <2>1. CASE ctr[c] # "waiting"
    BY <1>3, <2>1 DEF StoredInv, CreatedInv
  <2>2. CASE ctr[c] = "waiting"
    <3>1. c = ct /\ CreateContainer(ct) /\ ClaimsOf(ct) \subseteq ready /\ LinksExist(ct)
      BY <1>3, <2>2, LiveTypes
         DEF StartContainer, CreateContainer, HookReadDir, HookReadLink, HookToolkit,
             HookFails, HookExits
    <3>2. ASSUME NEW cl \in ClaimsOf(ct) PROVE ~Unlinked(assign[cl])
      <4>1. assign[cl] \in Lists /\ cl[3] \in Resources
        BY <3>1, ClaimParts, ClaimsOfParts
           DEF LiveInv, ReadyInv, Holds, TypeInv, TypeOK, KubeletTypeOK
      <4>2. sym[Link0(assign[cl])] \in Present
        BY <3>1, <4>1, AnnouncesLink0 DEF LinksExist, IsExist, Link0
      <4> QED
        BY <4>2, PresentAssumption, NamesAssumption DEF Unlinked
    <3> QED
      BY <1>3, <3>1, <3>2 DEF StoredInv, AnsweredInv
  <2> QED
    BY <2>1, <2>2
<1> QED
    BY <1>1, <1>2, <1>3, StoredFrame DEF preStartVars

LEMMA ScheduleStored ==
    ASSUME TypeInv, RecordInv, LiveInv, StoredInv, "recreate" \notin Faults,
           NEW p \in Pods, NEW a \in Annotations, Schedule(p, a)
    PROVE  StoredInv'
<1>1. pod[p] = Nil /\ api' = api \cup {p}
    BY DEF Schedule, PodCreated
<1>2. assign' = assign
    BY <1>1 DEF Schedule, PodCreated, RecordInv, OriginInv, Known, TypeInv, TypeOK,
                KubeletTypeOK
<1>3. UNCHANGED <<db, sym, pc, want, list, at, idx, info, ready, ctr>>
    BY DEF Schedule, PodCreated, agentVars, operatorVars, preStartVars
<1>4. \A cl \in Claims : Holds(cl) => cl[1] # p
    BY <1>1 DEF Holds, RecordInv, OriginInv, Known
<1>5. \A ct \in PodContainers : ClaimsOf(ct) \subseteq ready => ct[1] # p
    BY <1>4, ClaimsOfParts, LiveTypes DEF LiveInv, ReadyInv
<1>6. \A ct : Recorded(ct)' <=> Recorded(ct)
    BY <1>2, <1>3 DEF Recorded
<1>7. \A l : Unlinked(l)' <=> Unlinked(l)
    BY <1>3 DEF Unlinked
<1>8. AnsweredInv' /\ CreatedInv'
    BY <1>1, <1>2, <1>3, <1>5, <1>6, <1>7
       DEF StoredInv, AnsweredInv, CreatedInv, LiveInv, ReadyInv
<1>9. \A h \in Handlers : HandlerStored(h)'
  <2> SUFFICES ASSUME NEW h \in Handlers PROVE HandlerStored(h)'
    OBVIOUS
  <2>1. Active(h) => want[h][1] # p
    BY <1>4, LiveTypes DEF LiveInv, ActiveOK
  <2>2. pc[h] = "save" => at[h][1] # p
    BY <2>1, NamesAssumption DEF LiveInv, ActiveOK, Active, Cont, TypeInv, HandlerInv,
       HandlerOK, Looping
  <2> QED
    BY <1>1, <1>3, <1>6, <1>7, <2>1, <2>2 DEF StoredInv, HandlerStored, Active
<1> QED
    BY <1>8, <1>9 DEF StoredInv

LEMMA AdmitStored ==
    ASSUME TypeInv, LiveInv, StoredInv, NEW cl \in Claims, NEW l \in Lists, Admit(cl, l)
    PROVE  StoredInv'
<1>1. UNCHANGED <<db, sym, pc, want, list, at, idx, info, ready, ctr, api>>
    BY DEF Admit, Allocate, agentVars, operatorVars, preStartVars, sitterVars
<1>2. \A c \in Claims : Holds(c) => assign'[c] = assign[c]
    BY DEF Admit, Allocate, Holds, TypeInv, TypeOK, KubeletTypeOK
<1>3. \A ct : Recorded(ct) /\ (\A c \in ClaimsOf(ct) : c[1] \notin done) => Recorded(ct)'
    BY <1>1, <1>2, ClaimsOfParts DEF Recorded, Holds
<1>4. \A x : Unlinked(x)' <=> Unlinked(x)
    BY <1>1 DEF Unlinked
<1>5. \A ct : ClaimsOf(ct) \subseteq ready =>
          \A c \in ClaimsOf(ct) : c[1] \notin done /\ assign'[c] = assign[c]
    BY <1>2, ClaimsOfParts DEF LiveInv, ReadyInv, Holds
<1>6. AnsweredInv' /\ CreatedInv'
    BY <1>1, <1>3, <1>4, <1>5
       DEF StoredInv, AnsweredInv, CreatedInv, LiveInv, ReadyInv
<1>7. \A h \in Handlers : HandlerStored(h)'
  <2> SUFFICES ASSUME NEW h \in Handlers PROVE HandlerStored(h)'
    OBVIOUS
  <2>1. Active(h) /\ Recorded(Cont(want[h])) => Recorded(Cont(want[h]))'
    <3>1. Active(h) => want[h][1] \notin done
      BY DEF LiveInv, ActiveOK, Holds
    <3>2. \A c \in ClaimsOf(Cont(want[h])) : c[1] = want[h][1]
      BY ClaimsOfParts DEF Cont
    <3> QED
      BY <1>1, <1>3, <3>1, <3>2
  <2> QED
    BY <1>1, <1>4, <2>1 DEF StoredInv, HandlerStored, Active
<1> QED
    BY <1>6, <1>7 DEF StoredInv

(***************************************************************************)
(* The steps of one handler. What is said of the others stays true as long *)
(* as records and missing links do.                                        *)
(***************************************************************************)
LEMMA OtherStored ==
    ASSUME NEW g \in Handlers, HandlerStored(g), UNCHANGED api,
           pc'[g] = pc[g], want'[g] = want[g], list'[g] = list[g], at'[g] = at[g],
           idx'[g] = idx[g], info'[g] = info[g],
           pc[g] = "save" /\ at[g][1] \in api => db'[at[g][1]] = db[at[g][1]],
           pc[g] = "ok" /\ want[g][1] \in api /\ Recorded(Cont(want[g]))
               => Recorded(Cont(want[g]))',
           pc[g] \in {"undo", "undoctl", "ok"} /\ Unlinked(list[g]) => Unlinked(list[g])'
    PROVE  HandlerStored(g)'
BY DEF HandlerStored

LEMMA AnsweredFrame ==
    ASSUME LiveInv, AnsweredInv, CreatedInv, UNCHANGED <<api, assign, ready, ctr>>,
           \A ct \in PodContainers : ct[1] \in api /\ Recorded(ct) => Recorded(ct)',
           \A ct \in PodContainers : ClaimsOf(ct) \subseteq ready =>
               \A cl \in ClaimsOf(ct) : Unlinked(assign[cl]) => Unlinked(assign[cl])'
    PROVE  AnsweredInv' /\ CreatedInv'
BY DEF LiveInv, ReadyInv, AnsweredInv, CreatedInv

LEMMA CallStored ==
    ASSUME TypeInv, LiveInv, StoredInv, NEW h \in Handlers,
           \/ Locate(h) \/ \E cl \in Claims : Call(h, cl)
    PROVE  StoredInv'
<1>1. UNCHANGED <<db, sym, api, assign, ready, ctr, idx, info>>
    BY DEF Call, PreStartContainer, Locate, operatorVars, sitterVars, kubeletVars
<1>2. /\ pc'[h] \in {"locate", "getpod", "fail"}
      /\ \A g \in Handlers : g # h => /\ pc'[g] = pc[g] /\ want'[g] = want[g]
                                      /\ list'[g] = list[g] /\ at'[g] = at[g]
  <2>1. CASE Locate(h)
    BY <2>1 DEF Locate, Goto, TypeInv, TypeOK, PreStartTypeOK
  <2>2. ASSUME NEW cl \in Claims, Call(h, cl)
        PROVE  /\ pc'[h] = "locate"
               /\ \A g \in Handlers : g # h => /\ pc'[g] = pc[g] /\ want'[g] = want[g]
                                               /\ list'[g] = list[g] /\ at'[g] = at[g]
    BY <2>2 DEF Call, PreStartContainer, Goto, TypeInv, TypeOK, PreStartTypeOK
  <2> QED
    BY <2>1, <2>2
<1>3. /\ \A ct : Recorded(ct)' <=> Recorded(ct)
      /\ \A l : Unlinked(l)' <=> Unlinked(l)
    BY <1>1 DEF Recorded, Unlinked
<1>4. AnsweredInv' /\ CreatedInv'
    BY <1>1, <1>3, AnsweredFrame DEF StoredInv
<1>5. HandlerStored(h)'
    BY <1>2 DEF HandlerStored
<1>6. \A g \in Handlers : g # h => HandlerStored(g)'
    BY <1>1, <1>2, <1>3, OtherStored DEF StoredInv
<1> QED
    BY <1>4, <1>5, <1>6 DEF StoredInv

(***************************************************************************)
(* A handler that makes a link does so for a container that is not created *)
(* yet: no other container and no other handler misses that link.          *)
(***************************************************************************)
LEMMA SameHash ==
    ASSUME TypeInv, LiveInv, "collide" \notin Faults, NEW h \in Handlers, Active(h),
           NEW cl \in Claims, Holds(cl), Hash[assign[cl]] = Hash[list[h]]
    PROVE  Cont(want[h]) = Cont(cl)
<1>1. want[h] \in Claims /\ assign[want[h]] = list[h] /\ assign[want[h]] # {}
    BY LiveTypes DEF LiveInv, ActiveOK, Holds
<1> QED
    BY <1>1 DEF LiveInv, HashInv, Holds

LEMMA CreateSymStored ==
    ASSUME TypeInv, LiveInv, StoredInv, "save" \in Faults => "collide" \notin Faults,
           NEW h \in Handlers, CreateSym(h)
    PROVE  StoredInv'
<1>1. /\ UNCHANGED <<db, api, assign, ready, ctr, want, list, at, idx, info>>
      /\ pc[h] = "sym"
    BY DEF CreateSym, sitterVars, kubeletVars
<1>2. /\ pc'[h] \in {"ctl", "fail"}
      /\ \A g \in Handlers : g # h => pc'[g] = pc[g]
    BY DEF CreateSym, Goto, TypeInv, TypeOK, PreStartTypeOK
<1>3. ASSUME NEW l \in Lists, Hash[l] # Hash[list[h]]
      PROVE  sym'[Link0(l)] = sym[Link0(l)]
  <2>1. Link0(l) \in LinkIDs /\ Link0(l) # LinkOf(h)
    BY <1>3, Link0Typed DEF Link0, LinkOf
  <2> QED
    BY <2>1 DEF CreateSym, Symlink, operatorVars, TypeInv, TypeOK, OperatorTypeOK
<1>4. \A ct : Recorded(ct)' <=> Recorded(ct)
    BY <1>1 DEF Recorded
<1>5. ASSUME NEW cl \in Claims, Holds(cl), Unlinked(assign[cl]), Cont(cl) # Cont(want[h])
      PROVE  Unlinked(assign[cl])'
  <2>1. Hash[assign[cl]] # Hash[list[h]]
    BY <1>1, <1>5, SameHash DEF Active, Unlinked
  <2>2. assign[cl] \in Lists
    BY <1>5 DEF Holds, TypeInv, TypeOK, KubeletTypeOK
  <2> QED
    BY <1>1, <1>3, <1>5, <2>1, <2>2 DEF Unlinked
<1>6. want[h] \in Claims /\ want[h] \notin ready
    BY <1>1, LiveTypes DEF Active, LiveInv, ActiveOK
<1>7. AnsweredInv' /\ CreatedInv'
  <2>1. ASSUME NEW ct \in PodContainers, ClaimsOf(ct) \subseteq ready,
               NEW cl \in ClaimsOf(ct), Unlinked(assign[cl])
        PROVE  Unlinked(assign[cl])'
    <3>1. cl \in Claims /\ Cont(cl) = ct /\ Holds(cl)
      BY <2>1, ClaimsOfParts DEF LiveInv, ReadyInv
    <3>2. Cont(want[h]) # ct
      BY <1>6, <2>1, ClaimsOfParts
    <3> QED
      BY <1>5, <2>1, <3>1, <3>2
  <2> QED
    BY <1>1, <1>4, <2>1, AnsweredFrame DEF StoredInv
<1>8. HandlerStored(h)'
    BY <1>2 DEF HandlerStored
<1>9. ASSUME NEW g \in Handlers, g # h
      PROVE  HandlerStored(g)'
  <2>1. ASSUME Active(g), Unlinked(list[g]) PROVE Unlinked(list[g])'
    <3>1. want[g] \in Claims /\ Holds(want[g]) /\ assign[want[g]] = list[g]
      BY <2>1, LiveTypes DEF LiveInv, ActiveOK
    <3>2. Cont(want[g]) # Cont(want[h])
      BY <1>1, <1>9, <2>1 DEF LiveInv, OnePerPod, Active, Cont
    <3> QED
      BY <1>1, <1>5, <2>1, <3>1, <3>2
  <2> QED
    BY <1>1, <1>2, <1>4, <1>9, <2>1, OtherStored DEF StoredInv, Active
<1> QED
    BY <1>7, <1>8, <1>9 DEF StoredInv

(***************************************************************************)
(* The steps that change no link and no record.                            *)
(***************************************************************************)
LEMMA QuietStored ==
    ASSUME TypeInv, LiveInv, StoredInv, NEW h \in Handlers,
           ReadAnnotation(h) \/ Lock(h) \/ CreateStat(h) \/ CreateCtl(h) \/ LoadRecord(h)
    PROVE  StoredInv'
<1>1. /\ UNCHANGED <<db, sym>>
      /\ UNCHANGED <<api, assign, ready, ctr, want, list, at>>
    BY DEF ReadAnnotation, Lock, CreateStat, CreateCtl, LoadRecord, SymlinkCtl,
           operatorVars, sitterVars, kubeletVars
<1>2. \A g \in Handlers : g # h => /\ pc'[g] = pc[g] /\ idx'[g] = idx[g]
                                   /\ info'[g] = info[g]
    BY WorkingFrame DEF Working
<1>3. /\ \A ct : Recorded(ct)' <=> Recorded(ct)
      /\ \A l : Unlinked(l)' <=> Unlinked(l)
    BY <1>1 DEF Recorded, Unlinked
<1>4. AnsweredInv' /\ CreatedInv'
    BY <1>1, <1>3, AnsweredFrame DEF StoredInv
<1>5. \A g \in Handlers : g # h => HandlerStored(g)'
    BY <1>1, <1>2, <1>3, OtherStored DEF StoredInv
<1>6. HandlerStored(h)'
  <2>1. CASE ReadAnnotation(h) \/ Lock(h)
    <3>1. pc'[h] \in {"lock", "stat", "fail"}
      BY <2>1 DEF ReadAnnotation, Lock, Goto, TypeInv, TypeOK, PreStartTypeOK
    <3> QED
      BY <3>1 DEF HandlerStored
  <2>2. CASE CreateStat(h) \/ CreateCtl(h)
    <3>1. pc'[h] \in {"stat", "sym", "fail"} \/ (pc'[h] = "load" /\ idx'[h] = 1)
      BY <2>2 DEF CreateStat, CreateCtl, Advance, Goto, TypeInv, TypeOK, PreStartTypeOK
    <3> QED
      BY <3>1 DEF HandlerStored
  <2>3. CASE LoadRecord(h)
    <3>1. /\ pc'[h] = "save" /\ idx'[h] = 1
          /\ info'[h] = [db[at[h][1]] EXCEPT ![at[h][2]] = NewDevice(list[h], want[h][3])]
      BY <2>3 DEF LoadRecord, LoadOrCreate, Goto, StoredInv, HandlerStored, TypeInv, TypeOK,
                  PreStartTypeOK
    <3> QED
      BY <1>1, <3>1 DEF HandlerStored
  <2> QED
    BY <2>1, <2>2, <2>3
<1> QED
    BY <1>4, <1>5, <1>6 DEF StoredInv

(***************************************************************************)
(* The save. What it writes over was read before, with steps of others in  *)
(* between, but nobody else has written to the pod's record since.         *)
(***************************************************************************)
LEMMA SaveStored ==
    ASSUME TypeInv, LiveInv, StoredInv, NEW h \in Handlers, SaveRecord(h)
    PROVE  StoredInv'
<1>1. /\ UNCHANGED <<sym, api, assign, ready, ctr, want, list, at, idx, info>>
      /\ pc[h] = "save"
    BY DEF SaveRecord, operatorVars, sitterVars, kubeletVars
<1>2. \A g \in Handlers : g # h => pc'[g] = pc[g]
    BY DEF SaveRecord, Goto, TypeInv, TypeOK, PreStartTypeOK
<1>3. /\ at[h] \in Pods \X Containers
      /\ want[h] \in Claims /\ at[h] = Cont(want[h])
      /\ Holds(want[h]) /\ assign[want[h]] = list[h]
    BY <1>1, NamesAssumption, LiveTypes
       DEF TypeInv, HandlerInv, HandlerOK, Looping, LiveInv, ActiveOK, Active
<1>4. at[h][1] = want[h][1] /\ at[h][2] = want[h][2]
    BY <1>3 DEF Cont
<1>5. \A l : Unlinked(l)' <=> Unlinked(l)
    BY <1>1 DEF Unlinked
<1>6. \A g \in Handlers : g # h /\ Active(g) => want[g][1] # at[h][1]
    BY <1>1, <1>4 DEF LiveInv, OnePerPod, Active
<1>7. \A g \in Handlers : g # h /\ pc[g] = "save" => at[g][1] # at[h][1]
    BY <1>6, NamesAssumption
       DEF TypeInv, HandlerInv, HandlerOK, Looping, LiveInv, ActiveOK, Active, Cont
<1>8. CASE Save(at[h][1], info[h]) /\ pc' = [pc EXCEPT ![h] = "ok"]
  <2>1. pc'[h] = "ok"
    BY <1>8 DEF TypeInv, TypeOK, PreStartTypeOK
  <2>2. /\ db'[at[h][1]] = info[h]
        /\ \A p \in Pods : p # at[h][1] => db'[p] = db[p]
    BY <1>3, <1>8 DEF Save, TypeInv, TypeOK, StorageTypeOK
  <2>3. ASSUME at[h][1] \in api
        PROVE  /\ info[h][at[h][2]] = NewDevice(list[h], want[h][3])
               /\ \A c \in Containers : c # at[h][2] => info[h][c] = db[at[h][1]][c]
    <3>1. info[h] = [db[at[h][1]] EXCEPT ![at[h][2]] = NewDevice(list[h], want[h][3])]
      BY <1>1, <2>3 DEF StoredInv, HandlerStored
    <3>2. db[at[h][1]] \in PodInfos /\ at[h][2] \in Containers
      BY <1>3 DEF TypeInv, TypeOK, StorageTypeOK
    <3> QED
      BY <3>1, <3>2 DEF PodInfos
  <2>4. at[h][1] \in api => Recorded(at[h])'
    <3>1. want[h] \in ClaimsOf(at[h])
      BY <1>3, ClaimsOfParts
    <3> QED
      BY <1>1, <1>3, <2>2, <2>3, <3>1 DEF Recorded, Holds
  <2>5. ASSUME NEW ct \in PodContainers, ct[1] \in api, Recorded(ct) PROVE Recorded(ct)'
    <3>1. CASE ct = at[h]
      BY <1>1, <2>4, <2>5, <3>1 DEF Recorded
    <3>2. CASE ct[1] = at[h][1] /\ ct[2] # at[h][2]
      <4>1. db'[ct[1]][ct[2]] = db[ct[1]][ct[2]]
        BY <2>2, <2>3, <2>5, <3>2, ClaimsOfParts
      <4> QED
        BY <1>1, <2>5, <4>1 DEF Recorded
    <3>3. CASE ct[1] # at[h][1]
      <4>1. db'[ct[1]][ct[2]] = db[ct[1]][ct[2]]
        BY <2>2, <3>3, ClaimsOfParts
      <4> QED
        BY <1>1, <2>5, <4>1 DEF Recorded
    <3>4. ct \in Pods \X Containers
      BY ClaimsOfParts
    <3> QED
      BY <1>3, <3>1, <3>2, <3>3, <3>4
  <2>6. AnsweredInv' /\ CreatedInv'
    BY <1>1, <1>5, <2>5, AnsweredFrame DEF StoredInv
  <2>7. HandlerStored(h)'
    BY <1>1, <1>3, <1>4, <2>1, <2>4 DEF HandlerStored
  <2>8. ASSUME NEW g \in Handlers, g # h PROVE HandlerStored(g)'
    <3>1. Active(g) => Cont(want[g]) \in PodContainers /\ Cont(want[g])[1] = want[g][1]
      BY ClaimsOfParts, LiveTypes DEF Cont
    <3>2. pc[g] = "save" => db'[at[g][1]] = db[at[g][1]]
      BY <1>7, <2>2, <2>8 DEF TypeInv, HandlerInv, HandlerOK, Looping
    <3> QED
      BY <1>1, <1>2, <1>5, <2>5, <2>8, <3>1, <3>2, OtherStored DEF StoredInv, Active
  <2> QED
    BY <2>6, <2>7, <2>8 DEF StoredInv
<1>9. CASE "save" \in Faults /\ pc' = [pc EXCEPT ![h] = "undo"] /\ UNCHANGED db
  <2>1. pc'[h] = "undo" /\ idx[h] = 1
    BY <1>1, <1>9 DEF StoredInv, HandlerStored, TypeInv, TypeOK, PreStartTypeOK
  <2>2. \A ct : Recorded(ct)' <=> Recorded(ct)
    BY <1>1, <1>9 DEF Recorded
  <2>3. AnsweredInv' /\ CreatedInv'
    BY <1>1, <1>5, <2>2, AnsweredFrame DEF StoredInv
  <2>4. HandlerStored(h)'
    BY <1>1, <1>9, <2>1 DEF HandlerStored
  <2>5. \A g \in Handlers : g # h => HandlerStored(g)'
    BY <1>1, <1>2, <1>5, <1>9, <2>2, OtherStored DEF StoredInv
  <2> QED
    BY <2>3, <2>4, <2>5 DEF StoredInv
<1> QED
    BY <1>8, <1>9 DEF SaveRecord, Goto

(***************************************************************************)
(* The removal of the links after a failed save: link 0 is the first to go *)
(* and, unless removing fails, gone when the handler answers.              *)
(***************************************************************************)
LEMMA UndoStored ==
    ASSUME TypeInv, LiveInv, StoredInv, "save" \in Faults => "unlink" \notin Faults,
           NEW h \in Handlers, UndoSym(h) \/ UndoCtl(h)
    PROVE  StoredInv'
<1>1. /\ UNCHANGED <<db, api, assign, ready, ctr, want, list, at, info>>
      /\ pc[h] \in {"undo", "undoctl"} /\ Active(h)
    BY DEF UndoSym, UndoCtl, sitterVars, kubeletVars, Active
<1>2. \A g \in Handlers : g # h => pc'[g] = pc[g] /\ idx'[g] = idx[g]
    BY WorkingFrame DEF Working
<1>3. \A ct : Recorded(ct)' <=> Recorded(ct)
    BY <1>1 DEF Recorded
<1>4. OnlyRemoves
    BY DEF UndoSym, UndoCtl, RemoveSym, RemoveCtl, operatorVars, OnlyRemoves, TypeInv,
           TypeOK, OperatorTypeOK
<1>5. \A l \in Lists : Unlinked(l) => Unlinked(l)'
    BY <1>4, Link0Typed DEF Unlinked, OnlyRemoves
<1>6. \A cl \in Claims : Holds(cl) => assign[cl] \in Lists
    BY DEF Holds, TypeInv, TypeOK, KubeletTypeOK
<1>7. AnsweredInv' /\ CreatedInv'
  <2>1. \A ct \in PodContainers : ClaimsOf(ct) \subseteq ready =>
            \A cl \in ClaimsOf(ct) : assign[cl] \in Lists
    BY <1>6, ClaimsOfParts DEF LiveInv, ReadyInv
  <2> QED
    BY <1>1, <1>3, <1>5, <2>1, AnsweredFrame DEF StoredInv
<1>8. \A g \in Handlers : g # h => HandlerStored(g)'
    BY <1>1, <1>2, <1>3, <1>5, OtherStored, LiveTypes DEF StoredInv, Active
<1>9. "save" \in Faults /\ "unlink" \notin Faults
    BY <1>1 DEF StoredInv, HandlerStored
<1>10. Unlinked(list[h])'
  <2>1. list[h] \in Lists /\ idx[h] \in 1 .. MaxLinks
    BY <1>1, LiveTypes DEF TypeInv, TypeOK, PreStartTypeOK
  <2>2. CASE Unlinked(list[h])
    BY <1>1, <1>5, <2>1, <2>2
  <2>3. CASE ~Unlinked(list[h])
    <3>1. UndoSym(h) /\ idx[h] = 1
      <4>1. pc[h] = "undo" /\ ~(idx[h] > 1)
        BY <1>1, <2>3 DEF StoredInv, HandlerStored
      <4>2. idx[h] = 1
        BY <2>1, <4>1, BoundsAssumption
      <4> QED
        BY <4>1, <4>2 DEF UndoCtl
    <3>2. LinkOf(h) = Link0(list[h]) /\ Link0(list[h]) \in LinkIDs
      BY <2>1, <3>1, Link0Typed DEF LinkOf, Link0
    <3>3. sym'[Link0(list[h])] = Nil
      BY <1>9, <3>1, <3>2 DEF UndoSym, RemoveSym, CanRemoveSym, operatorVars, TypeInv,
                              TypeOK, OperatorTypeOK
    <3> QED
      BY <1>1, <1>9, <3>3 DEF Unlinked
  <2> QED
    BY <2>2, <2>3
<1>11. pc'[h] \in {"undo", "undoctl", "ok"}
    BY DEF UndoSym, UndoCtl, Advance, Goto, TypeInv, TypeOK, PreStartTypeOK
<1>12. HandlerStored(h)'
    BY <1>1, <1>9, <1>10, <1>11 DEF HandlerStored
<1> QED
    BY <1>7, <1>8, <1>12 DEF StoredInv

LEMMA ReturnStored ==
    ASSUME TypeInv, LiveInv, StoredInv, NEW h \in Handlers, Return(h)
    PROVE  StoredInv'
<1>1. /\ UNCHANGED <<db, sym, api, assign, ctr>> /\ Active(h)
      /\ ready' = ready \/ (pc[h] = "ok" /\ ready' = ready \cup {want[h]})
    BY DEF Return, Active, operatorVars, sitterVars
<1>2. /\ pc'[h] = "idle"
      /\ \A g \in Handlers : g # h =>
             /\ pc'[g] = pc[g] /\ want'[g] = want[g] /\ list'[g] = list[g]
             /\ at'[g] = at[g] /\ idx'[g] = idx[g] /\ info'[g] = info[g]
    BY DEF Return, Goto, TypeInv, TypeOK, PreStartTypeOK
<1>3. /\ \A ct : Recorded(ct)' <=> Recorded(ct)
      /\ \A l : Unlinked(l)' <=> Unlinked(l)
    BY <1>1 DEF Recorded, Unlinked
<1>4. AnsweredInv'
  <2> SUFFICES ASSUME NEW ct \in PodContainers, ct[1] \in api, ClaimsOf(ct) \subseteq ready'
               PROVE  Recorded(ct) \/ \E cl \in ClaimsOf(ct) : Unlinked(assign[cl])
    BY <1>1, <1>3 DEF AnsweredInv
  <2>1. CASE ClaimsOf(ct) \subseteq ready
    BY <2>1 DEF StoredInv, AnsweredInv
  <2>2. CASE ~(ClaimsOf(ct) \subseteq ready)
    <3>1. pc[h] = "ok" /\ want[h] \in ClaimsOf(ct)
      BY <1>1, <2>2
    <3>2. Cont(want[h]) = ct /\ want[h][1] = ct[1] /\ assign[want[h]] = list[h]
      BY <1>1, <3>1, ClaimsOfParts DEF LiveInv, ActiveOK
    <3> QED
      BY <3>1, <3>2 DEF StoredInv, HandlerStored
  <2> QED
    BY <2>1, <2>2
<1>5. CreatedInv'
    BY <1>1, <1>3 DEF StoredInv, CreatedInv
<1>6. HandlerStored(h)'
    BY <1>2 DEF HandlerStored
<1>7. \A g \in Handlers : g # h => HandlerStored(g)'
    BY <1>1, <1>2, <1>3, OtherStored DEF StoredInv
<1> QED
    BY <1>4, <1>5, <1>6, <1>7 DEF StoredInv

LEMMA CrashStored ==
    ASSUME StoredInv, Crash
    PROVE  StoredInv'
<1>1. UNCHANGED <<db, sym, api, assign, ready, ctr>>
    BY DEF Crash, operatorVars, kubeletVars
<1>2. \A g \in Handlers : pc'[g] = "idle"
    BY DEF Crash, PreStartReset
<1> QED
    BY <1>1, <1>2 DEF StoredInv, AnsweredInv, CreatedInv, HandlerStored, Recorded, Unlinked

(***************************************************************************)
(* A failing save is made up for by the removal of the links, if that does *)
(* not fail as well and the hash is no other container's.                  *)
(***************************************************************************)
SavesRecover == "save" \notin Faults \/ {"unlink", "collide"} \cap Faults = {}

LEMMA NextStored ==
    ASSUME {"timeout", "recreate"} \cap Faults = {}, SavesRecover,
           TypeInv, RecordInv, LiveInv, StoredInv, [Next]_vars
    PROVE  StoredInv'
<1>1. ASSUME NEW h \in Handlers, GiveUp(h) \/ Serve(h)
      PROVE  StoredInv'
    BY <1>1, CallStored, QuietStored, CreateSymStored, SaveStored, UndoStored, ReturnStored
       DEF GiveUp, Serve, Handler, SavesRecover
<1> QED
    BY <1>1, EnvironmentStored, StartStored, ScheduleStored, AdmitStored, CallStored,
       CrashStored DEF Next

(***************************************************************************)
(* While a container of an existing pod runs, the database holds a device  *)
(* it was started with (PreStartContainer's load, change and save of the   *)
(* pod's record, next to the handlers of other pods and the collector, and *)
(* its removal of the links when the save fails): for any number of pods,  *)
(* containers and handlers, with crashes, reused hashes, failing links,    *)
(* lookups and hooks and force-deleted pods.                               *)
(***************************************************************************)
THEOREM RunningIsRecorded ==
    ASSUME {"timeout", "recreate"} \cap Faults = {}, SavesRecover
    PROVE  Spec => []RunningRecorded
<1> DEFINE Inv == TypeInv /\ RecordInv /\ LiveInv /\ StoredInv
<1>1. Init => Inv
    BY InitTypes, InitRecord, InitLive, InitStored
<1>2. Inv /\ [Next]_vars => Inv'
    BY NextTypes, NextRecord, NextLive, NextStored
<1>3. Inv => RunningRecorded
    BY DEF StoredInv, CreatedInv, Recorded, RunningRecorded
<1> QED
    BY <1>1, <1>2, <1>3, PTL DEF Spec
=============================================================================
