----------------------------- MODULE LinkProofs -----------------------------
(***************************************************************************)
(* What happens to the links under /dev, for every value of the constants: *)
(* those of a running container stay, it sees all GPUs assumed for it, and *)
(* no link is out of the collector's reach. Each theorem names the faults  *)
(* it excludes; README.md says what goes wrong with them.                  *)
(***************************************************************************)
EXTENDS RecordProofs

(***************************************************************************)
(* Who may remove a link of a live container. The entries of a pod that    *)
(* lives, stored or about to be saved, are of its own claims; a stored     *)
(* line, or one the collector has in hand, with the hash of a live claim   *)
(* is of that claim's pod.                                                 *)
(***************************************************************************)
OwnEntry(p, c, d) ==
    \E cl \in ClaimsOf(<<p, c>>) : assign[cl] # {} /\ d = NewDevice(assign[cl], cl[3])

StoredOwn ==
    \A p \in Pods : p \notin done =>
        \A c \in Containers : db[p][c] # Nil => OwnEntry(p, c, db[p][c])

SavedOwn(h) ==
    pc[h] = "save" =>
        \A c \in Containers : info[h][c] # Nil => OwnEntry(at[h][1], c, info[h][c])

OwnInv == StoredOwn /\ \A h \in Handlers : SavedOwn(h)

AllLines == ForEach \cup scan \cup todo \cup ({line} \ {Nil})

OwnLine(x) ==
    \A cl \in Claims : Holds(cl) /\ x.dev.hash = Hash[assign[cl]] => x.pod = cl[1]

LineInv == \A x \in AllLines : OwnLine(x)

LinkedInv ==
    \A ct \in PodContainers : ct[1] \in api /\ ctr[ct] # "waiting" => LinksExist(ct)

KeepInv == OwnInv /\ LineInv /\ LinkedInv

LEMMA InitKeep == Init => KeepInv
<1> SUFFICES ASSUME Init PROVE KeepInv
    OBVIOUS
<1>1. OwnInv
    BY DEF Init, StorageInit, NewPI, PreStartInit, OwnInv, StoredOwn, SavedOwn
<1>2. LineInv
    BY DEF Init, StorageInit, NewPI, GCInit, LineInv, AllLines, ForEach
<1>3. LinkedInv
    BY DEF Init, KubeletInit, LinkedInv
<1> QED
    BY <1>1, <1>2, <1>3 DEF KeepInv

LEMMA AnnouncedTyped ==
    ASSUME NEW l \in Lists, NEW r \in Resources, NEW i \in AllocateLinks(l, r)
    PROVE  <<Hash[l], i>> \in LinkIDs
<1>1. /\ Cardinality(l) \in Nat /\ Percent \in Nat \ {0} /\ MaxLinks \in Nat \ {0}
      /\ Cardinality(l) \div Percent <= MaxLinks
    BY ListsAssumption, FS_CardinalityType, BoundsAssumption
<1>2. i \in 0 .. MaxLinks - 1
    BY <1>1 DEF AllocateLinks, CoreLinks
<1> QED
    BY <1>2, HashAssumption DEF LinkIDs

-----------------------------------------------------------------------------
(***************************************************************************)
(* Entries of live pods.                                                   *)
(***************************************************************************)
LEMMA OwnFrame ==
    ASSUME OwnInv, UNCHANGED <<assign, db>>, done \subseteq done',
           \A h \in Handlers : pc'[h] = "save" =>
               pc[h] = "save" /\ info'[h] = info[h] /\ at'[h] = at[h]
    PROVE  OwnInv'
BY DEF OwnInv, StoredOwn, SavedOwn, OwnEntry

LEMMA ScheduleOwn ==
    ASSUME TypeInv, RecordInv, OwnInv, "recreate" \notin Faults,
           NEW p \in Pods, NEW a \in Annotations, Schedule(p, a)
    PROVE  OwnInv'
<1>1. pod[p] = Nil
    BY DEF Schedule
<1>2. assign' = assign
    BY <1>1 DEF Schedule, PodCreated, RecordInv, OriginInv, Known, TypeInv, TypeOK,
                KubeletTypeOK
<1>3. UNCHANGED <<db, pc, info, at>> /\ done' = done \ {p}
    BY DEF Schedule, PodCreated, agentVars, preStartVars
<1>4. db[p] = NewPI
    BY <1>1 DEF RecordInv, OriginInv, Known
<1> QED
    BY <1>2, <1>3, <1>4 DEF OwnInv, StoredOwn, SavedOwn, OwnEntry, NewPI

LEMMA AdmitOwn ==
    ASSUME TypeInv, LiveInv, OwnInv, NEW cl \in Claims, NEW l \in Lists, Admit(cl, l)
    PROVE  OwnInv'
<1>1. UNCHANGED <<db, pc, info, at, done>>
    BY DEF Admit, Allocate, agentVars, preStartVars
<1>2. \A c \in Claims : Holds(c) => assign'[c] = assign[c]
    BY DEF Admit, Allocate, Holds, TypeInv, TypeOK, KubeletTypeOK
<1>3. ASSUME NEW p, p \notin done, NEW c, NEW d, OwnEntry(p, c, d)
      PROVE  OwnEntry(p, c, d)'
    BY <1>2, <1>3, ClaimsOfParts DEF OwnEntry, Holds
<1>4. \A h \in Handlers : pc[h] = "save" => at[h][1] \notin done
    BY NamesAssumption DEF LiveInv, ActiveOK, Active, Cont, Holds, TypeInv, HandlerInv,
       HandlerOK, Looping
<1> QED
    BY <1>1, <1>3, <1>4 DEF OwnInv, StoredOwn, SavedOwn

LEMMA AtSave ==
    ASSUME TypeInv, LiveInv, NEW h \in Handlers, pc[h] \in Looping
    PROVE  /\ at[h] \in Pods \X Containers /\ at[h] = Cont(want[h])
           /\ want[h] \in ClaimsOf(at[h]) /\ Holds(want[h]) /\ assign[want[h]] = list[h]
           /\ at[h][1] = want[h][1] /\ at[h][2] = want[h][2] /\ list[h] \in Lists
<1>1. at[h] \in Pods \X Containers /\ Active(h)
    BY DEF TypeInv, HandlerInv, HandlerOK, Looping, Active
<1>2. at[h] = Cont(want[h]) /\ Holds(want[h]) /\ assign[want[h]] = list[h]
    BY <1>1, NamesAssumption DEF LiveInv, ActiveOK
<1>3. want[h] \in Claims /\ list[h] \in Lists
    BY <1>1, LiveTypes
<1> QED
    BY <1>1, <1>2, <1>3, ClaimsOfParts DEF Cont

LEMMA LoadOwn ==
    ASSUME TypeInv, LiveInv, OwnInv, NEW h \in Handlers, LoadRecord(h)
    PROVE  OwnInv'
<1>1. UNCHANGED <<assign, db, done, at>> /\ pc[h] = "load"
    BY DEF LoadRecord, kubeletVars
<1>2. \A g \in Handlers : g # h => pc'[g] = pc[g] /\ info'[g] = info[g]
    BY WorkingFrame DEF Working
<1>3. info'[h] = [db[at[h][1]] EXCEPT ![at[h][2]] = NewDevice(list[h], want[h][3])]
    BY DEF LoadRecord, LoadOrCreate, TypeInv, TypeOK, PreStartTypeOK
<1>4. /\ at[h] \in Pods \X Containers /\ want[h] \in ClaimsOf(at[h])
      /\ Holds(want[h]) /\ assign[want[h]] = list[h] /\ at[h][1] = want[h][1]
    BY <1>1, AtSave DEF Looping
<1>5. db[at[h][1]] \in PodInfos
    BY <1>4 DEF TypeInv, TypeOK, StorageTypeOK
<1>6. ASSUME NEW c \in Containers, info'[h][c] # Nil
      PROVE  OwnEntry(at[h][1], c, info'[h][c])
  <2>1. CASE c = at[h][2]
    <3>1. info'[h][c] = NewDevice(list[h], want[h][3])
      BY <1>3, <1>5, <2>1 DEF PodInfos
    <3>2. <<at[h][1], c>> = at[h]
      BY <1>4, <2>1
    <3> QED
      BY <1>4, <3>1, <3>2 DEF OwnEntry, Holds
  <2>2. CASE c # at[h][2]
    <3>1. info'[h][c] = db[at[h][1]][c]
      BY <1>3, <1>5, <2>2 DEF PodInfos
    <3> QED
      BY <1>4, <1>6, <3>1 DEF OwnInv, StoredOwn, Holds
  <2> QED
    BY <2>1, <2>2
<1>7. StoredOwn'
    BY <1>1 DEF OwnInv, StoredOwn, OwnEntry
<1>8. SavedOwn(h)'
    BY <1>1, <1>6 DEF SavedOwn, OwnEntry
<1>9. \A g \in Handlers : g # h => SavedOwn(g)'
    BY <1>1, <1>2 DEF OwnInv, SavedOwn, OwnEntry
<1> QED
    BY <1>7, <1>8, <1>9 DEF OwnInv

LEMMA SaveOwn ==
    ASSUME TypeInv, LiveInv, OwnInv, NEW h \in Handlers, SaveRecord(h)
    PROVE  OwnInv'
<1>1. UNCHANGED <<assign, done, at, info>> /\ pc[h] = "save"
    BY DEF SaveRecord, kubeletVars
<1>2. \A g \in Handlers : pc'[g] = "save" => pc[g] = "save"
    BY DEF SaveRecord, Goto, TypeInv, TypeOK, PreStartTypeOK
<1>3. \A p \in Pods : db'[p] = db[p] \/ (p = at[h][1] /\ db'[p] = info[h])
    BY DEF SaveRecord, Save, TypeInv, TypeOK, StorageTypeOK
<1>4. \A p, c, d : OwnEntry(p, c, d)' <=> OwnEntry(p, c, d)
    BY <1>1 DEF OwnEntry
<1>5. StoredOwn'
    BY <1>1, <1>3, <1>4 DEF OwnInv, StoredOwn, SavedOwn
<1> QED
    BY <1>1, <1>2, <1>4, <1>5 DEF OwnInv, SavedOwn

LEMMA CollectOwn ==
    ASSUME TypeInv, RecordInv, OwnInv, Collect
    PROVE  OwnInv'
<1>1. UNCHANGED <<assign, done, pc, at, info>>
    BY CollectEffect DEF preStartVars
<1>2. \A p \in Pods : db'[p] = db[p] \/ db'[p] = NewPI
    BY DEF Collect, GCStep, GCStart, GCScan, GCAsk, GCNext, GCRemoveSym, GCRemoveCtl,
           GCDeleteRecord, DeleteRecord, TypeInv, TypeOK, StorageTypeOK
<1> QED
    BY <1>1, <1>2 DEF OwnInv, StoredOwn, SavedOwn, OwnEntry, NewPI

LEMMA NextOwn ==
    ASSUME {"timeout", "recreate"} \cap Faults = {},
           TypeInv, RecordInv, LiveInv, OwnInv, [Next]_vars
    PROVE  OwnInv'
<1>1. CASE \/ \E p \in Pods : StopPod(p) \/ RemovePod(p) \/ InformerDeliver(p)
           \/ \E ct \in PodContainers : StartContainer(ct) \/ StopContainer(ct)
           \/ Start \/ UNCHANGED vars
  <2>1. UNCHANGED <<assign, db, pc, info, at>> /\ done \subseteq done'
    BY <1>1 DEF StopPod, Terminate, RemovePod, ApiDelete, InformerDeliver, Deliver,
           StartContainer, CreateContainer, HookReadDir, HookReadLink, HookToolkit,
           HookFails, HookExits, StopContainer, ContainerExit, Start, vars, kubeletVars,
           agentVars, preStartVars
  <2> QED
    BY <2>1, OwnFrame
<1>2. ASSUME NEW h \in Handlers,
             \/ Locate(h) \/ Return(h) \/ \E cl \in Claims : Call(h, cl)
      PROVE  OwnInv'
  <2>1. UNCHANGED <<assign, db, done>>
    BY <1>2 DEF Locate, Return, Call, PreStartContainer, kubeletVars
  <2>2. \A g \in Handlers : pc'[g] = "save" =>
            pc[g] = "save" /\ info'[g] = info[g] /\ at'[g] = at[g]
    <3>1. CASE Locate(h)
      BY <3>1 DEF Locate, Goto, TypeInv, TypeOK, PreStartTypeOK
    <3>2. CASE Return(h)
      BY <3>2 DEF Return, Goto, TypeInv, TypeOK, PreStartTypeOK
    <3>3. CASE \E cl \in Claims : Call(h, cl)
      BY <3>3 DEF Call, PreStartContainer, Goto, TypeInv, TypeOK, PreStartTypeOK
    <3> QED
      BY <1>2, <3>1, <3>2, <3>3
  <2> QED
    BY <2>1, <2>2, OwnFrame
<1>3. ASSUME NEW h \in Handlers,
             \/ ReadAnnotation(h) \/ Lock(h) \/ CreateStat(h) \/ CreateSym(h)
             \/ CreateCtl(h) \/ UndoSym(h) \/ UndoCtl(h)
      PROVE  OwnInv'
  <2>1. UNCHANGED <<assign, db, done, at>>
    BY <1>3 DEF ReadAnnotation, Lock, CreateStat, CreateSym, CreateCtl, UndoSym, UndoCtl,
                kubeletVars
  <2>2. \A g \in Handlers : g # h => pc'[g] = pc[g] /\ info'[g] = info[g]
    BY <1>3, WorkingFrame DEF Working
  <2>3. pc'[h] # "save"
    BY <1>3 DEF ReadAnnotation, Lock, CreateStat, CreateSym, CreateCtl, UndoSym, UndoCtl,
                Advance, Goto, TypeInv, TypeOK, PreStartTypeOK
  <2> QED
    BY <2>1, <2>2, <2>3, OwnFrame
<1>4. CASE Crash
    BY <1>4, OwnFrame DEF Crash, PreStartReset, kubeletVars
<1> QED
    BY <1>1, <1>2, <1>3, <1>4, ScheduleOwn, AdmitOwn, LoadOwn, SaveOwn, CollectOwn
       DEF Next, GiveUp, Serve, Handler

-----------------------------------------------------------------------------
(***************************************************************************)
(* Lines. Only a save adds one, and only an admission makes a claim hold a *)
(* hash it did not hold before.                                            *)
(***************************************************************************)
LEMMA LineFrame ==
    ASSUME LineInv, AllLines' \subseteq AllLines,
           \A cl \in Claims : Holds(cl)' => Holds(cl) /\ assign'[cl] = assign[cl]
    PROVE  LineInv'
BY DEF LineInv, OwnLine

LEMMA StoredLines ==
    \A x : x \in ForEach <=>
        \E p \in Pods, c \in Containers :
            db[p][c] # Nil /\ x = [pod |-> p, con |-> c, dev |-> db[p][c]]
<1>1. ASSUME NEW x \in ForEach
      PROVE  \E p \in Pods, c \in Containers :
                 db[p][c] # Nil /\ x = [pod |-> p, con |-> c, dev |-> db[p][c]]
    BY DEF ForEach
<1>2. ASSUME NEW p \in Pods, NEW c \in Containers, db[p][c] # Nil
      PROVE  [pod |-> p, con |-> c, dev |-> db[p][c]] \in ForEach
  <2>1. <<p, c>> \in {x \in Pods \X Containers : db[x[1]][x[2]] # Nil}
    BY <1>2
  <2> QED
    BY <2>1 DEF ForEach
<1> QED
    BY <1>1, <1>2

LEMMA CollectLine ==
    ASSUME TypeInv, RecordInv, LineInv, Collect
    PROVE  LineInv'
<1>1. UNCHANGED <<assign, done>>
    BY CollectEffect
<1>2. ForEach' \subseteq ForEach
  <2>1. \A p \in Pods, c \in Containers : db'[p][c] # Nil => db'[p][c] = db[p][c]
    BY DEF Collect, GCStep, GCStart, GCScan, GCAsk, GCNext, GCRemoveSym, GCRemoveCtl,
           GCDeleteRecord, DeleteRecord, NewPI, TypeInv, TypeOK, StorageTypeOK
  <2>2. \A x \in ForEach' : \E p \in Pods, c \in Containers :
            db'[p][c] # Nil /\ x = [pod |-> p, con |-> c, dev |-> db'[p][c]]
    BY DEF ForEach
  <2> QED
    BY <2>1, <2>2, StoredLines
<1>3. scan' \cup todo' \cup ({line'} \ {Nil}) \subseteq AllLines
  <2>1. CASE GCStart \/ GCScan
    BY <2>1 DEF GCStart, GCScan, AllLines
  <2>2. CASE GCAsk
    BY <2>2 DEF GCAsk, LinesOf, AllLines
  <2>3. CASE GCNext
    BY <2>3 DEF GCNext, LinesOf, AllLines
  <2>4. CASE GCRemoveSym \/ GCRemoveCtl \/ GCDeleteRecord
    BY <2>4 DEF GCRemoveSym, GCRemoveCtl, GCDeleteRecord, GCError, AllLines
  <2> QED
    BY <2>1, <2>2, <2>3, <2>4 DEF Collect, GCStep
<1>4. AllLines' \subseteq AllLines
    BY <1>2, <1>3 DEF AllLines
<1> QED
    BY <1>1, <1>4, LineFrame DEF Holds

LEMMA ScheduleLine ==
    ASSUME TypeInv, RecordInv, LineInv, "recreate" \notin Faults,
           NEW p \in Pods, NEW a \in Annotations, Schedule(p, a)
    PROVE  LineInv'
<1>1. pod[p] = Nil
    BY DEF Schedule
<1>2. assign' = assign
    BY <1>1 DEF Schedule, PodCreated, RecordInv, OriginInv, Known, TypeInv, TypeOK,
                KubeletTypeOK
<1>3. UNCHANGED <<db, scan, todo, line>> /\ done' = done \ {p}
    BY DEF Schedule, PodCreated, agentVars, gcVars
<1>4. \A cl \in Claims : Holds(cl)' => Holds(cl)
    BY <1>1, <1>2, <1>3 DEF Holds, RecordInv, OriginInv, Known
<1> QED
    BY <1>2, <1>3, <1>4, LineFrame DEF AllLines, ForEach

LEMMA AdmitLine ==
    ASSUME TypeInv, LineInv, "leftover" \notin Faults,
           NEW cl \in Claims, NEW l \in Lists, Admit(cl, l)
    PROVE  LineInv'
<1>1. UNCHANGED <<db, scan, todo, line, done>> /\ NoRecord(l)
    BY DEF Admit, Allocate, agentVars, gcVars
<1>2. AllLines' = AllLines
    BY <1>1 DEF AllLines, ForEach
<1>3. assign'[cl] = l
    BY DEF Admit, Allocate
<1>4. \A c \in Claims : c # cl /\ Holds(c)' => Holds(c) /\ assign'[c] = assign[c]
    BY <1>1 DEF Admit, Allocate, Holds
<1>5. \A x \in AllLines : x.dev.hash # Hash[l]
    BY <1>1 DEF NoRecord, AllLines
<1> QED
    BY <1>2, <1>3, <1>4, <1>5 DEF LineInv, OwnLine

(***************************************************************************)
(* The lines a save adds are of the pod's own claims, so a live claim with *)
(* the same hash is one of that pod.                                       *)
(***************************************************************************)
LEMMA SaveLine ==
    ASSUME TypeInv, LiveInv, OwnInv, LineInv, "collide" \notin Faults,
           NEW h \in Handlers, SaveRecord(h), UNCHANGED gcVars
    PROVE  LineInv'
<1>1. UNCHANGED <<assign, done, scan, todo, line>> /\ pc[h] = "save"
    BY DEF SaveRecord, kubeletVars, gcVars
<1>2. \A p \in Pods : db'[p] = db[p] \/ (p = at[h][1] /\ db'[p] = info[h])
    BY DEF SaveRecord, Save, TypeInv, TypeOK, StorageTypeOK
<1>3. ASSUME NEW x \in ForEach' PROVE OwnLine(x)
  <2>1. PICK p \in Pods, c \in Containers :
            db'[p][c] # Nil /\ x = [pod |-> p, con |-> c, dev |-> db'[p][c]]
    BY <1>3 DEF ForEach
  <2>2. CASE db'[p] = db[p]
    BY <2>1, <2>2, StoredLines DEF LineInv, AllLines
  <2>3. CASE p = at[h][1] /\ db'[p] = info[h]
    <3>1. OwnEntry(p, c, x.dev) /\ x.pod = p
      BY <1>1, <2>1, <2>3 DEF OwnInv, SavedOwn
    <3>2. PICK o \in ClaimsOf(<<p, c>>) :
              assign[o] # {} /\ x.dev = NewDevice(assign[o], o[3])
      BY <3>1 DEF OwnEntry
    <3>3. o \in Claims /\ o[1] = p /\ x.dev.hash = Hash[assign[o]]
      BY <3>2, ClaimsOfParts DEF NewDevice
    <3>4. \A cl \in Claims : assign[cl] # {} /\ Hash[assign[o]] = Hash[assign[cl]] =>
              Cont(o) = Cont(cl)
      BY <3>2, <3>3 DEF LiveInv, HashInv
    <3>5. \A cl \in Claims : Cont(o) = Cont(cl) => o[1] = cl[1]
      BY DEF Cont
    <3> QED
      BY <3>1, <3>3, <3>4, <3>5 DEF OwnLine, Holds
  <2> QED
    BY <1>2, <2>2, <2>3
<1>4. \A x \in AllLines' : OwnLine(x)
    BY <1>1, <1>3 DEF LineInv, AllLines
<1> QED
    BY <1>1, <1>4 DEF LineInv, OwnLine, Holds

LEMMA NextLine ==
    ASSUME {"timeout", "collide", "leftover", "recreate"} \cap Faults = {},
           TypeInv, RecordInv, LiveInv, OwnInv, LineInv, [Next]_vars
    PROVE  LineInv'
<1>1. ASSUME UNCHANGED <<assign, db, scan, todo, line>>, done \subseteq done'
      PROVE  LineInv'
    BY <1>1, LineFrame DEF AllLines, ForEach, Holds
<1>2. CASE \/ \E p \in Pods : StopPod(p) \/ RemovePod(p) \/ InformerDeliver(p)
           \/ \E ct \in PodContainers : StartContainer(ct) \/ StopContainer(ct)
           \/ Start \/ UNCHANGED vars
    BY <1>1, <1>2 DEF StopPod, Terminate, RemovePod, ApiDelete, InformerDeliver, Deliver,
           StartContainer, CreateContainer, HookReadDir, HookReadLink, HookToolkit,
           HookFails, HookExits, StopContainer, ContainerExit, Start, vars, kubeletVars,
           agentVars, gcVars
<1>3. ASSUME NEW h \in Handlers,
             \/ Locate(h) \/ ReadAnnotation(h) \/ Lock(h) \/ CreateStat(h) \/ CreateSym(h)
             \/ CreateCtl(h) \/ LoadRecord(h) \/ UndoSym(h) \/ UndoCtl(h) \/ Return(h)
             \/ \E cl \in Claims : PreStartContainer(h, cl),
             UNCHANGED gcVars
      PROVE  LineInv'
    BY <1>1, <1>3 DEF Locate, ReadAnnotation, Lock, CreateStat, CreateSym, CreateCtl,
       LoadRecord, UndoSym, UndoCtl, Return, PreStartContainer, kubeletVars, gcVars
<1>4. CASE Crash
  <2>1. AllLines' \subseteq AllLines /\ UNCHANGED <<assign, done>>
    BY <1>4 DEF Crash, GCReset, AllLines, ForEach, kubeletVars
  <2> QED
    BY <2>1, LineFrame DEF Holds
<1> QED
    BY <1>2, <1>3, <1>4, ScheduleLine, AdmitLine, SaveLine, CollectLine
       DEF Next, Call, GiveUp, Serve, Handler

-----------------------------------------------------------------------------
(***************************************************************************)
(* Links of containers that exist. Creation waits for them; afterwards     *)
(* only a failed save's removal or the collector could take one away.      *)
(***************************************************************************)
LEMMA LinkedFrame ==
    ASSUME LinkedInv,
           \A ct \in PodContainers : ct[1] \in api' /\ ctr'[ct] # "waiting" =>
               /\ ct[1] \in api /\ ctr[ct] # "waiting"
               /\ \A cl \in ClaimsOf(ct) :
                      /\ assign'[cl] = assign[cl]
                      /\ \A i \in AllocateLinks(assign[cl], cl[3]) :
                             sym'[<<Hash[assign[cl]], i>>] = sym[<<Hash[assign[cl]], i>>]
    PROVE  LinkedInv'
BY DEF LinkedInv, LinksExist, IsExist

LEMMA CreatedHolds ==
    ASSUME TypeInv, LiveInv, NEW ct \in PodContainers, ctr[ct] # "waiting",
           NEW cl \in ClaimsOf(ct)
    PROVE  /\ cl \in ready /\ cl \in Claims /\ Holds(cl) /\ assign[cl] \in Lists
           /\ cl[3] \in Resources
BY ClaimsOfParts, ClaimParts
   DEF LiveInv, ReadyInv, Holds, TypeInv, TypeOK, KubeletTypeOK

LEMMA EnvironmentLinked ==
    ASSUME TypeInv, LinkedInv,
           \/ \E p \in Pods : StopPod(p) \/ RemovePod(p) \/ InformerDeliver(p)
           \/ \E ct \in PodContainers : StartContainer(ct) \/ StopContainer(ct)
           \/ Start \/ UNCHANGED vars
    PROVE  LinkedInv'
<1>1. UNCHANGED <<assign, sym>> /\ api' \subseteq api
    BY DEF StopPod, Terminate, RemovePod, ApiDelete, InformerDeliver, Deliver,
           StartContainer, CreateContainer, HookReadDir, HookReadLink, HookToolkit,
           HookFails, HookExits, StopContainer, ContainerExit, Start, Sync, vars,
           kubeletVars, sitterVars, agentVars, operatorVars
<1>2. ASSUME NEW ct \in PodContainers, ctr'[ct] # "waiting"
      PROVE  ctr[ct] # "waiting" \/ LinksExist(ct)
  <2>1. CASE \/ \E p \in Pods : StopPod(p) \/ RemovePod(p) \/ InformerDeliver(p)
             \/ Start \/ UNCHANGED vars
    BY <1>2, <2>1 DEF StopPod, Terminate, RemovePod, ApiDelete, InformerDeliver, Deliver,
                      Start, vars, kubeletVars
  <2>2. CASE \E c \in PodContainers : StartContainer(c) \/ StopContainer(c)
    BY <1>2, <2>2, LiveTypes
       DEF StartContainer, CreateContainer, HookReadDir, HookReadLink, HookToolkit,
           HookFails, HookExits, StopContainer, ContainerExit
  <2> QED
    BY <2>1, <2>2
<1> QED
    BY <1>1, <1>2 DEF LinkedInv, LinksExist, IsExist

LEMMA ScheduleLinked ==
    ASSUME TypeInv, RecordInv, LiveInv, LinkedInv, "recreate" \notin Faults,
           NEW p \in Pods, NEW a \in Annotations, Schedule(p, a)
    PROVE  LinkedInv'
<1>1. pod[p] = Nil
    BY DEF Schedule
<1>2. assign' = assign
    BY <1>1 DEF Schedule, PodCreated, RecordInv, OriginInv, Known, TypeInv, TypeOK,
                KubeletTypeOK
<1>3. UNCHANGED <<ctr, sym>> /\ api' = api \cup {p}
    BY DEF Schedule, PodCreated, agentVars, operatorVars
<1>4. \A ct \in PodContainers : ctr[ct] # "waiting" => ct[1] # p
  <2> SUFFICES ASSUME NEW ct \in PodContainers, ctr[ct] # "waiting" PROVE ct[1] # p
    OBVIOUS
  <2>1. PICK cl \in ClaimsOf(ct) : TRUE
    BY ClaimsOfParts
  <2> QED
    BY <1>1, <2>1, CreatedHolds, ClaimsOfParts DEF RecordInv, OriginInv, Known, Holds
<1> QED
    BY <1>2, <1>3, <1>4, LinkedFrame

LEMMA AdmitLinked ==
    ASSUME TypeInv, LiveInv, LinkedInv, NEW cl \in Claims, NEW l \in Lists, Admit(cl, l)
    PROVE  LinkedInv'
<1>1. UNCHANGED <<api, ctr, sym>>
    BY DEF Admit, Allocate, agentVars, operatorVars, sitterVars
<1>2. \A c \in Claims : Holds(c) => assign'[c] = assign[c]
    BY DEF Admit, Allocate, Holds, TypeInv, TypeOK, KubeletTypeOK
<1> QED
    BY <1>1, <1>2, CreatedHolds, LinkedFrame

LEMMA CreateSymLinked ==
    ASSUME TypeInv, LiveInv, LinkedInv, NEW h \in Handlers, CreateSym(h)
    PROVE  LinkedInv'
<1>1. UNCHANGED <<assign, api, ctr>>
    BY DEF CreateSym, sitterVars, kubeletVars
<1>2. \A id \in LinkIDs : sym[id] # Nil => sym'[id] = sym[id]
    BY DEF CreateSym, CanSymlink, Symlink, operatorVars, TypeInv, TypeOK, OperatorTypeOK
<1>3. ASSUME NEW ct \in PodContainers, ct[1] \in api, ctr[ct] # "waiting",
             NEW cl \in ClaimsOf(ct), NEW i \in AllocateLinks(assign[cl], cl[3])
      PROVE  sym'[<<Hash[assign[cl]], i>>] = sym[<<Hash[assign[cl]], i>>]
  <2>1. <<Hash[assign[cl]], i>> \in LinkIDs
    BY <1>3, CreatedHolds, AnnouncedTyped
  <2>2. sym[<<Hash[assign[cl]], i>>] # Nil
    BY <1>3, NamesAssumption, PresentAssumption DEF LinkedInv, LinksExist, IsExist
  <2> QED
    BY <1>2, <2>1, <2>2
<1> QED
    BY <1>1, <1>3, LinkedFrame

(***************************************************************************)
(* A handler undoes its links before it answers, and a container whose     *)
(* claims share the hash is not created before that.                       *)
(***************************************************************************)
LEMMA UndoLinked ==
    ASSUME TypeInv, LiveInv, LinkedInv, "collide" \notin Faults,
           NEW h \in Handlers, UndoSym(h)
    PROVE  LinkedInv'
<1>1. UNCHANGED <<assign, api, ctr>> /\ Active(h)
    BY DEF UndoSym, sitterVars, kubeletVars, Active
<1>2. \A id \in LinkIDs : id # LinkOf(h) => sym'[id] = sym[id]
    BY DEF UndoSym, RemoveSym, operatorVars, TypeInv, TypeOK, OperatorTypeOK
<1>3. ASSUME NEW ct \in PodContainers, ct[1] \in api, ctr[ct] # "waiting",
             NEW cl \in ClaimsOf(ct), NEW i \in AllocateLinks(assign[cl], cl[3])
      PROVE  sym'[<<Hash[assign[cl]], i>>] = sym[<<Hash[assign[cl]], i>>]
  <2>1. <<Hash[assign[cl]], i>> \in LinkIDs
    BY <1>3, CreatedHolds, AnnouncedTyped
  <2>2. Hash[assign[cl]] # Hash[list[h]]
    <3> SUFFICES ASSUME Hash[assign[cl]] = Hash[list[h]] PROVE FALSE
      OBVIOUS
    <3>1. Cont(want[h]) = Cont(cl)
      BY <1>1, <1>3, CreatedHolds, SameHash
    <3>2. want[h] \in ClaimsOf(ct)
      BY <1>1, <1>3, <3>1, ClaimsOfParts, LiveTypes
    <3> QED
      BY <1>1, <1>3, <3>2, CreatedHolds DEF LiveInv, ActiveOK
  <2>3. <<Hash[assign[cl]], i>> # LinkOf(h)
    BY <2>2 DEF LinkOf
  <2> QED
    BY <1>2, <2>1, <2>3
<1> QED
    BY <1>1, <1>3, LinkedFrame

(***************************************************************************)
(* The line the collector deletes is of a pod that is gone, and so has no  *)
(* hash of a live one.                                                     *)
(***************************************************************************)
LEMMA CollectLinked ==
    ASSUME TypeInv, RecordInv, LiveInv, LineInv, LinkedInv, Collect
    PROVE  LinkedInv'
<1>1. UNCHANGED <<assign, api, ctr>>
    BY CollectEffect
<1>2. CASE sym' = sym
    BY <1>1, <1>2, LinkedFrame
<1>3. CASE GCRemoveSym
  <2>1. line \in Lines /\ line.pod \notin api /\ OwnLine(line)
    BY <1>3, LinesAssumption
       DEF GCRemoveSym, TypeInv, CollectorInv, RecordInv, DoomedInv, Gone, LineInv, AllLines
  <2>2. \A id \in LinkIDs : id # GCLink => sym'[id] = sym[id]
    BY <1>3 DEF GCRemoveSym, RemoveSym, operatorVars, TypeInv, TypeOK, OperatorTypeOK
  <2>3. ASSUME NEW ct \in PodContainers, ct[1] \in api, ctr[ct] # "waiting",
               NEW cl \in ClaimsOf(ct), NEW i \in AllocateLinks(assign[cl], cl[3])
        PROVE  sym'[<<Hash[assign[cl]], i>>] = sym[<<Hash[assign[cl]], i>>]
    <3>1. <<Hash[assign[cl]], i>> \in LinkIDs
      BY <2>3, CreatedHolds, AnnouncedTyped
    <3>2. line.dev.hash # Hash[assign[cl]]
      BY <2>1, <2>3, CreatedHolds, ClaimsOfParts DEF OwnLine
    <3>3. <<Hash[assign[cl]], i>> # GCLink
      BY <3>2 DEF GCLink
    <3> QED
      BY <2>2, <3>1, <3>3
  <2> QED
    BY <1>1, <2>3, LinkedFrame
<1> QED
    BY <1>2, <1>3 DEF Collect, GCStep, GCStart, GCScan, GCAsk, GCNext, GCRemoveCtl,
                      GCDeleteRecord, RemoveCtl, operatorVars

LEMMA NextLinked ==
    ASSUME {"timeout", "collide", "leftover", "recreate"} \cap Faults = {},
           TypeInv, RecordInv, LiveInv, LineInv, LinkedInv, [Next]_vars
    PROVE  LinkedInv'
<1>1. ASSUME UNCHANGED <<assign, api, ctr, sym>>
      PROVE  LinkedInv'
    BY <1>1, LinkedFrame
<1>2. ASSUME NEW h \in Handlers,
             \/ Locate(h) \/ ReadAnnotation(h) \/ Lock(h) \/ CreateStat(h) \/ CreateCtl(h)
             \/ LoadRecord(h) \/ SaveRecord(h) \/ UndoCtl(h) \/ Return(h)
             \/ \E cl \in Claims : PreStartContainer(h, cl)
      PROVE  LinkedInv'
    BY <1>1, <1>2 DEF Locate, ReadAnnotation, Lock, CreateStat, CreateCtl, LoadRecord,
       SaveRecord, UndoCtl, Return, PreStartContainer, kubeletVars, sitterVars,
       operatorVars, SymlinkCtl, RemoveCtl
<1>3. CASE Crash
    BY <1>1, <1>3 DEF Crash, kubeletVars, operatorVars
<1> QED
    BY <1>2, <1>3, EnvironmentLinked, ScheduleLinked, AdmitLinked, CreateSymLinked,
       UndoLinked, CollectLinked DEF Next, Call, GiveUp, Serve, Handler

(***************************************************************************)
(* While a container of an existing pod runs, every link Allocate          *)
(* announced for it stays in place: GC, which asked the API server about   *)
(* other pods earlier, and PreStartContainer's removal of the links of a   *)
(* failed save take away none of them. For any number of pods, containers  *)
(* and handlers, with crashes, failing calls and force-deleted pods, as    *)
(* long as the kubelet waits for its answers and hands out no hash that a  *)
(* record or another container still refers to.                            *)
(***************************************************************************)
THEOREM RunningIsLinked ==
    ASSUME {"timeout", "collide", "leftover", "recreate"} \cap Faults = {}
    PROVE  Spec => []RunningLinked
<1> DEFINE Inv == TypeInv /\ RecordInv /\ LiveInv /\ KeepInv
<1>1. Init => Inv
    BY InitTypes, InitRecord, InitLive, InitKeep
<1>2. Inv /\ [Next]_vars => Inv'
    BY NextTypes, NextRecord, NextLive, NextOwn, NextLine, NextLinked DEF KeepInv
<1>3. Inv => RunningLinked
    BY DEF KeepInv, LinkedInv, RunningLinked
<1> QED
    BY <1>1, <1>2, <1>3, PTL DEF Spec

-----------------------------------------------------------------------------
(***************************************************************************)
(* What a container finds in its links. Link i of a claim that holds       *)
(* devices stands for element i + 1 of its container's annotation, which   *)
(* has as many elements as links are announced; a pod that has not stopped *)
(* exists.                                                                 *)
(***************************************************************************)
Annotation(ct) == pod[ct[1]][ct[2]]

InDev(id) == sym[id] # Nil \/ id \in ctl

AliveInv == \A p \in Pods : Known(p) /\ p \notin done => p \in api

MatchInv == \A cl \in Claims : assign[cl] # {} => Matches(cl, assign[cl])

PlaceOK(cl, id) ==
    /\ InDev(id) => id[2] < Len(Annotation(cl))
    /\ sym[id] # Nil => sym[id] = Annotation(cl)[id[2] + 1]

PlaceInv ==
    \A cl \in Claims, id \in LinkIDs :
        assign[cl] # {} /\ id[1] = Hash[assign[cl]] => PlaceOK(cl, id)

PlacesInv == AliveInv /\ MatchInv /\ PlaceInv

(***************************************************************************)
(* Faults without which links follow the annotations.                      *)
(***************************************************************************)
Orderly ==
    /\ Reused \cap Faults = {}
    /\ {"timeout", "recreate", "force", "mismatch", "leftover"} \cap Faults = {}

LEMMA InitPlaces == Init => PlacesInv
BY DEF Init, SitterInit, KubeletInit, PlacesInv, AliveInv, MatchInv, PlaceInv, Known

LEMMA AnnouncedLinks ==
    ASSUME NEW l \in Lists, NEW r \in Resources
    PROVE  /\ Cardinality(AllocateLinks(l, r)) \in Nat \ {0}
           /\ AllocateLinks(l, r) = 0 .. Cardinality(AllocateLinks(l, r)) - 1
           /\ Cardinality(AllocateLinks(l, r)) = LastLink(NewDevice(l, r)) + 1
<1>1. Cardinality(l) \in Nat /\ Percent \in Nat \ {0}
    BY ListsAssumption, FS_CardinalityType, BoundsAssumption
<1> DEFINE k == Cardinality(l) \div Percent
<1>2. CASE r = "core" /\ Cardinality(l) > Percent
  <2>1. k \in Nat \ {0}
    BY <1>1, <1>2
  <2>2. AllocateLinks(l, r) = 0 .. k - 1 /\ LastLink(NewDevice(l, r)) = k - 1
    BY <1>2 DEF AllocateLinks, CoreLinks, LastLink, NewDevice
  <2>3. Cardinality(0 .. k - 1) = k
    <3> HIDE DEF k
    <3> QED
      BY <2>1, FS_Interval
  <2> HIDE DEF k
  <2> QED
    BY <2>1, <2>2, <2>3
<1>3. CASE ~(r = "core" /\ Cardinality(l) > Percent)
  <2>1. AllocateLinks(l, r) = {0} /\ LastLink(NewDevice(l, r)) = 0
    BY <1>3 DEF AllocateLinks, CoreLinks, LastLink, NewDevice, Resources
  <2>2. Cardinality({0}) = 1
    BY FS_Singleton
  <2> QED
    BY <2>1, <2>2
<1> QED
    BY <1>2, <1>3

(***************************************************************************)
(* Steps that make no link.                                                *)
(***************************************************************************)
Shrinks == OnlyRemoves /\ ctl' \subseteq ctl

LEMMA PlaceFrame ==
    ASSUME MatchInv, PlaceInv, UNCHANGED <<pod, assign>>, Shrinks
    PROVE  MatchInv' /\ PlaceInv'
<1>1. MatchInv'
    BY DEF MatchInv, Matches
<1>2. PlaceInv'
    BY DEF PlaceInv, PlaceOK, InDev, Annotation, Shrinks, OnlyRemoves
<1> QED
    BY <1>1, <1>2

LEMMA SchedulePlaces ==
    ASSUME TypeInv, RecordInv, PlacesInv, "recreate" \notin Faults,
           NEW p \in Pods, NEW a \in Annotations, Schedule(p, a)
    PROVE  PlacesInv'
<1>1. pod[p] = Nil
    BY DEF Schedule
<1>2. assign' = assign
    BY <1>1 DEF Schedule, PodCreated, RecordInv, OriginInv, Known, TypeInv, TypeOK,
                KubeletTypeOK
<1>3. /\ UNCHANGED <<sym, ctl>> /\ done' = done \ {p} /\ api' = api \cup {p}
      /\ pod' = [pod EXCEPT ![p] = a]
    BY DEF Schedule, PodCreated, agentVars, operatorVars
<1>4. \A q \in Pods : q # p => pod'[q] = pod[q]
    BY <1>3 DEF TypeInv, TypeOK, SitterTypeOK
<1>5. AliveInv'
    BY <1>3, <1>4 DEF PlacesInv, AliveInv, Known
<1>6. \A cl \in Claims : assign[cl] # {} => pod'[cl[1]] = pod[cl[1]]
    BY <1>1, <1>4, ClaimParts DEF RecordInv, OriginInv, Known
<1>7. MatchInv' /\ PlaceInv'
    BY <1>2, <1>3, <1>6
       DEF PlacesInv, MatchInv, Matches, PlaceInv, PlaceOK, InDev, Annotation
<1> QED
    BY <1>5, <1>7 DEF PlacesInv

LEMMA AdmitPlaces ==
    ASSUME Orderly, PlacesInv, NEW cl \in Claims, NEW l \in Lists, Admit(cl, l)
    PROVE  PlacesInv'
<1>1. /\ UNCHANGED <<pod, api, done, sym, ctl>>
      /\ NoLinks(l) /\ NoCtl(l) /\ Matches(cl, l)
    BY DEF Admit, Allocate, agentVars, operatorVars, sitterVars, Orderly, Reused
<1>2. assign'[cl] = l
    BY DEF Admit, Allocate
<1>3. \A c \in Claims : c # cl /\ assign'[c] # {} => assign'[c] = assign[c]
    BY DEF Admit, Allocate
<1>4. AliveInv'
    BY <1>1 DEF PlacesInv, AliveInv, Known
<1>5. MatchInv'
    BY <1>1, <1>2, <1>3 DEF PlacesInv, MatchInv, Matches
<1>6. \A id \in LinkIDs : id[1] = Hash[l] => ~InDev(id)
    BY <1>1 DEF NoLinks, LinksOf, NoCtl, InDev
<1>7. \A c, id : PlaceOK(c, id)' <=> PlaceOK(c, id)
    BY <1>1 DEF PlaceOK, InDev, Annotation
<1>8. PlaceInv'
  <2> SUFFICES ASSUME NEW c \in Claims, NEW id \in LinkIDs, assign'[c] # {},
                      id[1] = Hash[assign'[c]]
               PROVE  PlaceOK(c, id)
    BY <1>7 DEF PlaceInv
  <2>1. CASE c = cl
    BY <1>2, <1>6, <2>1 DEF PlaceOK, InDev
  <2>2. CASE c # cl
    BY <1>3, <2>2 DEF PlacesInv, PlaceInv
  <2> QED
    BY <2>1, <2>2
<1> QED
    BY <1>4, <1>5, <1>8 DEF PlacesInv

(***************************************************************************)
(* A handler makes link i for element i + 1 of what it read, and it read   *)
(* the annotation of the container that holds the hash.                    *)
(***************************************************************************)
LEMMA WorksOn ==
    ASSUME TypeInv, IsolationInv, NEW h \in Handlers, pc[h] \in Looping,
           NEW cl \in Claims, assign[cl] # {}, Hash[assign[cl]] = Hash[list[h]]
    PROVE  /\ val[h] = Annotation(cl) /\ idx[h] \in 1 .. Len(val[h])
           /\ LinkOf(h)[2] = idx[h] - 1
<1>1. /\ at[h] \in Pods \X Containers /\ idx[h] <= Len(val[h])
      /\ idx[h] \in 1 .. MaxLinks /\ val[h] \in Seq(GPUs \cup {Bad}) /\ pc[h] # "idle"
    BY DEF TypeInv, HandlerInv, HandlerOK, Looping, TypeOK, PreStartTypeOK
<1>2. FlightOK(h) /\ Len(val[h]) \in Nat /\ MaxLinks \in Nat
    BY <1>1, BoundsAssumption DEF IsolationInv, FlightInv
<1>3. at[h] = Cont(cl) /\ at[h] # Nil
    BY <1>1, <1>2, NamesAssumption DEF FlightOK, WorksFor
<1>4. val[h] # <<>>
    BY <1>1, <1>2
<1> QED
    BY <1>1, <1>2, <1>3, <1>4 DEF FlightOK, Cont, Annotation, LinkOf

LEMMA CreatePlaces ==
    ASSUME TypeInv, IsolationInv, PlacesInv, NEW h \in Handlers,
           CreateSym(h) \/ CreateCtl(h)
    PROVE  MatchInv' /\ PlaceInv'
<1>1. UNCHANGED <<pod, assign>> /\ pc[h] \in Looping
    BY DEF CreateSym, CreateCtl, sitterVars, kubeletVars, Looping
<1>2. /\ \A id \in LinkIDs : \/ sym'[id] = sym[id]
                             \/ id = LinkOf(h) /\ sym'[id] = val[h][idx[h]]
      /\ ctl' \subseteq ctl \cup {LinkOf(h)}
    BY DEF CreateSym, CreateCtl, Symlink, SymlinkCtl, operatorVars, TypeInv, TypeOK,
           OperatorTypeOK
<1>3. MatchInv'
    BY <1>1 DEF PlacesInv, MatchInv, Matches
<1>4. ASSUME NEW cl \in Claims, NEW id \in LinkIDs, assign[cl] # {},
             id[1] = Hash[assign[cl]]
      PROVE  PlaceOK(cl, id)'
  <2>1. PlaceOK(cl, id)
    BY <1>4 DEF PlacesInv, PlaceInv
  <2>2. CASE id # LinkOf(h)
    BY <1>1, <1>2, <2>1, <2>2 DEF PlaceOK, InDev, Annotation
  <2>3. CASE id = LinkOf(h)
    <3>1. Hash[assign[cl]] = Hash[list[h]]
      BY <1>4, <2>3 DEF LinkOf
    <3>2. val[h] = Annotation(cl) /\ idx[h] \in 1 .. Len(val[h]) /\ id[2] = idx[h] - 1
      BY <1>1, <1>4, <2>3, <3>1, WorksOn
    <3>3. Len(val[h]) \in Nat
      BY DEF TypeInv, TypeOK, PreStartTypeOK
    <3>4. id[2] < Len(Annotation(cl)) /\ Annotation(cl)[id[2] + 1] = val[h][idx[h]]
      BY <3>2, <3>3
    <3>5. sym'[id] = sym[id] \/ sym'[id] = val[h][idx[h]]
      BY <1>2
    <3> QED
      BY <1>1, <2>1, <3>4, <3>5 DEF PlaceOK, Annotation
  <2> QED
    BY <2>2, <2>3
<1> QED
    BY <1>1, <1>3, <1>4 DEF PlaceInv

LEMMA NextPlaces ==
    ASSUME Orderly, TypeInv, RecordInv, IsolationInv, PlacesInv, [Next]_vars
    PROVE  PlacesInv'
<1>1. ASSUME UNCHANGED <<pod, api, done, assign>>, Shrinks
      PROVE  PlacesInv'
    BY <1>1, PlaceFrame DEF PlacesInv, AliveInv, Known
<1>2. ASSUME NEW p \in Pods, StopPod(p) \/ RemovePod(p)
      PROVE  PlacesInv'
  <2>1. UNCHANGED <<pod, assign, sym, ctl>>
    BY <1>2 DEF StopPod, Terminate, RemovePod, ApiDelete, agentVars, operatorVars,
                sitterVars, kubeletVars
  <2>2. AliveInv'
    BY <1>2 DEF StopPod, Terminate, RemovePod, ApiDelete, sitterVars, kubeletVars,
                PlacesInv, AliveInv, Known, Orderly
  <2> QED
    BY <2>1, <2>2, PlaceFrame DEF PlacesInv, Shrinks, OnlyRemoves
<1>3. CASE \/ \E p \in Pods : InformerDeliver(p)
           \/ \E ct \in PodContainers : StartContainer(ct) \/ StopContainer(ct)
           \/ Crash \/ Start \/ UNCHANGED vars
  <2>1. UNCHANGED <<pod, api, done, assign, sym, ctl>>
    BY <1>3 DEF InformerDeliver, Deliver, StartContainer, CreateContainer, HookReadDir,
           HookReadLink, HookToolkit, HookFails, HookExits, StopContainer, ContainerExit,
           Crash, Start, Sync, vars, kubeletVars, sitterVars, agentVars, operatorVars
  <2> QED
    BY <1>1, <2>1 DEF Shrinks, OnlyRemoves
<1>4. ASSUME NEW h \in Handlers,
             \/ Locate(h) \/ ReadAnnotation(h) \/ Lock(h) \/ CreateStat(h) \/ LoadRecord(h)
             \/ SaveRecord(h) \/ UndoSym(h) \/ UndoCtl(h) \/ Return(h)
             \/ \E cl \in Claims : PreStartContainer(h, cl)
      PROVE  PlacesInv'
  <2>1. UNCHANGED <<pod, api, done, assign>>
    BY <1>4 DEF Locate, ReadAnnotation, Lock, CreateStat, LoadRecord, SaveRecord, UndoSym,
           UndoCtl, Return, PreStartContainer, kubeletVars, sitterVars
  <2>2. Shrinks
    BY <1>4 DEF Locate, ReadAnnotation, Lock, CreateStat, LoadRecord, SaveRecord, UndoSym,
           UndoCtl, Return, PreStartContainer, operatorVars, RemoveSym, RemoveCtl, Shrinks,
           OnlyRemoves, TypeInv, TypeOK, OperatorTypeOK
  <2> QED
    BY <1>1, <2>1, <2>2
<1>5. ASSUME NEW h \in Handlers, CreateSym(h) \/ CreateCtl(h)
      PROVE  PlacesInv'
  <2>1. UNCHANGED <<pod, api, done>>
    BY <1>5 DEF CreateSym, CreateCtl, kubeletVars, sitterVars
  <2> QED
    BY <1>5, <2>1, CreatePlaces DEF PlacesInv, AliveInv, Known
<1>6. CASE Collect
  <2>1. ctl' \subseteq ctl
    BY <1>6 DEF Collect, GCStep, GCStart, GCScan, GCAsk, GCNext, GCRemoveSym, GCRemoveCtl,
           GCDeleteRecord, RemoveSym, RemoveCtl, operatorVars
  <2> QED
    BY <1>1, <1>6, <2>1, CollectEffect DEF Shrinks
<1> QED
    BY <1>2, <1>3, <1>4, <1>5, <1>6, SchedulePlaces, AdmitPlaces
       DEF Next, Call, GiveUp, Serve, Handler, Orderly

-----------------------------------------------------------------------------
(***************************************************************************)
(* While a hook runs, each assumed GPU is found already or its link is     *)
(* still to be followed; nothing is missing once it is through.            *)
(***************************************************************************)
ToFollow(ct, cl) ==
    \A i \in DOMAIN Annotation(ct) :
        Annotation(ct)[i] \in seen[ct] \/ <<Hash[assign[cl]], i - 1>> \in names[ct]

ViewOK(ct) ==
    /\ ctr[ct] = "hooking" => \E cl \in ClaimsOf(ct) : ToFollow(ct, cl)
    /\ ctr[ct] = "running" => Assumed(pod[ct[1]], ct[2]) \subseteq seen[ct]

ViewInv == \A ct \in PodContainers : ViewOK(ct)

LEMMA InitView == Init => ViewInv
BY DEF Init, KubeletInit, ViewInv, ViewOK

LEMMA ViewFrame ==
    ASSUME NEW ct \in PodContainers, ViewOK(ct), ctr'[ct] \in {ctr[ct], "waiting", "created"},
           ctr'[ct] # "waiting" => /\ pod'[ct[1]] = pod[ct[1]]
                                   /\ names'[ct] = names[ct] /\ seen'[ct] = seen[ct]
                                   /\ \A cl \in ClaimsOf(ct) : assign'[cl] = assign[cl]
    PROVE  ViewOK(ct)'
BY DEF ViewOK, ToFollow, Annotation

LEMMA LiveContainer ==
    ASSUME TypeInv, RecordInv, LiveInv, PlacesInv, NEW ct \in PodContainers,
           ctr[ct] # "waiting"
    PROVE  /\ Known(ct[1]) /\ ct[1] \in api /\ pod[ct[1]] \in Annotations
           /\ Annotation(ct) \in Seq(GPUs \cup {Bad}) /\ Len(Annotation(ct)) <= MaxLinks
<1>1. PICK cl \in ClaimsOf(ct) : TRUE
    BY ClaimsOfParts
<1>2. Holds(cl) /\ cl \in Claims /\ cl[1] = ct[1] /\ ct \in Pods \X Containers
    BY <1>1, CreatedHolds, ClaimsOfParts
<1>3. Known(ct[1]) /\ ct[1] \in api
    BY <1>2 DEF Holds, RecordInv, OriginInv, PlacesInv, AliveInv
<1>4. pod[ct[1]] \in Annotations
    BY <1>2, <1>3 DEF Known, TypeInv, TypeOK, SitterTypeOK
<1> QED
    BY <1>2, <1>3, <1>4, AnnotationsAssumption DEF Annotation

(***************************************************************************)
(* Reading the directory finds a link for each element of the annotation.  *)
(***************************************************************************)
LEMMA ReadDirView ==
    ASSUME TypeInv, RecordInv, LiveInv, LinkedInv, PlacesInv,
           NEW ct \in PodContainers, HookReadDir(ct)
    PROVE  ViewOK(ct)'
<1>1. /\ ctr[ct] = "created" /\ ctr'[ct] = "hooking"
      /\ UNCHANGED <<pod, assign, seen>>
    BY DEF HookReadDir, sitterVars, TypeInv, TypeOK, KubeletTypeOK
<1>2. PICK cl \in ClaimsOf(ct) : names'[ct] = LinksOf(Hash[assign[cl]])
    BY DEF HookReadDir, EnvGPU, FindGPUIndexes, TypeInv, TypeOK, KubeletTypeOK
<1>3. /\ cl \in Claims /\ assign[cl] \in Lists /\ assign[cl] # {} /\ cl[3] \in Resources
      /\ cl[1] = ct[1] /\ cl[2] = ct[2]
    BY <1>1, CreatedHolds, ClaimsOfParts DEF Holds
<1>4. /\ ct[1] \in api /\ Annotation(ct) \in Seq(GPUs \cup {Bad})
    BY <1>1, LiveContainer
<1>5. LinksExist(ct)
    BY <1>1, <1>4 DEF LinkedInv
<1>6. AllocateLinks(assign[cl], cl[3]) = 0 .. Len(Annotation(ct)) - 1
    BY <1>3, AnnouncedLinks DEF PlacesInv, MatchInv, Matches, Annotation
<1>7. ASSUME NEW i \in DOMAIN Annotation(ct)
      PROVE  <<Hash[assign[cl]], i - 1>> \in names'[ct]
  <2>1. i - 1 \in AllocateLinks(assign[cl], cl[3])
    BY <1>4, <1>6
  <2>2. <<Hash[assign[cl]], i - 1>> \in LinkIDs
    BY <1>3, <2>1, AnnouncedTyped
  <2>3. sym[<<Hash[assign[cl]], i - 1>>] # Nil
    BY <1>5, <2>1, NamesAssumption, PresentAssumption DEF LinksExist, IsExist
  <2> QED
    BY <1>2, <2>2, <2>3 DEF LinksOf
<1>8. ToFollow(ct, cl)'
    BY <1>1, <1>7 DEF ToFollow, Annotation
<1> QED
    BY <1>1, <1>8 DEF ViewOK

(***************************************************************************)
(* The link that is followed points to the GPU it stands for.              *)
(***************************************************************************)
LEMMA ReadLinkView ==
    ASSUME TypeInv, RecordInv, LiveInv, PlacesInv, ViewInv,
           NEW ct \in PodContainers, HookReadLink(ct)
    PROVE  ViewOK(ct)'
<1>1. ctr[ct] = "hooking" /\ UNCHANGED <<pod, assign>>
    BY DEF HookReadLink, sitterVars
<1>2. PICK cl \in ClaimsOf(ct) : ToFollow(ct, cl)
    BY <1>1 DEF ViewInv, ViewOK
<1>3. PICK id \in names[ct] :
          IF sym[id] = Nil THEN HookExits(ct)
          ELSE /\ seen' = [seen EXCEPT ![ct] = @ \cup {sym[id]}]
               /\ names' = [names EXCEPT ![ct] = @ \ {id}]
               /\ UNCHANGED <<ctr, ready>>
    BY DEF HookReadLink
<1>4. CASE sym[id] = Nil
    BY <1>3, <1>4 DEF HookExits, ViewOK, TypeInv, TypeOK, KubeletTypeOK
<1>5. CASE sym[id] # Nil
  <2>1. /\ seen'[ct] = seen[ct] \cup {sym[id]} /\ names'[ct] = names[ct] \ {id}
        /\ ctr' = ctr
    BY <1>3, <1>5 DEF TypeInv, TypeOK, KubeletTypeOK
  <2>2. cl \in Claims /\ assign[cl] # {} /\ Annotation(cl) = Annotation(ct)
    BY <1>1, CreatedHolds, ClaimsOfParts DEF Holds, Annotation
  <2>3. Annotation(ct) \in Seq(GPUs \cup {Bad})
    BY <1>1, LiveContainer
  <2>4. ASSUME NEW i \in DOMAIN Annotation(ct), id = <<Hash[assign[cl]], i - 1>>
        PROVE  sym[id] = Annotation(ct)[i]
    <3>1. id \in LinkIDs
      BY DEF TypeInv, TypeOK, KubeletTypeOK
    <3>2. sym[id] = Annotation(ct)[id[2] + 1]
      BY <1>5, <2>2, <2>4, <3>1 DEF PlacesInv, PlaceInv, PlaceOK
    <3>3. id[2] + 1 = i
      BY <2>3, <2>4
    <3> QED
      BY <3>2, <3>3
  <2>5. ToFollow(ct, cl)'
    BY <1>1, <1>2, <2>1, <2>4 DEF ToFollow, Annotation
  <2> QED
    BY <1>1, <2>1, <2>5 DEF ViewOK
<1> QED
    BY <1>4, <1>5

LEMMA StartView ==
    ASSUME "hook" \notin Faults, TypeInv, RecordInv, LiveInv, LinkedInv, PlacesInv, ViewInv,
           NEW ct \in PodContainers, StartContainer(ct) \/ StopContainer(ct)
    PROVE  ViewInv'
<1>1. UNCHANGED <<pod, assign>>
    BY DEF StartContainer, StopContainer, CreateContainer, HookReadDir, HookReadLink,
           HookToolkit, HookFails, HookExits, ContainerExit, sitterVars
<1>2. ASSUME NEW c \in PodContainers, c # ct
      PROVE  ViewOK(c)'
  <2>1. ctr'[c] = ctr[c] /\ names'[c] = names[c] /\ seen'[c] = seen[c]
    BY <1>2 DEF StartContainer, StopContainer, CreateContainer, HookReadDir, HookReadLink,
           HookToolkit, HookFails, HookExits, ContainerExit, TypeInv, TypeOK, KubeletTypeOK
  <2> QED
    BY <1>1, <2>1, ViewFrame DEF ViewInv
<1>3. ViewOK(ct)'
  <2>1. CASE CreateContainer(ct)
    BY <1>1, <2>1, ViewFrame
       DEF CreateContainer, ViewInv, TypeInv, TypeOK, KubeletTypeOK
  <2>2. CASE HookToolkit(ct)
    <3>1. /\ ctr[ct] = "hooking" /\ ctr'[ct] = "running" /\ names[ct] = {}
          /\ UNCHANGED <<pod, assign, seen>>
      BY <1>1, <2>2 DEF HookToolkit, TypeInv, TypeOK, KubeletTypeOK
    <3>2. \A i \in DOMAIN Annotation(ct) : Annotation(ct)[i] \in seen[ct]
      BY <3>1 DEF ViewInv, ViewOK, ToFollow
    <3> QED
      BY <3>1, <3>2 DEF ViewOK, Assumed, Annotation
  <2>3. CASE StopContainer(ct)
    BY <2>3 DEF StopContainer, ContainerExit, ViewOK, TypeInv, TypeOK, KubeletTypeOK
  <2> QED
    BY <2>1, <2>2, <2>3, ReadDirView, ReadLinkView DEF StartContainer
<1> QED
    BY <1>2, <1>3 DEF ViewInv

LEMMA NextView ==
    ASSUME Orderly, "hook" \notin Faults,
           TypeInv, RecordInv, LiveInv, LinkedInv, PlacesInv, ViewInv, [Next]_vars
    PROVE  ViewInv'
<1>1. ASSUME UNCHANGED <<pod, assign, ctr, names, seen>>
      PROVE  ViewInv'
    BY <1>1, ViewFrame DEF ViewInv
<1>2. ASSUME NEW p \in Pods, NEW a \in Annotations, Schedule(p, a)
      PROVE  ViewInv'
  <2>1. pod[p] = Nil /\ UNCHANGED <<ctr, names, seen>> /\ pod' = [pod EXCEPT ![p] = a]
    BY <1>2 DEF Schedule, PodCreated, Orderly
  <2>2. assign' = assign
    BY <1>2, <2>1 DEF Schedule, PodCreated, RecordInv, OriginInv, Known, TypeInv, TypeOK,
                      KubeletTypeOK
  <2>3. \A ct \in PodContainers : ctr[ct] # "waiting" => pod'[ct[1]] = pod[ct[1]]
    BY <2>1, LiveContainer, ClaimsOfParts DEF Known, TypeInv, TypeOK, SitterTypeOK
  <2> QED
    BY <2>1, <2>2, <2>3, ViewFrame DEF ViewInv
<1>3. ASSUME NEW p \in Pods, StopPod(p)
      PROVE  ViewInv'
    BY <1>3, ViewFrame DEF StopPod, Terminate, sitterVars, ViewInv
<1>4. ASSUME NEW cl \in Claims, NEW l \in Lists, Admit(cl, l)
      PROVE  ViewInv'
  <2>1. UNCHANGED <<pod, ctr, names, seen>>
    BY <1>4 DEF Admit, Allocate, sitterVars
  <2>2. \A c \in Claims : Holds(c) => assign'[c] = assign[c]
    BY <1>4 DEF Admit, Allocate, Holds, TypeInv, TypeOK, KubeletTypeOK
  <2> QED
    BY <2>1, <2>2, CreatedHolds, ViewFrame DEF ViewInv
<1>5. CASE \/ \E p \in Pods : RemovePod(p) \/ InformerDeliver(p)
           \/ Collect \/ Crash \/ Start \/ UNCHANGED vars
    BY <1>1, <1>5, CollectEffect
       DEF RemovePod, ApiDelete, InformerDeliver, Deliver, Crash, Start, Sync, vars,
           kubeletVars, sitterVars
<1>6. ASSUME NEW h \in Handlers, Handler(h) \/ \E cl \in Claims : PreStartContainer(h, cl)
      PROVE  ViewInv'
    BY <1>1, <1>6 DEF Handler, Locate, ReadAnnotation, Lock, CreateStat, CreateSym,
       CreateCtl, LoadRecord, SaveRecord, UndoSym, UndoCtl, Return, PreStartContainer,
       kubeletVars, sitterVars
<1> QED
    BY <1>2, <1>3, <1>4, <1>5, <1>6, StartView DEF Next, Call, GiveUp, Serve, Orderly

(***************************************************************************)
(* A running container uses every GPU the scheduler assumed for it: the    *)
(* links that PreStartContainer numbers by the annotation and Allocate by  *)
(* the number of devices are the same ones, each points to the GPU of its  *)
(* number, and the hook, which reads the directory once and follows the    *)
(* names later, misses none. For any number of pods, containers, links and *)
(* handlers, with crashes of the agent and failing links, removals, saves  *)
(* and lookups, as long as the hook itself does not fail.                  *)
(***************************************************************************)
THEOREM RunningSeesAll ==
    ASSUME Orderly, "hook" \notin Faults
    PROVE  Spec => []SeesAllAssumed
<1> DEFINE Inv == /\ TypeInv /\ RecordInv /\ IsolationInv /\ LiveInv /\ KeepInv
                  /\ PlacesInv /\ ViewInv
<1>1. Init => Inv
    BY InitTypes, InitRecord, InitIsolation, InitLive, InitKeep, InitPlaces, InitView
<1>2. Inv /\ [Next]_vars => Inv'
  <2> SUFFICES ASSUME Inv, [Next]_vars PROVE Inv'
    OBVIOUS
  <2>1. TypeInv' /\ RecordInv' /\ IsolationInv' /\ LiveInv'
    BY NextTypes, NextRecord, NextIsolation, NextLive DEF Orderly
  <2>2. KeepInv'
    BY NextOwn, NextLine, NextLinked DEF KeepInv, Orderly, Reused
  <2>3. PlacesInv' /\ ViewInv'
    BY NextPlaces, NextView DEF KeepInv
  <2> QED
    BY <2>1, <2>2, <2>3
<1>3. Inv => SeesAllAssumed
    BY DEF ViewInv, ViewOK, SeesAllAssumed
<1> QED
    BY <1>1, <1>2, <1>3, PTL DEF Spec

-----------------------------------------------------------------------------
(***************************************************************************)
(* No link is out of the collector's reach. Each pod asks for one list;    *)
(* handlers run to their end, and a failed save's links can be removed.    *)
(***************************************************************************)
OneClaim == \A c1, c2 \in Claims : c1[1] = c2[1] => c1 = c2

Unbroken == Orderly /\ {"crash", "link"} \cap Faults = {} /\ SavesRecover

(***************************************************************************)
(* What the proofs above have established.                                 *)
(***************************************************************************)
Settled ==
    /\ TypeInv /\ RecordInv /\ IsolationInv /\ LiveInv /\ StoredInv
    /\ OwnInv /\ LineInv /\ PlacesInv

(***************************************************************************)
(* The collector's lists are stored lines, and the scan is over when it    *)
(* deletes; the links of its line go one after the other, and all are gone *)
(* when the record's turn comes.                                           *)
(***************************************************************************)
Placed ==
    \A p \in Pods, c \in Containers : db[p][c] # Nil => <<p, c>> \in PodContainers

Deleting == {"sym", "ctl", "record"}

QueueInv ==
    /\ scan \cup todo \subseteq ForEach
    /\ gcpc \notin {"scan", "ask"} => scan = {}
    /\ gcpc \in Deleting => line \in ForEach \ todo

Cleared(i) == ~InDev(<<line.dev.hash, i>>)

ClearedInv ==
    /\ gcpc \in {"sym", "ctl"} => \A i \in 0 .. MaxLinks - 1 : i < gci => Cleared(i)
    /\ gcpc = "ctl" => sym[GCLink] = Nil
    /\ gcpc = "record" => \A i \in GCLinks(line.dev) : Cleared(i)

(***************************************************************************)
(* A control link is alone only between the two removals of a Delete.      *)
(***************************************************************************)
Alone(id) ==
    \/ \E h \in Handlers : pc[h] = "undoctl" /\ id = LinkOf(h)
    \/ gcpc = "ctl" /\ id = GCLink

PairedInv == "unlink" \notin Faults => \A id \in ctl : sym[id] # Nil \/ Alone(id)

(***************************************************************************)
(* Unless the container has a record, the links of a handler's hash are    *)
(* the ones its loop has made, or those its undoing has not come to.       *)
(***************************************************************************)
Pending(h, i) ==
    \/ pc[h] \in {"load", "save"}
    \/ pc[h] \in {"stat", "sym", "ctl"} /\ i < idx[h] - 1
    \/ pc[h] = "ctl" /\ i = idx[h] - 1
    \/ pc[h] \in {"undo", "undoctl"} /\ i >= idx[h] - 1

Made(h) ==
    /\ pc[h] = "ctl" => sym[LinkOf(h)] # Nil
    /\ pc[h] = "undoctl" => sym[LinkOf(h)] = Nil
    /\ Active(h) => \/ Recorded(Cont(want[h]))
                    \/ \A i \in 0 .. MaxLinks - 1 :
                           InDev(<<Hash[list[h]], i>>) => Pending(h, i)

MadeInv == \A h \in Handlers : Made(h)

Covered(id) ==
    \/ \E x \in ForEach : Covers(x.dev, id)
    \/ \E h \in Handlers : Active(h) /\ Hash[list[h]] = id[1]

CoverInv == \A id \in LinkIDs : InDev(id) => Covered(id)

AccountInv ==
    Placed /\ QueueInv /\ ClearedInv /\ PairedInv /\ MadeInv /\ CoverInv

LEMMA InitAccount == Init => AccountInv
<1> SUFFICES ASSUME Init PROVE AccountInv
    OBVIOUS
<1>1. Placed
    BY DEF Init, StorageInit, NewPI, Placed
<1>2. QueueInv /\ ClearedInv
    BY DEF Init, GCInit, QueueInv, ClearedInv, Deleting
<1>3. PairedInv /\ CoverInv
    BY DEF Init, OperatorInit, PairedInv, CoverInv, InDev
<1>4. MadeInv
    BY DEF Init, PreStartInit, MadeInv, Made, Active
<1> QED
    BY <1>1, <1>2, <1>3, <1>4 DEF AccountInv

(***************************************************************************)
(* Two handlers have two hashes, and the collector's line has a third.     *)
(***************************************************************************)
LEMMA LinkOfTyped ==
    ASSUME TypeInv, NEW h \in Handlers, Active(h)
    PROVE  /\ LinkOf(h) \in LinkIDs /\ idx[h] \in Nat \ {0} /\ idx[h] - 1 \in 0 .. MaxLinks - 1
           /\ LinkOf(h) = <<Hash[list[h]], idx[h] - 1>>
<1>1. list[h] \in Lists /\ idx[h] \in 1 .. MaxLinks /\ MaxLinks \in Nat
    BY LiveTypes, BoundsAssumption DEF TypeInv, TypeOK, PreStartTypeOK
<1> QED
    BY <1>1, HashAssumption DEF LinkOf, LinkIDs

LEMMA HandlerHolds ==
    ASSUME Settled, NEW h \in Handlers, Active(h)
    PROVE  /\ want[h] \in Claims /\ Holds(want[h]) /\ assign[want[h]] = list[h]
           /\ list[h] \in Lists /\ want[h][1] \in api /\ want[h][3] \in Resources
<1>1. /\ want[h] \in Claims /\ Holds(want[h]) /\ assign[want[h]] = list[h]
      /\ list[h] \in Lists
    BY LiveTypes DEF Settled, LiveInv, ActiveOK
<1> QED
    BY <1>1, ClaimParts DEF Holds, Settled, RecordInv, OriginInv, PlacesInv, AliveInv

LEMMA HandlersApart ==
    ASSUME Settled, Unbroken, NEW g \in Handlers, NEW h \in Handlers, Active(g), Active(h),
           Hash[list[g]] = Hash[list[h]]
    PROVE  g = h
<1>1. Cont(want[g]) = Cont(want[h])
    BY HandlerHolds, SameHash DEF Settled, Unbroken, Orderly, Reused
<1> QED
    BY <1>1 DEF Cont, Settled, LiveInv, OnePerPod

LEMMA CollectorApart ==
    ASSUME Settled, NEW h \in Handlers, Active(h), gcpc \in Deleting
    PROVE  line.dev.hash # Hash[list[h]]
<1>1. line \in Lines /\ line.pod \notin api /\ OwnLine(line)
    BY LinesAssumption DEF Settled, Deleting, TypeInv, CollectorInv, RecordInv, DoomedInv,
       Gone, LineInv, AllLines
<1> QED
    BY <1>1, HandlerHolds DEF OwnLine

(***************************************************************************)
(* A stored line with the hash of a claim is the record of its container,  *)
(* and that record covers all links of the hash.                           *)
(***************************************************************************)
LEMMA LineRecorded ==
    ASSUME Settled, OneClaim, NEW cl \in Claims, Holds(cl),
           NEW x \in ForEach, x.dev.hash = Hash[assign[cl]]
    PROVE  Recorded(Cont(cl))
<1>1. PICK p \in Pods, c \in Containers :
          db[p][c] # Nil /\ x = [pod |-> p, con |-> c, dev |-> db[p][c]]
    BY StoredLines
<1>2. p = cl[1]
    BY <1>1 DEF Settled, LineInv, AllLines, OwnLine
<1>3. PICK o \in ClaimsOf(<<p, c>>) : assign[o] # {} /\ db[p][c] = NewDevice(assign[o], o[3])
    BY <1>1, <1>2 DEF Settled, OwnInv, StoredOwn, OwnEntry, Holds
<1>4. o = cl /\ cl[2] = c
    BY <1>2, <1>3, ClaimsOfParts DEF OneClaim
<1> QED
    BY <1>2, <1>3, <1>4 DEF Recorded, Cont

LEMMA RecordedCovers ==
    ASSUME Settled, OneClaim, NEW cl \in Claims, Holds(cl), Recorded(Cont(cl)),
           NEW id \in LinkIDs, id[1] = Hash[assign[cl]], InDev(id)
    PROVE  \E x \in ForEach : Covers(x.dev, id)
<1>1. PICK o \in ClaimsOf(Cont(cl)) : /\ assign[o] # {}
                                      /\ db[cl[1]][cl[2]] = NewDevice(assign[o], o[3])
    BY DEF Recorded, Cont
<1>2. o = cl
    BY <1>1, ClaimsOfParts DEF OneClaim
<1>3. assign[cl] \in Lists /\ cl[1] \in Pods /\ cl[2] \in Containers /\ cl[3] \in Resources
    BY ClaimParts DEF Holds, Settled, TypeInv, TypeOK, KubeletTypeOK
<1> DEFINE d == NewDevice(assign[cl], cl[3])
<1>4. d \in Devices /\ d.hash = Hash[assign[cl]]
    BY <1>3, HashAssumption DEF NewDevice, Devices
<1>5. [pod |-> cl[1], con |-> cl[2], dev |-> d] \in ForEach
    BY <1>1, <1>2, <1>3, <1>4, StoredLines, NamesAssumption
<1>6. id[2] \in Nat /\ id[2] < Len(Annotation(cl))
    BY DEF Holds, Settled, PlacesInv, PlaceInv, PlaceOK, LinkIDs
<1>7. Len(Annotation(cl)) = LastLink(d) + 1
    BY <1>3, AnnouncedLinks DEF Holds, Settled, PlacesInv, MatchInv, Matches, Annotation
<1>8. LastLink(d) \in Int
  <2>1. Cardinality(assign[cl]) \in Nat /\ Percent \in Nat \ {0}
    BY <1>3, ListsAssumption, FS_CardinalityType, BoundsAssumption
  <2> QED
    BY <2>1 DEF LastLink, NewDevice
<1> HIDE DEF d
<1>9. Covers(d, id)
    BY <1>4, <1>6, <1>7, <1>8 DEF Covers, GCLinks
<1> QED
    BY <1>5, <1>9

(***************************************************************************)
(* Steps of the environment.                                               *)
(***************************************************************************)
LEMMA EnvironmentAccount ==
    ASSUME Settled, AccountInv, UNCHANGED <<db, sym, ctl, gcVars, preStartVars>>,
           \A cl \in Claims : Holds(cl) => assign'[cl] = assign[cl]
    PROVE  AccountInv'
<1>1. Placed' /\ QueueInv'
    BY DEF AccountInv, Placed, QueueInv, ForEach, gcVars
<1>2. ClearedInv' /\ PairedInv' /\ CoverInv'
    BY DEF AccountInv, ClearedInv, Cleared, InDev, GCLink, PairedInv, Alone, LinkOf,
           CoverInv, Covered, ForEach, Active, gcVars, preStartVars
<1>3. ASSUME NEW h \in Handlers, Active(h), Recorded(Cont(want[h]))
      PROVE  Recorded(Cont(want[h]))'
  <2>1. \A cl \in ClaimsOf(Cont(want[h])) : assign[cl] # {} => assign'[cl] = assign[cl]
    <3>1. want[h][1] \notin done
      BY <1>3, HandlerHolds DEF Holds
    <3> QED
      BY <3>1, ClaimsOfParts DEF Holds, Cont
  <2> QED
    BY <1>3, <2>1 DEF Recorded, preStartVars
<1>4. \A h \in Handlers : Made(h)'
    BY <1>3 DEF AccountInv, MadeInv, Made, Active, InDev, Pending, LinkOf, preStartVars
<1> QED
    BY <1>1, <1>2, <1>4 DEF AccountInv, MadeInv

LEMMA NextEnvironmentAccount ==
    ASSUME Unbroken, Settled, AccountInv,
           \/ \E p \in Pods : \/ \E a \in Annotations : Schedule(p, a)
                              \/ StopPod(p) \/ RemovePod(p) \/ InformerDeliver(p)
           \/ \E cl \in Claims, l \in Lists : Admit(cl, l)
           \/ \E ct \in PodContainers : StartContainer(ct) \/ StopContainer(ct)
           \/ Start \/ UNCHANGED vars
    PROVE  AccountInv'
<1>1. UNCHANGED <<db, sym, ctl, gcVars, preStartVars>>
    BY DEF Schedule, StopPod, RemovePod, InformerDeliver, Admit, StartContainer,
           StopContainer, Start, vars, agentVars, operatorVars
<1>2. ASSUME NEW cl \in Claims, Holds(cl) PROVE assign'[cl] = assign[cl]
  <2>1. CASE \E p \in Pods, a \in Annotations : Schedule(p, a)
    BY <1>2, <2>1 DEF Schedule, PodCreated, Unbroken, Orderly, Settled, RecordInv,
                      OriginInv, Known, Holds
  <2>2. CASE \E c \in Claims, l \in Lists : Admit(c, l)
    BY <1>2, <2>2 DEF Admit, Allocate, Holds
  <2>3. CASE \/ \E p \in Pods : StopPod(p) \/ RemovePod(p) \/ InformerDeliver(p)
             \/ \E ct \in PodContainers : StartContainer(ct) \/ StopContainer(ct)
             \/ Start \/ UNCHANGED vars
    BY <2>3 DEF StopPod, Terminate, RemovePod, ApiDelete, InformerDeliver, Deliver,
           StartContainer, CreateContainer, HookReadDir, HookReadLink, HookToolkit,
           HookFails, HookExits, StopContainer, ContainerExit, Start, vars, kubeletVars
  <2> QED
    BY <2>1, <2>2, <2>3
<1> QED
    BY <1>1, <1>2, EnvironmentAccount

(***************************************************************************)
(* A step of a handler touches links of its own hash and the record of its *)
(* own pod only.                                                           *)
(***************************************************************************)
OwnLinksOnly(h) ==
    \A id \in LinkIDs :
        id[1] # Hash[list[h]] => sym'[id] = sym[id] /\ (id \in ctl' => id \in ctl)

LEMMA OthersMade ==
    ASSUME Settled, Unbroken, MadeInv, NEW h \in Handlers, Active(h), OwnLinksOnly(h),
           \A g \in Handlers : g # h => /\ pc'[g] = pc[g] /\ want'[g] = want[g]
                                        /\ list'[g] = list[g] /\ idx'[g] = idx[g],
           UNCHANGED assign, \A p \in Pods : p # want[h][1] => db'[p] = db[p],
           NEW g \in Handlers, g # h
    PROVE  Made(g)'
<1>1. CASE ~Active(g)
    BY <1>1 DEF Made, Active
<1>2. CASE Active(g)
  <2>1. Hash[list[g]] # Hash[list[h]]
    BY <1>2, HandlersApart
  <2>2. \A id \in LinkIDs : id[1] = Hash[list[g]] =>
            sym'[id] = sym[id] /\ (InDev(id)' => InDev(id))
    BY <2>1 DEF OwnLinksOnly, InDev
  <2>3. LinkOf(g) \in LinkIDs /\ LinkOf(g)[1] = Hash[list[g]] /\ LinkOf(g)' = LinkOf(g)
    BY <1>2, LinkOfTyped DEF Settled, LinkOf
  <2>4. \A i \in 0 .. MaxLinks - 1 : <<Hash[list[g]], i>> \in LinkIDs
    BY <1>2, HandlerHolds, HashAssumption DEF LinkIDs
  <2>5. Recorded(Cont(want[g]))' <=> Recorded(Cont(want[g]))
    <3>1. want[g][1] # want[h][1] /\ want[g][1] \in Pods
      BY <1>2, HandlerHolds, ClaimParts DEF Settled, LiveInv, OnePerPod
    <3>2. Cont(want[g])[1] = want[g][1]
      BY DEF Cont
    <3> QED
      BY <3>1, <3>2 DEF Recorded, Cont
  <2>6. Made(g)
    BY DEF MadeInv
  <2>7. \A i : Pending(g, i)' <=> Pending(g, i)
    BY DEF Pending
  <2>8. /\ pc'[g] = "ctl" => sym'[LinkOf(g)'] # Nil
        /\ pc'[g] = "undoctl" => sym'[LinkOf(g)'] = Nil
    BY <2>2, <2>3, <2>6 DEF Made
  <2>9. \/ Recorded(Cont(want[g]))'
        \/ \A i \in 0 .. MaxLinks - 1 : InDev(<<Hash[list[g]], i>>)' => Pending(g, i)'
    BY <1>2, <2>2, <2>4, <2>5, <2>6, <2>7 DEF Made
  <2> QED
    BY <2>8, <2>9 DEF Made
<1> QED
    BY <1>1, <1>2

LEMMA ClearedKept ==
    ASSUME Settled, ClearedInv, NEW h \in Handlers, Active(h), OwnLinksOnly(h),
           UNCHANGED gcVars
    PROVE  ClearedInv'
<1> SUFFICES ASSUME gcpc \in Deleting PROVE ClearedInv'
    BY DEF ClearedInv, Deleting, gcVars
<1>1. line.dev.hash # Hash[list[h]]
    BY CollectorApart
<1>2. line \in Lines /\ gci \in 0 .. MaxLinks - 1
    BY DEF Deleting, Settled, TypeInv, CollectorInv, TypeOK, GCTypeOK
<1>3. \A i \in 0 .. MaxLinks - 1 : <<line.dev.hash, i>> \in LinkIDs
    BY <1>2 DEF Lines, Devices, LinkIDs
<1>4. /\ \A i \in 0 .. MaxLinks - 1 : Cleared(i) => Cleared(i)'
      /\ sym[GCLink] = Nil => sym'[GCLink'] = Nil
    BY <1>1, <1>2, <1>3 DEF OwnLinksOnly, Cleared, InDev, GCLink, gcVars
<1>5. GCLinks(line.dev) \subseteq 0 .. MaxLinks - 1
  <2>1. LastLink(line.dev) \in Int /\ LastLink(line.dev) <= MaxLinks - 1
    <3>1. line.dev \in Devices
      BY <1>2 DEF Lines
    <3>2. Cardinality(line.dev.list) \in Nat /\ Percent \in Nat \ {0}
      BY <3>1, ListsAssumption, FS_CardinalityType, BoundsAssumption DEF Devices
    <3> QED
      BY <3>1, <3>2, LastLinkBound DEF LastLink
  <2> QED
    BY <2>1, BoundsAssumption DEF GCLinks
<1> QED
    BY <1>4, <1>5 DEF ClearedInv, gcVars

LEMMA HandlerAccount ==
    ASSUME Settled, Unbroken, AccountInv, NEW h \in Handlers, Active(h), OwnLinksOnly(h),
           pc'[h] # "idle", UNCHANGED <<assign, want, list, gcVars>>,
           \A g \in Handlers : g # h => pc'[g] = pc[g] /\ idx'[g] = idx[g],
           \A p \in Pods : p # want[h][1] => db'[p] = db[p],
           ForEach \subseteq ForEach', Placed', Made(h)', PairedInv'
    PROVE  AccountInv'
<1>1. QueueInv'
    BY DEF AccountInv, QueueInv, gcVars
<1>2. ClearedInv'
    BY ClearedKept DEF AccountInv
<1>3. MadeInv'
    BY OthersMade DEF AccountInv, MadeInv
<1>4. ASSUME NEW id \in LinkIDs, InDev(id)' PROVE Covered(id)'
  <2>1. CASE id[1] = Hash[list[h]]
    BY <2>1 DEF Covered, Active
  <2>2. CASE id[1] # Hash[list[h]]
    <3>1. Covered(id)
      BY <1>4, <2>2 DEF AccountInv, CoverInv, OwnLinksOnly, InDev
    <3> QED
      BY <3>1 DEF Covered, Active
  <2> QED
    BY <2>1, <2>2
<1> QED
    BY <1>1, <1>2, <1>3, <1>4 DEF AccountInv, CoverInv

LEMMA PairedKept ==
    ASSUME PairedInv, NEW h \in Handlers, pc[h] # "undoctl", UNCHANGED gcVars,
           \A g \in Handlers : g # h => /\ pc'[g] = pc[g] /\ list'[g] = list[g]
                                        /\ idx'[g] = idx[g],
           \A id \in ctl' : id \in ctl /\ (sym[id] # Nil => sym'[id] # Nil)
    PROVE  PairedInv'
<1>1. \A id \in ctl : Alone(id) => Alone(id)'
    BY DEF Alone, LinkOf, GCLink, gcVars
<1> QED
    BY <1>1 DEF PairedInv

LEMMA QuietAccount ==
    ASSUME Settled, Unbroken, AccountInv, NEW h \in Handlers, UNCHANGED gcVars,
           Locate(h) \/ ReadAnnotation(h) \/ Lock(h) \/ CreateStat(h) \/ LoadRecord(h)
    PROVE  AccountInv'
<1> USE DEF Goto
<1>1. PreStartTypeOK
    BY DEF Settled, TypeInv, TypeOK
<1>2. UNCHANGED <<db, sym, ctl, assign, want, list>>
    BY DEF Locate, ReadAnnotation, Lock, CreateStat, LoadRecord, kubeletVars, operatorVars
<1>3. pc[h] \in {"locate", "getpod", "lock", "stat", "load"} /\ Active(h)
    BY DEF Locate, ReadAnnotation, Lock, CreateStat, LoadRecord, Active
<1>4. \A g \in Handlers : g # h => pc'[g] = pc[g] /\ idx'[g] = idx[g]
  <2>1. CASE Locate(h)
    BY <1>1, <2>1 DEF Locate, PreStartTypeOK
  <2>2. CASE ~Locate(h)
    BY <2>2, WorkingFrame DEF Working, Settled
  <2> QED
    BY <2>1, <2>2
<1>5. \/ pc'[h] \in {"getpod", "lock", "stat", "fail"} /\ pc[h] \in {"locate", "getpod", "lock"}
      \/ pc'[h] \in {"sym", "stat"} /\ pc[h] = "stat" /\ Already(h)
      \/ pc'[h] = "sym" /\ pc[h] = "stat" /\ idx'[h] = idx[h]
      \/ pc'[h] \in {"load", "save"}
    BY <1>1 DEF Locate, ReadAnnotation, Lock, CreateStat, Advance, LoadRecord, PreStartTypeOK
<1>6. Made(h)'
  <2>1. Recorded(Cont(want[h]))' <=> Recorded(Cont(want[h]))
    BY <1>2 DEF Recorded
  <2>2. \A id : InDev(id)' <=> InDev(id)
    BY <1>2 DEF InDev
  <2>3. \/ Recorded(Cont(want[h]))
        \/ \A i \in 0 .. MaxLinks - 1 : InDev(<<Hash[list[h]], i>>) => Pending(h, i)
    BY <1>3 DEF AccountInv, MadeInv, Made
  <2>4. ASSUME Already(h), pc[h] = "stat" PROVE Recorded(Cont(want[h]))
    <3>1. InDev(<<Hash[list[h]], idx[h] - 1>>)
      BY <2>4, NamesAssumption, PresentAssumption DEF Already, IsExist, LinkOf, InDev
    <3>2. idx[h] - 1 \in 0 .. MaxLinks - 1
      BY <1>3, LinkOfTyped DEF Settled
    <3>3. ~Pending(h, idx[h] - 1)
      BY <2>4, <3>2 DEF Pending
    <3> QED
      BY <2>3, <3>1, <3>2, <3>3
  <2>5. pc'[h] \notin {"ctl", "undoctl"}
    BY <1>5
  <2>6. \/ Recorded(Cont(want[h]))
        \/ \A i \in 0 .. MaxLinks - 1 : InDev(<<Hash[list[h]], i>>) => Pending(h, i)'
    BY <1>5, <2>3, <2>4 DEF Pending
  <2> QED
    BY <1>2, <2>1, <2>2, <2>5, <2>6 DEF Made
<1>7. PairedInv'
    BY <1>2, <1>3, <1>4, PairedKept DEF AccountInv
<1>8. OwnLinksOnly(h) /\ Placed' /\ ForEach \subseteq ForEach'
    BY <1>2 DEF OwnLinksOnly, AccountInv, Placed, ForEach
<1>9. pc'[h] # "idle"
    BY <1>5
<1> QED
    BY <1>2, <1>3, <1>4, <1>6, <1>7, <1>8, <1>9, HandlerAccount

(***************************************************************************)
(* The loop makes one link after the other. It finds a link only where the *)
(* container has a record already.                                         *)
(***************************************************************************)
LEMMA CreateSymAccount ==
    ASSUME Settled, Unbroken, AccountInv, NEW h \in Handlers, UNCHANGED gcVars, CreateSym(h)
    PROVE  AccountInv'
<1>1. UNCHANGED <<db, ctl, assign, want, list, idx>> /\ pc[h] = "sym" /\ Active(h)
    BY DEF CreateSym, Symlink, kubeletVars, operatorVars, Active
<1>2. \A g \in Handlers : g # h => pc'[g] = pc[g]
    BY WorkingFrame DEF Working, Settled
<1>3. /\ LinkOf(h) \in LinkIDs /\ idx[h] - 1 \in 0 .. MaxLinks - 1
      /\ LinkOf(h) = <<Hash[list[h]], idx[h] - 1>> /\ LinkOf(h)' = LinkOf(h)
    BY <1>1, LinkOfTyped DEF Settled, LinkOf
<1>4. val[h][idx[h]] \in GPUs
  <2>1. val[h] \in Seq(GPUs \cup {Bad}) /\ idx[h] \in 1 .. MaxLinks /\ idx[h] <= Len(val[h])
    BY <1>1 DEF Settled, TypeInv, TypeOK, PreStartTypeOK, HandlerInv, HandlerOK, Looping
  <2> QED
    BY <1>1, <2>1, BoundsAssumption DEF Settled, TypeInv, HandlerInv, HandlerOK, Looping
<1>5. \/ pc'[h] = "ctl" /\ sym' = [sym EXCEPT ![LinkOf(h)] = val[h][idx[h]]]
      \/ pc'[h] = "fail" /\ sym' = sym /\ sym[LinkOf(h)] # Nil
    BY DEF CreateSym, CanSymlink, Symlink, operatorVars, Goto, Unbroken, Settled, TypeInv,
           TypeOK, PreStartTypeOK
<1>6. \A id \in LinkIDs : /\ id # LinkOf(h) => sym'[id] = sym[id]
                          /\ sym[id] # Nil => sym'[id] # Nil
    BY <1>4, <1>5, NamesAssumption DEF Settled, TypeInv, TypeOK, OperatorTypeOK
<1>7. Made(h)'
  <2>1. Recorded(Cont(want[h]))' <=> Recorded(Cont(want[h]))
    BY <1>1 DEF Recorded
  <2>2. \/ Recorded(Cont(want[h]))
        \/ \A i \in 0 .. MaxLinks - 1 : InDev(<<Hash[list[h]], i>>) => Pending(h, i)
    BY <1>1 DEF AccountInv, MadeInv, Made
  <2>3. CASE pc'[h] = "ctl"
    <3>1. sym'[LinkOf(h)] # Nil
      BY <1>3, <1>4, <1>5, <2>3, NamesAssumption DEF Settled, TypeInv, TypeOK, OperatorTypeOK
    <3>2. ASSUME NEW i \in 0 .. MaxLinks - 1, InDev(<<Hash[list[h]], i>>)'
          PROVE  i = idx[h] - 1 \/ InDev(<<Hash[list[h]], i>>)
      <4>1. <<Hash[list[h]], i>> \in LinkIDs
        BY <1>1, HandlerHolds, HashAssumption DEF LinkIDs
      <4> QED
        BY <1>1, <1>3, <1>6, <3>2, <4>1 DEF InDev
    <3>3. \A i \in 0 .. MaxLinks - 1 : Pending(h, i) \/ i = idx[h] - 1 => Pending(h, i)'
      BY <1>1, <2>3 DEF Pending
    <3> QED
      BY <1>1, <1>3, <2>1, <2>2, <2>3, <3>1, <3>2, <3>3 DEF Made
  <2>4. CASE pc'[h] = "fail" /\ sym[LinkOf(h)] # Nil
    <3>1. InDev(<<Hash[list[h]], idx[h] - 1>>) /\ ~Pending(h, idx[h] - 1)
      BY <1>1, <1>3, <2>4 DEF InDev, Pending
    <3>2. Recorded(Cont(want[h]))
      BY <1>3, <2>2, <3>1
    <3> QED
      BY <2>1, <2>4, <3>2 DEF Made
  <2> QED
    BY <1>5, <2>3, <2>4
<1>8. PairedInv'
  <2>1. ctl \subseteq LinkIDs
    BY DEF Settled, TypeInv, TypeOK, OperatorTypeOK
  <2> QED
    BY <1>1, <1>2, <1>6, <2>1, PairedKept DEF AccountInv
<1>9. OwnLinksOnly(h) /\ Placed' /\ ForEach \subseteq ForEach' /\ pc'[h] # "idle"
    BY <1>1, <1>3, <1>5, <1>6 DEF OwnLinksOnly, AccountInv, Placed, ForEach
<1> QED
    BY <1>1, <1>2, <1>7, <1>8, <1>9, HandlerAccount

LEMMA CreateCtlAccount ==
    ASSUME Settled, Unbroken, AccountInv, NEW h \in Handlers, UNCHANGED gcVars, CreateCtl(h)
    PROVE  AccountInv'
<1>1. /\ UNCHANGED <<db, sym, assign, want, list>> /\ pc[h] = "ctl" /\ Active(h)
      /\ ctl' = ctl \cup {LinkOf(h)}
    BY DEF CreateCtl, SymlinkCtl, kubeletVars, operatorVars, Active, Unbroken
<1>2. \A g \in Handlers : g # h => pc'[g] = pc[g] /\ idx'[g] = idx[g]
    BY WorkingFrame DEF Working, Settled
<1>3. /\ LinkOf(h) \in LinkIDs /\ idx[h] - 1 \in 0 .. MaxLinks - 1 /\ idx[h] \in Nat
      /\ LinkOf(h) = <<Hash[list[h]], idx[h] - 1>>
    BY <1>1, LinkOfTyped DEF Settled
<1>4. (pc'[h] = "stat" /\ idx'[h] = idx[h] + 1) \/ pc'[h] = "load"
    BY DEF CreateCtl, Advance, Goto, Unbroken, Settled, TypeInv, TypeOK, PreStartTypeOK
<1>5. sym[LinkOf(h)] # Nil
    BY <1>1 DEF AccountInv, MadeInv, Made
<1>6. Made(h)'
  <2>1. Recorded(Cont(want[h]))' <=> Recorded(Cont(want[h]))
    BY <1>1 DEF Recorded
  <2>2. \A id : InDev(id)' => InDev(id)
    BY <1>1, <1>5 DEF InDev
  <2>3. \A i \in 0 .. MaxLinks - 1 : Pending(h, i) => Pending(h, i)'
    BY <1>1, <1>3, <1>4 DEF Pending
  <2>4. \/ Recorded(Cont(want[h]))
        \/ \A i \in 0 .. MaxLinks - 1 : InDev(<<Hash[list[h]], i>>) => Pending(h, i)
    BY <1>1 DEF AccountInv, MadeInv, Made
  <2> QED
    BY <1>1, <1>4, <2>1, <2>2, <2>3, <2>4 DEF Made
<1>7. PairedInv'
  <2>1. \A id \in ctl : Alone(id) => Alone(id)'
    BY <1>1, <1>2 DEF Alone, LinkOf, GCLink, gcVars
  <2> QED
    BY <1>1, <1>5, <2>1 DEF AccountInv, PairedInv
<1>8. OwnLinksOnly(h) /\ Placed' /\ ForEach \subseteq ForEach' /\ pc'[h] # "idle"
    BY <1>1, <1>3, <1>4 DEF OwnLinksOnly, AccountInv, Placed, ForEach
<1> QED
    BY <1>1, <1>2, <1>6, <1>7, <1>8, HandlerAccount

(***************************************************************************)
(* A save only adds: what was stored for the container is what is saved.   *)
(***************************************************************************)
LEMMA SaveAccount ==
    ASSUME Settled, Unbroken, OneClaim, AccountInv, NEW h \in Handlers, UNCHANGED gcVars,
           SaveRecord(h)
    PROVE  AccountInv'
<1>1. /\ UNCHANGED <<sym, ctl, assign, want, list, at, info, idx>>
      /\ pc[h] = "save" /\ Active(h)
    BY DEF SaveRecord, kubeletVars, operatorVars, Active
<1>2. \A g \in Handlers : g # h => pc'[g] = pc[g]
    BY WorkingFrame DEF Working, Settled
<1>3. /\ at[h] \in Pods \X Containers /\ want[h] \in ClaimsOf(at[h])
      /\ Holds(want[h]) /\ assign[want[h]] = list[h] /\ list[h] \in Lists
      /\ at[h] = Cont(want[h]) /\ at[h][1] = want[h][1] /\ at[h][2] = want[h][2]
    BY <1>1, AtSave DEF Settled, Looping
<1>4. at[h][1] \in api /\ want[h] \in Claims /\ want[h][3] \in Resources
    BY <1>1, <1>3, HandlerHolds
<1> DEFINE d == NewDevice(list[h], want[h][3])
<1>5. d \in Devices /\ d # Nil
    BY <1>3, <1>4, HashAssumption, NamesAssumption DEF NewDevice, Devices
<1>6. info[h] = [db[at[h][1]] EXCEPT ![at[h][2]] = d] /\ idx[h] = 1
    BY <1>1, <1>4 DEF Settled, StoredInv, HandlerStored
<1>7. db[at[h][1]] \in PodInfos
    BY <1>3 DEF Settled, TypeInv, TypeOK, StorageTypeOK
<1> HIDE DEF d
<1>8. info[h][at[h][2]] = d /\ \A c \in Containers : c # at[h][2] => info[h][c] = db[at[h][1]][c]
    BY <1>3, <1>6, <1>7 DEF PodInfos
<1>9. db[at[h][1]][at[h][2]] \in {d, Nil}
  <2> SUFFICES ASSUME db[at[h][1]][at[h][2]] # Nil PROVE db[at[h][1]][at[h][2]] = d
    OBVIOUS
  <2>1. PICK o \in ClaimsOf(<<at[h][1], at[h][2]>>) :
            assign[o] # {} /\ db[at[h][1]][at[h][2]] = NewDevice(assign[o], o[3])
    BY <1>3 DEF Settled, OwnInv, StoredOwn, OwnEntry, Holds
  <2>2. o = want[h]
    BY <1>3, <1>4, <2>1, ClaimsOfParts DEF OneClaim
  <2> QED
    BY <1>3, <2>1, <2>2 DEF d
<1>10. \A p \in Pods : \/ db'[p] = db[p]
                       \/ p = at[h][1] /\ db'[p] = info[h]
    BY DEF SaveRecord, Save, Settled, TypeInv, TypeOK, StorageTypeOK
<1>11. \A p \in Pods, c \in Containers : db[p][c] # Nil => db'[p][c] = db[p][c]
    BY <1>8, <1>9, <1>10
<1>12. ForEach \subseteq ForEach'
  <2> SUFFICES ASSUME NEW x \in ForEach PROVE x \in ForEach'
    OBVIOUS
  <2>1. PICK ct \in Pods \X Containers :
            /\ db[ct[1]][ct[2]] # Nil
            /\ x = [pod |-> ct[1], con |-> ct[2], dev |-> db[ct[1]][ct[2]]]
    BY DEF ForEach
  <2>2. db'[ct[1]][ct[2]] = db[ct[1]][ct[2]]
    BY <1>11, <2>1
  <2> QED
    BY <2>1, <2>2 DEF ForEach
<1>13. Placed'
  <2>1. at[h] \in PodContainers /\ at[h] = <<at[h][1], at[h][2]>>
    BY <1>3, <1>4, ClaimsOfParts
  <2> QED
    BY <1>8, <1>10, <2>1 DEF AccountInv, Placed
<1>14. (pc'[h] = "ok" /\ db'[at[h][1]] = info[h]) \/ pc'[h] = "undo"
    BY <1>3 DEF SaveRecord, Save, Goto, Settled, TypeInv, TypeOK, PreStartTypeOK,
                StorageTypeOK
<1>15. Made(h)'
  <2>1. CASE pc'[h] = "ok" /\ db'[at[h][1]] = info[h]
    <3>1. Recorded(Cont(want[h]))'
      BY <1>1, <1>3, <1>8, <2>1 DEF Recorded, Holds, d
    <3> QED
      BY <1>1, <2>1, <3>1 DEF Made
  <2>2. CASE pc'[h] = "undo"
    <3>1. \A i \in 0 .. MaxLinks - 1 : Pending(h, i)'
      BY <1>1, <1>6, <2>2 DEF Pending
    <3> QED
      BY <2>2, <3>1 DEF Made
  <2> QED
    BY <1>14, <2>1, <2>2
<1>16. PairedInv'
    BY <1>1, <1>2, PairedKept DEF AccountInv
<1>17. OwnLinksOnly(h) /\ pc'[h] # "idle"
    BY <1>1, <1>14 DEF OwnLinksOnly
<1>18. \A p \in Pods : p # want[h][1] => db'[p] = db[p]
    BY <1>3, <1>10
<1> QED
    BY <1>1, <1>2, <1>12, <1>13, <1>15, <1>16, <1>17, <1>18, HandlerAccount

(***************************************************************************)
(* The undoing goes over the same numbers as the loop; a link that is not  *)
(* there has no control link either.                                       *)
(***************************************************************************)
LEMMA AfterLast ==
    ASSUME Settled, NEW h \in Handlers, pc[h] \in Looping, ~(idx[h] < Len(val[h])),
           NEW i \in 0 .. MaxLinks - 1, InDev(<<Hash[list[h]], i>>)
    PROVE  i < idx[h]
<1>1. Active(h) /\ TypeInv /\ IsolationInv
    BY DEF Looping, Active, Settled
<1>2. want[h] \in Claims /\ assign[want[h]] # {} /\ assign[want[h]] = list[h] /\ list[h] \in Lists
    BY <1>1, HandlerHolds DEF Holds
<1>3. val[h] = Annotation(want[h]) /\ idx[h] \in 1 .. Len(val[h])
    BY <1>1, <1>2, WorksOn
<1>4. Len(val[h]) \in Nat
    BY <1>1 DEF TypeInv, TypeOK, PreStartTypeOK
<1>5. <<Hash[list[h]], i>> \in LinkIDs
    BY <1>2, HashAssumption DEF LinkIDs
<1>6. i < Len(Annotation(want[h]))
    BY <1>2, <1>5 DEF Settled, PlacesInv, PlaceInv, PlaceOK
<1> QED
    BY <1>3, <1>4, <1>6

LEMMA UndoFaults ==
    ASSUME Settled, Unbroken, NEW h \in Handlers, pc[h] \in {"undo", "undoctl"}
    PROVE  "unlink" \notin Faults
BY DEF Settled, StoredInv, HandlerStored, Unbroken, SavesRecover

LEMMA UndoneLink ==
    ASSUME Settled, Unbroken, AccountInv, NEW h \in Handlers, pc[h] = "undo",
           sym[LinkOf(h)] = Nil
    PROVE  ~InDev(LinkOf(h))
<1> SUFFICES ASSUME LinkOf(h) \in ctl PROVE FALSE
    BY DEF InDev
<1>1. Active(h) /\ Alone(LinkOf(h))
    BY UndoFaults DEF AccountInv, PairedInv, Active
<1>2. LinkOf(h)[1] = Hash[list[h]]
    BY DEF LinkOf
<1>3. ASSUME NEW g \in Handlers, pc[g] = "undoctl", LinkOf(h) = LinkOf(g) PROVE FALSE
    BY <1>1, <1>3, HandlersApart DEF LinkOf, Active
<1>4. ASSUME gcpc = "ctl", LinkOf(h) = GCLink PROVE FALSE
    BY <1>1, <1>4, CollectorApart DEF LinkOf, GCLink, Deleting
<1> QED
    BY <1>1, <1>3, <1>4 DEF Alone

LEMMA UndoSymAccount ==
    ASSUME Settled, Unbroken, AccountInv, NEW h \in Handlers, UNCHANGED gcVars, UndoSym(h)
    PROVE  AccountInv'
<1>1. /\ UNCHANGED <<db, ctl, assign, want, list, val>> /\ pc[h] = "undo" /\ Active(h)
      /\ pc[h] \in Looping
    BY DEF UndoSym, RemoveSym, kubeletVars, operatorVars, Active, Looping
<1>2. \A g \in Handlers : g # h => pc'[g] = pc[g] /\ idx'[g] = idx[g]
    BY WorkingFrame DEF Working, Settled
<1>3. /\ LinkOf(h) \in LinkIDs /\ idx[h] - 1 \in 0 .. MaxLinks - 1 /\ idx[h] \in Nat \ {0}
      /\ LinkOf(h) = <<Hash[list[h]], idx[h] - 1>>
    BY <1>1, LinkOfTyped DEF Settled
<1>4. \/ /\ pc'[h] = "undoctl" /\ idx'[h] = idx[h]
         /\ sym' = [sym EXCEPT ![LinkOf(h)] = Nil]
      \/ /\ pc'[h] = "undo" /\ idx'[h] = idx[h] + 1
         /\ sym' = sym /\ sym[LinkOf(h)] = Nil
      \/ /\ pc'[h] = "ok" /\ ~(idx[h] < Len(val[h]))
         /\ sym' = sym /\ sym[LinkOf(h)] = Nil
    BY <1>1, UndoFaults DEF UndoSym, CanRemoveSym, RemoveSym, Advance, Goto, operatorVars,
       Settled, TypeInv, TypeOK, PreStartTypeOK
<1>5. \A id \in LinkIDs : /\ id # LinkOf(h) => sym'[id] = sym[id]
                          /\ InDev(id)' => InDev(id)
    BY <1>1, <1>4 DEF InDev, Settled, TypeInv, TypeOK, OperatorTypeOK
<1>6. Made(h)'
  <2>1. Recorded(Cont(want[h]))' <=> Recorded(Cont(want[h]))
    BY <1>1 DEF Recorded
  <2>2. \/ Recorded(Cont(want[h]))
        \/ \A i \in 0 .. MaxLinks - 1 : InDev(<<Hash[list[h]], i>>) => Pending(h, i)
    BY <1>1 DEF AccountInv, MadeInv, Made
  <2>3. \A i \in 0 .. MaxLinks - 1 : InDev(<<Hash[list[h]], i>>)' => InDev(<<Hash[list[h]], i>>)
    BY <1>1, <1>5, HandlerHolds, HashAssumption DEF LinkIDs
  <2>4. pc'[h] = "undoctl" => sym'[LinkOf(h)'] = Nil
    BY <1>1, <1>3, <1>4 DEF LinkOf, Settled, TypeInv, TypeOK, OperatorTypeOK
  <2>5. ASSUME NEW i \in 0 .. MaxLinks - 1, InDev(<<Hash[list[h]], i>>), Pending(h, i)
        PROVE  Pending(h, i)'
    <3>1. i >= idx[h] - 1
      BY <1>1, <2>5 DEF Pending
    <3>2. sym[LinkOf(h)] = Nil => i # idx[h] - 1
      BY <1>1, <1>3, <2>5, UndoneLink
    <3>3. CASE pc'[h] = "undoctl" /\ idx'[h] = idx[h]
      BY <3>1, <3>3 DEF Pending
    <3>4. CASE pc'[h] = "undo" /\ idx'[h] = idx[h] + 1 /\ sym[LinkOf(h)] = Nil
      BY <1>3, <3>1, <3>2, <3>4 DEF Pending
    <3>5. CASE ~(idx[h] < Len(val[h])) /\ sym[LinkOf(h)] = Nil
      <4>1. i < idx[h]
        BY <1>1, <2>5, <3>5, AfterLast
      <4> QED
        BY <1>3, <3>1, <3>2, <3>5, <4>1
    <3> QED
      BY <1>4, <3>3, <3>4, <3>5
  <2>6. pc'[h] # "ctl"
    BY <1>4
  <2> QED
    BY <1>1, <2>1, <2>2, <2>3, <2>4, <2>5, <2>6 DEF Made
<1>7. PairedInv'
  <2>1. \A id \in ctl : Alone(id) => Alone(id)'
    BY <1>1, <1>2 DEF Alone, LinkOf, GCLink, gcVars
  <2>2. \A id \in ctl : sym[id] # Nil => sym'[id] # Nil \/ Alone(id)'
    BY <1>1, <1>4, <1>5 DEF Alone, LinkOf, Settled, TypeInv, TypeOK, OperatorTypeOK
  <2> QED
    BY <1>1, <2>1, <2>2 DEF AccountInv, PairedInv
<1>8. OwnLinksOnly(h) /\ Placed' /\ ForEach \subseteq ForEach' /\ pc'[h] # "idle"
    BY <1>1, <1>3, <1>4, <1>5 DEF OwnLinksOnly, AccountInv, Placed, ForEach
<1> QED
    BY <1>1, <1>2, <1>6, <1>7, <1>8, HandlerAccount

LEMMA UndoCtlAccount ==
    ASSUME Settled, Unbroken, AccountInv, NEW h \in Handlers, UNCHANGED gcVars, UndoCtl(h)
    PROVE  AccountInv'
<1>1. /\ UNCHANGED <<db, sym, assign, want, list, val>> /\ pc[h] = "undoctl" /\ Active(h)
      /\ pc[h] \in Looping
    BY DEF UndoCtl, RemoveCtl, kubeletVars, operatorVars, Active, Looping
<1>2. \A g \in Handlers : g # h => pc'[g] = pc[g] /\ idx'[g] = idx[g]
    BY WorkingFrame DEF Working, Settled
<1>3. /\ LinkOf(h) \in LinkIDs /\ idx[h] - 1 \in 0 .. MaxLinks - 1 /\ idx[h] \in Nat \ {0}
      /\ LinkOf(h) = <<Hash[list[h]], idx[h] - 1>>
    BY <1>1, LinkOfTyped DEF Settled
<1>4. /\ ctl' = ctl \ {LinkOf(h)}
      /\ \/ pc'[h] = "undo" /\ idx'[h] = idx[h] + 1
         \/ pc'[h] = "ok" /\ ~(idx[h] < Len(val[h]))
    BY <1>1, UndoFaults DEF UndoCtl, RemoveCtl, Advance, Goto, Settled, TypeInv, TypeOK,
       PreStartTypeOK
<1>5. Made(h)'
  <2>1. Recorded(Cont(want[h]))' <=> Recorded(Cont(want[h]))
    BY <1>1 DEF Recorded
  <2>2. \/ Recorded(Cont(want[h]))
        \/ \A i \in 0 .. MaxLinks - 1 : InDev(<<Hash[list[h]], i>>) => Pending(h, i)
    BY <1>1 DEF AccountInv, MadeInv, Made
  <2>3. ASSUME NEW i \in 0 .. MaxLinks - 1, InDev(<<Hash[list[h]], i>>)', Pending(h, i)
        PROVE  Pending(h, i)'
    <3>1. i >= idx[h] - 1
      BY <1>1, <2>3 DEF Pending
    <3>2. i # idx[h] - 1
      <4>1. sym'[LinkOf(h)] = Nil /\ LinkOf(h) \notin ctl'
        BY <1>1, <1>4 DEF AccountInv, MadeInv, Made
      <4>2. sym'[<<Hash[list[h]], i>>] # Nil \/ <<Hash[list[h]], i>> \in ctl'
        BY <1>1, <2>3 DEF InDev
      <4> QED
        BY <1>3, <4>1, <4>2
    <3>3. CASE pc'[h] = "undo" /\ idx'[h] = idx[h] + 1
      BY <1>3, <3>1, <3>2, <3>3 DEF Pending
    <3>4. CASE ~(idx[h] < Len(val[h]))
      <4>1. InDev(<<Hash[list[h]], i>>)
        BY <1>1, <1>4, <2>3 DEF InDev
      <4>2. i < idx[h]
        BY <1>1, <3>4, <4>1, AfterLast
      <4> QED
        BY <1>3, <3>1, <3>2, <4>2
    <3> QED
      BY <1>4, <3>3, <3>4
  <2>4. \A i \in 0 .. MaxLinks - 1 : InDev(<<Hash[list[h]], i>>)' => InDev(<<Hash[list[h]], i>>)
    BY <1>1, <1>4 DEF InDev
  <2>5. pc'[h] \notin {"ctl", "undoctl"}
    BY <1>4
  <2> QED
    BY <1>1, <2>1, <2>2, <2>3, <2>4, <2>5 DEF Made
<1>6. PairedInv'
  <2>1. \A id \in ctl' : Alone(id) => Alone(id)'
    BY <1>1, <1>2, <1>4 DEF Alone, LinkOf, GCLink, gcVars
  <2> QED
    BY <1>1, <1>4, <2>1 DEF AccountInv, PairedInv
<1>7. OwnLinksOnly(h) /\ Placed' /\ ForEach \subseteq ForEach' /\ pc'[h] # "idle"
    BY <1>1, <1>4 DEF OwnLinksOnly, AccountInv, Placed, ForEach
<1> QED
    BY <1>1, <1>2, <1>5, <1>6, <1>7, HandlerAccount

(***************************************************************************)
(* A handler begins: links with its hash are of a record, of its own       *)
(* container then, since no other handler is at work for it.               *)
(***************************************************************************)
LEMMA CallAccount ==
    ASSUME Settled, Unbroken, OneClaim, AccountInv, NEW h \in Handlers, NEW cl \in Claims,
           Call(h, cl)
    PROVE  AccountInv'
<1>1. /\ UNCHANGED <<db, sym, ctl, assign, idx, gcVars>> /\ pc[h] = "idle" /\ Holds(cl)
      /\ pc' = [pc EXCEPT ![h] = "locate"] /\ want' = [want EXCEPT ![h] = cl]
      /\ list' = [list EXCEPT ![h] = assign[cl]] /\ \A g \in awaited : want[g][1] # cl[1]
    BY DEF Call, PreStartContainer, Goto, kubeletVars, operatorVars, Holds
<1>2. /\ pc'[h] = "locate" /\ want'[h] = cl /\ list'[h] = assign[cl]
      /\ \A g \in Handlers : g # h => /\ pc'[g] = pc[g] /\ want'[g] = want[g]
                                      /\ list'[g] = list[g] /\ idx'[g] = idx[g]
    BY <1>1 DEF Settled, TypeInv, TypeOK, PreStartTypeOK
<1>3. Placed' /\ QueueInv' /\ ClearedInv'
    BY <1>1 DEF AccountInv, Placed, QueueInv, ForEach, ClearedInv, Cleared, InDev, GCLink, gcVars
<1>4. PairedInv'
    BY <1>1, <1>2, PairedKept DEF AccountInv
<1>5. ASSUME NEW i \in 0 .. MaxLinks - 1, InDev(<<Hash[assign[cl]], i>>)
      PROVE  Recorded(Cont(cl))
  <2>1. assign[cl] \in Lists
    BY <1>1 DEF Holds, Settled, TypeInv, TypeOK, KubeletTypeOK
  <2>2. <<Hash[assign[cl]], i>> \in LinkIDs
    BY <2>1, HashAssumption DEF LinkIDs
  <2>3. Covered(<<Hash[assign[cl]], i>>)
    BY <1>5, <2>2 DEF AccountInv, CoverInv
  <2>4. ASSUME NEW g \in Handlers, Active(g), Hash[list[g]] = Hash[assign[cl]]
        PROVE  FALSE
    <3>1. Cont(want[g]) = Cont(cl)
      BY <1>1, <2>4, SameHash DEF Settled, Unbroken, Orderly, Reused
    <3>2. g \in awaited
      BY <2>4 DEF Settled, LiveInv, ActiveOK
    <3> QED
      BY <1>1, <3>1, <3>2 DEF Cont
  <2>5. \E x \in ForEach : x.dev.hash = Hash[assign[cl]]
    BY <2>3, <2>4 DEF Covered, Covers
  <2> QED
    BY <1>1, <2>5, LineRecorded
<1>6. Made(h)'
  <2>1. \/ Recorded(Cont(cl))
        \/ \A i \in 0 .. MaxLinks - 1 : ~InDev(<<Hash[assign[cl]], i>>)
    BY <1>5
  <2>2. Recorded(Cont(want[h]))' <=> Recorded(Cont(cl))
    BY <1>1, <1>2 DEF Recorded
  <2>3. \A i : InDev(<<Hash[list[h]], i>>)' <=> InDev(<<Hash[assign[cl]], i>>)
    BY <1>1, <1>2 DEF InDev
  <2> QED
    BY <1>2, <2>1, <2>2, <2>3 DEF Made
<1>7. ASSUME NEW g \in Handlers, g # h PROVE Made(g)'
  <2>1. Recorded(Cont(want[g]))' <=> Recorded(Cont(want[g]))
    BY <1>1, <1>2, <1>7 DEF Recorded
  <2>2. Made(g)
    BY DEF AccountInv, MadeInv
  <2> QED
    BY <1>1, <1>2, <1>7, <2>1, <2>2 DEF Made, Active, InDev, Pending, LinkOf
<1>8. CoverInv'
  <2>1. \A g \in Handlers : Active(g) => Active(g)' /\ list'[g] = list[g]
    BY <1>1, <1>2 DEF Active
  <2> QED
    BY <1>1, <2>1 DEF AccountInv, CoverInv, Covered, InDev, ForEach
<1> QED
    BY <1>3, <1>4, <1>6, <1>7, <1>8 DEF AccountInv, MadeInv

(***************************************************************************)
(* A handler ends: its links are those of a record, or gone.               *)
(***************************************************************************)
LEMMA ReturnAccount ==
    ASSUME Settled, Unbroken, OneClaim, AccountInv, NEW h \in Handlers, UNCHANGED gcVars,
           Return(h)
    PROVE  AccountInv'
<1>1. /\ UNCHANGED <<db, sym, ctl, assign, gcVars>> /\ pc[h] \in {"ok", "fail"} /\ Active(h)
    BY DEF Return, operatorVars, Active
<1>2. /\ pc'[h] = "idle"
      /\ \A g \in Handlers : g # h => /\ pc'[g] = pc[g] /\ want'[g] = want[g]
                                      /\ list'[g] = list[g] /\ idx'[g] = idx[g]
    BY DEF Return, Goto, Settled, TypeInv, TypeOK, PreStartTypeOK
<1>3. Placed' /\ QueueInv' /\ ClearedInv'
    BY <1>1 DEF AccountInv, Placed, QueueInv, ForEach, ClearedInv, Cleared, InDev, GCLink, gcVars
<1>4. PairedInv'
    BY <1>1, <1>2, PairedKept DEF AccountInv
<1>5. ASSUME NEW g \in Handlers PROVE Made(g)'
  <2>1. CASE g = h
    BY <1>2, <2>1 DEF Made, Active
  <2>2. CASE g # h
    <3>1. Recorded(Cont(want[g]))' <=> Recorded(Cont(want[g]))
      BY <1>1, <1>2, <2>2 DEF Recorded
    <3>2. Made(g)
      BY DEF AccountInv, MadeInv
    <3> QED
      BY <1>1, <1>2, <2>2, <3>1, <3>2 DEF Made, Active, InDev, Pending, LinkOf
  <2> QED
    BY <2>1, <2>2
<1>6. ASSUME NEW id \in LinkIDs, InDev(id)' PROVE Covered(id)'
  <2>1. InDev(id) /\ ForEach' = ForEach
    BY <1>1, <1>6 DEF InDev, ForEach
  <2>2. CASE id[1] = Hash[list[h]]
    <3>1. id[2] \in 0 .. MaxLinks - 1 /\ id = <<Hash[list[h]], id[2]>>
      BY <2>2 DEF LinkIDs
    <3>2. ~Pending(h, id[2])
      BY <1>1 DEF Pending
    <3>3. Recorded(Cont(want[h]))
      BY <1>1, <2>1, <3>1, <3>2 DEF AccountInv, MadeInv, Made
    <3>4. \E x \in ForEach : Covers(x.dev, id)
      BY <1>1, <2>1, <2>2, <3>3, HandlerHolds, RecordedCovers
    <3> QED
      BY <2>1, <3>4 DEF Covered
  <2>3. CASE id[1] # Hash[list[h]]
    <3>1. Covered(id)
      BY <2>1 DEF AccountInv, CoverInv
    <3> QED
      BY <1>2, <2>1, <2>3, <3>1 DEF Covered, Active
  <2> QED
    BY <2>2, <2>3
<1> QED
    BY <1>3, <1>4, <1>5, <1>6 DEF AccountInv, MadeInv, CoverInv

(***************************************************************************)
(* Steps of the collector. It works on one line at a time, and the lines   *)
(* it has are all stored until it deletes them: a pod has one.             *)
(***************************************************************************)
LEMMA SoleLine ==
    ASSUME OneClaim, Placed, NEW x \in ForEach, NEW y \in ForEach, x.pod = y.pod
    PROVE  x = y
<1>1. PICK p \in Pods, c \in Containers :
          db[p][c] # Nil /\ x = [pod |-> p, con |-> c, dev |-> db[p][c]]
    BY StoredLines
<1>2. PICK q \in Pods, d \in Containers :
          db[q][d] # Nil /\ y = [pod |-> q, con |-> d, dev |-> db[q][d]]
    BY StoredLines
<1>3. <<p, c>> \in PodContainers /\ <<q, d>> \in PodContainers /\ p = q
    BY <1>1, <1>2 DEF Placed
<1>4. c = d
    BY <1>3, ClaimsOfParts DEF OneClaim
<1> QED
    BY <1>1, <1>2, <1>3, <1>4

LEMMA CollectShrinks ==
    ASSUME Settled, Collect
    PROVE  UNCHANGED preStartVars /\ Shrinks
<1>1. ctl' \subseteq ctl
    BY DEF Collect, GCStep, GCStart, GCScan, GCAsk, GCNext, GCRemoveSym, GCRemoveCtl,
           GCDeleteRecord, RemoveSym, RemoveCtl, operatorVars
<1> QED
    BY <1>1, CollectEffect DEF Settled, Shrinks

LEMMA CollectMade ==
    ASSUME Settled, AccountInv, Collect
    PROVE  MadeInv'
<1> SUFFICES ASSUME NEW g \in Handlers PROVE Made(g)'
    BY DEF MadeInv
<1>1. UNCHANGED <<assign, preStartVars>> /\ OnlyRemoves /\ \A p \in api : db'[p] = db[p]
    BY CollectEffect DEF Settled
<1>2. CASE ~Active(g)
    BY <1>1, <1>2 DEF Made, Active, preStartVars
<1>3. CASE Active(g)
  <2>1. \A id \in LinkIDs : id[1] = Hash[list[g]] =>
            sym'[id] = sym[id] /\ (InDev(id)' => InDev(id))
    <3>1. \A id \in LinkIDs : id[1] = Hash[list[g]] /\ gcpc \in {"sym", "ctl"} => id # GCLink
      BY <1>3, CollectorApart DEF GCLink, Deleting
    <3>2. sym \in [LinkIDs -> GPUs \cup {Nil}]
      BY DEF Settled, TypeInv, TypeOK, OperatorTypeOK
    <3>3. \/ UNCHANGED <<sym, ctl>>
          \/ gcpc \in {"sym", "ctl"} /\ ctl' \subseteq ctl
             /\ \A id \in LinkIDs : id # GCLink => sym'[id] = sym[id]
      BY <3>2 DEF Collect, GCStep, GCStart, GCScan, GCAsk, GCNext, GCRemoveSym, GCRemoveCtl,
             GCDeleteRecord, RemoveSym, RemoveCtl, operatorVars
    <3> QED
      BY <3>1, <3>3 DEF InDev
  <2>2. LinkOf(g) \in LinkIDs /\ LinkOf(g)[1] = Hash[list[g]] /\ LinkOf(g)' = LinkOf(g)
    BY <1>1, <1>3, LinkOfTyped DEF Settled, LinkOf, preStartVars
  <2>3. \A i \in 0 .. MaxLinks - 1 : <<Hash[list[g]], i>> \in LinkIDs
    BY <1>3, HandlerHolds, HashAssumption DEF LinkIDs
  <2>4. Recorded(Cont(want[g]))' <=> Recorded(Cont(want[g]))
    BY <1>1, <1>3, HandlerHolds DEF Recorded, Cont, preStartVars
  <2>5. Made(g)
    BY DEF AccountInv, MadeInv
  <2> QED
    BY <1>1, <2>1, <2>2, <2>3, <2>4, <2>5 DEF Made, Active, Pending, preStartVars
<1> QED
    BY <1>2, <1>3

LEMMA CollectQueue ==
    ASSUME Settled, OneClaim, AccountInv, Collect
    PROVE  Placed' /\ QueueInv'
<1>1. CASE GCDeleteRecord
  <2>1. /\ UNCHANGED <<scan, todo>> /\ gcpc = "record" /\ gcpc' = "next"
        /\ \/ db' = [db EXCEPT ![line.pod] = NewPI]
           \/ db' = db
    BY <1>1 DEF GCDeleteRecord, DeleteRecord
  <2>2. \A p \in Pods, c \in Containers : /\ db'[p][c] # Nil => db[p][c] # Nil
                                          /\ p # line.pod => db'[p] = db[p]
    BY <2>1 DEF NewPI, Settled, TypeInv, TypeOK, StorageTypeOK
  <2>3. line \in ForEach \ todo /\ scan = {} /\ todo \subseteq ForEach
    BY <2>1 DEF AccountInv, QueueInv, Deleting
  <2>4. ASSUME NEW x \in todo PROVE x \in ForEach'
    <3>1. x.pod # line.pod
      BY <2>3, SoleLine DEF AccountInv
    <3>2. PICK p \in Pods, c \in Containers :
              db[p][c] # Nil /\ x = [pod |-> p, con |-> c, dev |-> db[p][c]]
      BY <2>3, StoredLines
    <3>3. db'[p] = db[p]
      BY <2>2, <3>1, <3>2
    <3>4. <<p, c>> \in {y \in Pods \X Containers : db'[y[1]][y[2]] # Nil}
      BY <3>2, <3>3
    <3> QED
      BY <3>2, <3>3, <3>4 DEF ForEach
  <2> QED
    BY <2>1, <2>2, <2>3, <2>4 DEF AccountInv, Placed, QueueInv, Deleting
<1>2. CASE GCStart \/ GCScan \/ GCAsk \/ GCNext \/ GCRemoveSym \/ GCRemoveCtl
  <2>1. UNCHANGED db
    BY <1>2 DEF GCStart, GCScan, GCAsk, GCNext, GCRemoveSym, GCRemoveCtl
  <2>2. Placed' /\ ForEach' = ForEach
    BY <2>1 DEF AccountInv, Placed, ForEach
  <2>3. CASE GCStart
    BY <2>2, <2>3 DEF GCStart, AccountInv, QueueInv, Deleting
  <2>4. CASE GCScan \/ GCAsk
    BY <2>2, <2>4 DEF GCScan, GCAsk, LinesOf, AccountInv, QueueInv, Deleting
  <2>5. CASE GCNext
    BY <2>2, <2>5 DEF GCNext, LinesOf, AccountInv, QueueInv, Deleting
  <2>6. CASE GCRemoveSym \/ GCRemoveCtl
    BY <2>2, <2>6 DEF GCRemoveSym, GCRemoveCtl, GCError, AccountInv, QueueInv, Deleting
  <2> QED
    BY <1>2, <2>2, <2>3, <2>4, <2>5, <2>6
<1> QED
    BY <1>1, <1>2 DEF Collect, GCStep

LEMMA CollectCleared ==
    ASSUME Settled, AccountInv, Collect
    PROVE  ClearedInv'
<1>1. /\ sym \in [LinkIDs -> GPUs \cup {Nil}] /\ gci \in 0 .. MaxLinks - 1 /\ MaxLinks \in Nat
      /\ gcpc \in Deleting => line \in Lines /\ GCLink \in LinkIDs
    BY BoundsAssumption DEF Settled, TypeInv, TypeOK, OperatorTypeOK, GCTypeOK, CollectorInv,
       Deleting, GCLink, Lines, Devices, LinkIDs
<1>2. CASE gcpc = "sym" /\ gcpc' = "ctl" /\ RemoveSym(GCLink) /\ UNCHANGED <<line, gci>>
  <2>1. sym'[GCLink] = Nil /\ GCLink' = GCLink
    BY <1>1, <1>2 DEF RemoveSym, GCLink, Deleting
  <2>2. \A i \in 0 .. MaxLinks - 1 : Cleared(i) => Cleared(i)'
    BY <1>1, <1>2 DEF RemoveSym, Cleared, InDev, GCLink, Deleting
  <2> QED
    BY <1>2, <2>1, <2>2 DEF AccountInv, ClearedInv
<1>3. CASE /\ gcpc = "ctl" /\ RemoveCtl(GCLink) /\ UNCHANGED line
           /\ IF gci < LastLink(line.dev) THEN gci' = gci + 1 /\ gcpc' = "sym"
                                          ELSE gci' = 0 /\ gcpc' = "record"
  <2>1. \A i \in 0 .. MaxLinks - 1 : Cleared(i) \/ i = gci => Cleared(i)'
    BY <1>3 DEF RemoveCtl, Cleared, InDev, GCLink, AccountInv, ClearedInv
  <2>2. \A i \in 0 .. MaxLinks - 1 : i <= gci => Cleared(i)'
    BY <1>1, <1>3, <2>1 DEF AccountInv, ClearedInv
  <2>3. CASE gci < LastLink(line.dev)
    BY <1>1, <1>3, <2>2, <2>3 DEF ClearedInv
  <2>4. CASE ~(gci < LastLink(line.dev))
    <3>1. LastLink(line.dev) \in Int /\ LastLink(line.dev) <= MaxLinks - 1
      <4>1. line.dev \in Devices
        BY <1>1, <1>3 DEF Lines, Deleting
      <4>2. Cardinality(line.dev.list) \in Nat /\ Percent \in Nat \ {0}
        BY <4>1, ListsAssumption, FS_CardinalityType, BoundsAssumption DEF Devices
      <4> QED
        BY <4>1, <4>2, LastLinkBound DEF LastLink
    <3>2. \A i \in GCLinks(line.dev) : i \in 0 .. MaxLinks - 1 /\ i <= gci
      BY <1>1, <2>4, <3>1 DEF GCLinks
    <3>3. GCLinks(line.dev)' = GCLinks(line.dev)
      BY <1>3
    <3> QED
      BY <1>3, <2>2, <2>4, <3>2, <3>3 DEF ClearedInv
  <2> QED
    BY <2>3, <2>4
<1>4. CASE gcpc' = "sym" /\ gci' = 0
    BY <1>1, <1>4 DEF ClearedInv
<1>5. CASE gcpc' \notin {"sym", "ctl", "record"}
    BY <1>5 DEF ClearedInv
<1>6. CASE GCRemoveSym
    BY <1>2, <1>5, <1>6 DEF GCRemoveSym, GCError
<1>7. CASE GCRemoveCtl
    BY <1>3, <1>5, <1>7 DEF GCRemoveCtl, GCError
<1>8. CASE GCStart \/ GCScan \/ GCAsk \/ GCNext \/ GCDeleteRecord
    BY <1>4, <1>5, <1>8 DEF GCStart, GCScan, GCAsk, GCNext, GCDeleteRecord
<1> QED
    BY <1>6, <1>7, <1>8 DEF Collect, GCStep

LEMMA CollectPaired ==
    ASSUME Settled, AccountInv, Collect
    PROVE  PairedInv'
<1> SUFFICES ASSUME "unlink" \notin Faults, NEW id \in ctl'
             PROVE  sym'[id] # Nil \/ Alone(id)'
    BY DEF PairedInv
<1>1. UNCHANGED preStartVars /\ ctl' \subseteq ctl
    BY CollectShrinks DEF Shrinks
<1>2. sym[id] # Nil \/ Alone(id)
    BY <1>1 DEF AccountInv, PairedInv
<1>3. \A h \in Handlers : pc[h] = "undoctl" /\ id = LinkOf(h) => Alone(id)'
    BY <1>1 DEF Alone, LinkOf, preStartVars
<1>4. sym \in [LinkIDs -> GPUs \cup {Nil}] /\ id \in LinkIDs
    BY <1>1 DEF Settled, TypeInv, TypeOK, OperatorTypeOK
<1>5. CASE gcpc = "sym" /\ gcpc' = "ctl" /\ RemoveSym(GCLink) /\ UNCHANGED <<line, gci>>
  <2>1. id # GCLink => sym'[id] = sym[id]
    BY <1>4, <1>5 DEF RemoveSym
  <2>2. id = GCLink => Alone(id)'
    BY <1>5 DEF Alone, GCLink
  <2> QED
    BY <1>2, <1>3, <1>5, <2>1, <2>2 DEF Alone
<1>6. CASE gcpc = "ctl" /\ UNCHANGED sym /\ GCLink \notin ctl'
    BY <1>2, <1>3, <1>6 DEF Alone
<1>7. CASE gcpc # "ctl" /\ UNCHANGED sym
    BY <1>2, <1>3, <1>7 DEF Alone
<1>8. CASE GCRemoveSym
    BY <1>5, <1>7, <1>8 DEF GCRemoveSym, operatorVars
<1>9. CASE GCRemoveCtl
    BY <1>6, <1>9 DEF GCRemoveCtl, CanRemoveCtl, RemoveCtl, operatorVars
<1>10. CASE GCStart \/ GCScan \/ GCAsk \/ GCNext \/ GCDeleteRecord
    BY <1>7, <1>10 DEF GCStart, GCScan, GCAsk, GCNext, GCDeleteRecord, operatorVars
<1> QED
    BY <1>8, <1>9, <1>10 DEF Collect, GCStep

LEMMA CollectCover ==
    ASSUME Settled, OneClaim, AccountInv, Collect
    PROVE  CoverInv'
<1> SUFFICES ASSUME NEW id \in LinkIDs, InDev(id)' PROVE Covered(id)'
    BY DEF CoverInv
<1>1. UNCHANGED preStartVars /\ InDev(id)
    BY CollectShrinks DEF Shrinks, OnlyRemoves, InDev
<1>2. Covered(id)
    BY <1>1 DEF AccountInv, CoverInv
<1>3. CASE \E h \in Handlers : Active(h) /\ Hash[list[h]] = id[1]
    BY <1>1, <1>3 DEF Covered, Active, preStartVars
<1>4. ASSUME NEW x \in ForEach, Covers(x.dev, id) PROVE Covered(id)'
  <2>1. CASE UNCHANGED db
    BY <1>4, <2>1 DEF Covered, ForEach
  <2>2. CASE gcpc = "record" /\ DeleteRecord(line.pod)
    <3>1. x # line
      BY <1>1, <1>4, <2>2 DEF AccountInv, ClearedInv, Cleared, Covers, LinkIDs
    <3>2. x.pod # line.pod
      BY <2>2, <3>1, SoleLine DEF AccountInv, QueueInv, Deleting
    <3>3. PICK p \in Pods, c \in Containers :
              db[p][c] # Nil /\ x = [pod |-> p, con |-> c, dev |-> db[p][c]]
      BY StoredLines
    <3>4. db'[p] = db[p]
      BY <2>2, <3>2, <3>3 DEF DeleteRecord, Settled, TypeInv, TypeOK, StorageTypeOK
    <3>5. <<p, c>> \in {y \in Pods \X Containers : db'[y[1]][y[2]] # Nil}
      BY <3>3, <3>4
    <3>6. x \in ForEach'
      BY <3>3, <3>4, <3>5 DEF ForEach
    <3> QED
      BY <1>4, <3>6 DEF Covered
  <2> QED
    BY <2>1, <2>2 DEF Collect, GCStep, GCStart, GCScan, GCAsk, GCNext, GCRemoveSym,
       GCRemoveCtl, GCDeleteRecord
<1> QED
    BY <1>2, <1>3, <1>4 DEF Covered

LEMMA NextAccount ==
    ASSUME Settled, Unbroken, OneClaim, AccountInv, [Next]_vars
    PROVE  AccountInv'
<1>1. CASE Collect
    BY <1>1, CollectMade, CollectQueue, CollectCleared, CollectPaired, CollectCover
       DEF AccountInv
<1>2. ASSUME NEW h \in Handlers, Serve(h)
      PROVE  AccountInv'
    BY <1>2, QuietAccount, CreateSymAccount, CreateCtlAccount, SaveAccount, UndoSymAccount,
       UndoCtlAccount, ReturnAccount DEF Serve, Handler
<1>3. "timeout" \notin Faults /\ "crash" \notin Faults
    BY DEF Unbroken, Orderly
<1> QED
    BY <1>1, <1>2, <1>3, CallAccount, NextEnvironmentAccount DEF Next, GiveUp, Crash

(***************************************************************************)
(* No link is forgotten: whatever PreStartContainer makes in /dev belongs  *)
(* to a record that GC will work through, or to a handler that is still    *)
(* running and will record or remove it. A handler that fails has made no  *)
(* link or finds a record, one whose Save fails removes what it made, a    *)
(* retry finds only what the record covers, and GC drops a record after    *)
(* its last link. For any number of pods with one claim each, links and    *)
(* handlers, with failed saves (where removals work), failed removals      *)
(* (where saves work) and failed lookups; a crash or a failed link would   *)
(* leave links that no record names.                                       *)
(***************************************************************************)
THEOREM AllLinksAccounted ==
    ASSUME OneClaim, Unbroken
    PROVE  Spec => []LinksAccounted
<1> DEFINE Inv == Settled /\ AccountInv
<1>1. Init => Inv
    BY InitTypes, InitRecord, InitIsolation, InitLive, InitStored, InitKeep, InitPlaces,
       InitAccount DEF Settled, KeepInv
<1>2. Inv /\ [Next]_vars => Inv'
  <2> SUFFICES ASSUME Inv, [Next]_vars PROVE Inv'
    OBVIOUS
  <2>1. TypeInv' /\ RecordInv' /\ IsolationInv' /\ LiveInv' /\ StoredInv'
    BY NextTypes, NextRecord, NextIsolation, NextLive, NextStored
       DEF Settled, Unbroken, Orderly
  <2>2. OwnInv' /\ LineInv' /\ PlacesInv'
    BY NextOwn, NextLine, NextPlaces DEF Settled, Unbroken, Orderly, Reused
  <2>3. AccountInv'
    BY NextAccount
  <2> QED
    BY <2>1, <2>2, <2>3 DEF Settled
<1>3. Inv => LinksAccounted
    BY DEF AccountInv, CoverInv, Covered, InDev, Active, LinksAccounted
<1> QED
    BY <1>1, <1>2, <1>3, PTL DEF Spec
=============================================================================
