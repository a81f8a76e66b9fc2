--------------------------- MODULE IsolationProofs ---------------------------
(***************************************************************************)
(* Isolation, for every value of the constants: as long as device lists    *)
(* are not handed out again while links or handlers of their hash remain,  *)
(* and pod names are not used again, no container gets a GPU that was not  *)
(* assumed for it. All other faults may happen: crashes, late handlers,    *)
(* failing system calls and transactions, force-deleted pods.              *)
(***************************************************************************)
EXTENDS AgentProofs

(***************************************************************************)
(* The ways a hash can be in use when the kubelet hands out a list of it.  *)
(***************************************************************************)
Reused == {"leaked", "late", "collide"}

Cont(cl) == <<cl[1], cl[2]>>

(***************************************************************************)
(* The cache may lack a pod but not remember another one of that name.     *)
(***************************************************************************)
CacheInv ==
    \A p \in Pods : /\ cache[p] # Nil => cache[p] = pod[p]
                    /\ p \in api => pod[p] # Nil

(***************************************************************************)
(* Lists of the same resource do not overlap, and lists with the same hash *)
(* belong to the same container.                                           *)
(***************************************************************************)
AssignInv ==
    /\ \A cl \in Claims : assign[cl] # {} => pod[cl[1]] # Nil
    /\ \A c1, c2 \in Claims :
           c1 # c2 /\ c1[3] = c2[3] => assign[c1] \cap assign[c2] = {}
    /\ \A c1, c2 \in Claims :
           assign[c1] # {} /\ assign[c2] # {} /\ Hash[assign[c1]] = Hash[assign[c2]]
           => Cont(c1) = Cont(c2)

(***************************************************************************)
(* The links of a list that is assigned point to assumed GPUs only.        *)
(***************************************************************************)
LinkInv ==
    \A cl \in Claims, id \in LinkIDs :
        assign[cl] # {} /\ id[1] = Hash[assign[cl]] /\ sym[id] # Nil
        => sym[id] \in Assumed(pod[cl[1]], cl[2])

(***************************************************************************)
(* A running handler whose hash is in use works for the container that     *)
(* uses it, and what it read is that container's annotation.               *)
(***************************************************************************)
WorksFor(h, cl) ==
    /\ assign[want[h]] = list[h]
    /\ Cont(want[h]) = Cont(cl)
    /\ at[h] # Nil => at[h] = Cont(cl)

FlightOK(h) ==
    /\ pc[h] \in {"idle", "locate"} => at[h] = Nil
    /\ pc[h] \in {"idle", "locate", "getpod"} => val[h] = <<>>
    /\ val[h] # <<>> /\ at[h] # Nil
           => pod[at[h][1]] # Nil /\ val[h] = pod[at[h][1]][at[h][2]]
    /\ pc[h] # "idle" =>
           \A cl \in Claims :
               assign[cl] # {} /\ Hash[assign[cl]] = Hash[list[h]]
               => WorksFor(h, cl)

FlightInv == \A h \in Handlers : FlightOK(h)

(***************************************************************************)
(* Only claims of live pods that hold devices are being answered, are      *)
(* ready, or belong to a container that exists.                            *)
(***************************************************************************)
Holds(cl) == assign[cl] # {} /\ cl[1] \notin done

KubeletInv ==
    /\ \A h \in awaited : Holds(want[h])
    /\ \A cl \in ready : Holds(cl)
    /\ \A cl \in Claims : ctr[Cont(cl)] # "waiting" => Holds(cl)

(***************************************************************************)
(* The links a hook has yet to follow are links of its container, and what *)
(* it has found in the links it followed was assumed for it.               *)
(***************************************************************************)
NamesInv ==
    \A ct \in PodContainers :
        names[ct] # {} =>
            /\ ctr[ct] = "hooking"
            /\ \A id \in names[ct] : \E cl \in ClaimsOf(ct) : id[1] = Hash[assign[cl]]

SeenInv ==
    \A ct \in PodContainers :
        seen[ct] # {} => /\ pod[ct[1]] # Nil
                         /\ seen[ct] \subseteq Assumed(pod[ct[1]], ct[2])

IsolationInv ==
    /\ CacheInv /\ AssignInv /\ LinkInv /\ FlightInv
    /\ KubeletInv /\ NamesInv /\ SeenInv

-----------------------------------------------------------------------------
LEMMA InitIsolation == Init => IsolationInv
<1> SUFFICES ASSUME Init PROVE IsolationInv
    OBVIOUS
<1>1. CacheInv /\ AssignInv /\ LinkInv
    BY DEF Init, SitterInit, KubeletInit, CacheInv, AssignInv, LinkInv
<1>2. FlightInv
    BY DEF Init, PreStartInit, FlightInv, FlightOK
<1>3. KubeletInv /\ NamesInv /\ SeenInv
    BY ClaimParts DEF Init, PreStartInit, KubeletInit, KubeletInv, NamesInv,
                      SeenInv, Cont
<1> QED
    BY <1>1, <1>2, <1>3 DEF IsolationInv

LEMMA InvariantImpliesIsolation == IsolationInv => NoForeignGPU
BY DEF IsolationInv, SeenInv, NoForeignGPU

-----------------------------------------------------------------------------
(***************************************************************************)
(* Steps outside the agent.                                                *)
(***************************************************************************)
LEMMA ScheduleIsolation ==
    ASSUME TypeInv, IsolationInv, "recreate" \notin Faults,
           NEW p \in Pods, NEW a \in Annotations, Schedule(p, a)
    PROVE  IsolationInv'
<1> USE DEF IsolationInv, Schedule, PodCreated, agentVars, preStartVars
<1>1. pod[p] = Nil /\ a # Nil
    BY AnnotationsAssumption
<1>2. pod' = [pod EXCEPT ![p] = a] /\ \A q \in Pods : pod[q] # Nil => pod'[q] = pod[q]
    BY <1>1 DEF TypeInv, TypeOK, SitterTypeOK
<1>3. assign' = assign
    BY <1>1 DEF AssignInv, TypeInv, TypeOK, KubeletTypeOK
<1>4. CacheInv'
    BY <1>1, <1>2 DEF CacheInv, TypeInv, TypeOK, SitterTypeOK
<1>5. AssignInv'
    BY <1>2, <1>3, ClaimParts DEF AssignInv
<1>6. LinkInv'
    BY <1>2, <1>3, ClaimParts DEF LinkInv, AssignInv, operatorVars
<1>7. FlightInv'
  <2> SUFFICES ASSUME NEW h \in Handlers PROVE FlightOK(h)'
    BY DEF FlightInv
  <2>1. at[h] # Nil => at[h][1] \in Pods
    BY DEF TypeInv, TypeOK, PreStartTypeOK
  <2>2. FlightOK(h) /\ UNCHANGED <<pc, want, list, at, val, assign>>
    BY <1>3 DEF FlightInv
  <2>3. at[h] # Nil /\ pod[at[h][1]] # Nil => pod'[at[h][1]] = pod[at[h][1]]
    BY <1>2, <2>1
  <2> HIDE DEF IsolationInv, Schedule, PodCreated, agentVars, preStartVars
  <2>4. \A cl \in Claims : WorksFor(h, cl)' <=> WorksFor(h, cl)
    BY <2>2 DEF WorksFor
  <2> QED
    BY <2>2, <2>3, <2>4 DEF FlightOK
<1>8. KubeletInv'
    BY <1>3 DEF KubeletInv, Holds
<1>9. SeenInv'
    BY <1>2, ClaimParts DEF SeenInv, PodContainers
<1>10. NamesInv'
  <2>1. NamesInv /\ UNCHANGED <<assign, ctr, names>>
    BY <1>3
  <2> QED
    BY ONLY <2>1 DEF NamesInv
<1> QED
    BY <1>4, <1>5, <1>6, <1>7, <1>8, <1>9, <1>10

(***************************************************************************)
(* The parts that speak of links and handlers do not change with a step    *)
(* that touches neither them nor pods and assignments.                     *)
(***************************************************************************)
LEMMA LinksFrame ==
    ASSUME IsolationInv, UNCHANGED <<pod, assign, sym, preStartVars>>
    PROVE  AssignInv' /\ LinkInv' /\ FlightInv'
BY DEF IsolationInv, AssignInv, LinkInv, FlightInv, FlightOK, WorksFor,
       preStartVars

LEMMA PodIsolation ==
    ASSUME TypeInv, IsolationInv, NEW p \in Pods,
           StopPod(p) \/ RemovePod(p) \/ InformerDeliver(p)
    PROVE  IsolationInv'
<1> USE DEF IsolationInv
<1>1. UNCHANGED <<pod, assign, sym, preStartVars>>
    BY DEF StopPod, Terminate, RemovePod, ApiDelete, InformerDeliver, Deliver,
           sitterVars, kubeletVars, agentVars, operatorVars
<1>2. AssignInv' /\ LinkInv' /\ FlightInv'
    BY <1>1, LinksFrame
<1>3. CASE StopPod(p)
  <2> USE DEF StopPod, Terminate
  <2>1. CacheInv'
    BY <1>3 DEF CacheInv, sitterVars
  <2>2. KubeletInv'
    BY <1>1, <1>3, ClaimParts
       DEF KubeletInv, Holds, Cont, preStartVars, TypeInv, TypeOK, KubeletTypeOK
  <2>3. SeenInv'
    BY <1>1, <1>3 DEF SeenInv
  <2>4. NamesInv'
    BY <1>1, <1>3 DEF NamesInv
  <2> QED
    BY <1>2, <2>1, <2>2, <2>3, <2>4
<1>4. CASE RemovePod(p)
  <2> USE DEF RemovePod, ApiDelete
  <2>1. CacheInv'
    BY <1>4 DEF CacheInv
  <2>2. KubeletInv' /\ NamesInv' /\ SeenInv'
    BY <1>1, <1>4
       DEF KubeletInv, NamesInv, SeenInv, Holds, Cont, preStartVars, kubeletVars
  <2> QED
    BY <1>2, <2>1, <2>2
<1>5. CASE InformerDeliver(p)
  <2> USE DEF InformerDeliver, Deliver
  <2>1. CacheInv'
    BY <1>5 DEF CacheInv, ApiObject, TypeInv, TypeOK, SitterTypeOK
  <2>2. KubeletInv' /\ NamesInv' /\ SeenInv'
    BY <1>1, <1>5
       DEF KubeletInv, NamesInv, SeenInv, Holds, Cont, preStartVars, kubeletVars
  <2> QED
    BY <1>2, <2>1, <2>2
<1> QED
    BY <1>3, <1>4, <1>5

(***************************************************************************)
(* Allocate is the step that needs the hash to be out of use.              *)
(***************************************************************************)
LEMMA AdmitIsolation ==
    ASSUME TypeInv, IsolationInv, Reused \cap Faults = {},
           NEW cl \in Claims, NEW l \in Lists, Admit(cl, l)
    PROVE  IsolationInv'
<1> USE DEF IsolationInv, Admit, Allocate
<1>1. /\ NoLinks(l) /\ NoHandler(l) /\ NoSharer(cl, l)
      /\ l # {}
      /\ assign[cl] = {}
      /\ cl[1] \notin done
      /\ UNCHANGED <<pod, api, cache, sym, preStartVars, ready, ctr, names, seen, done>>
    BY ListsAssumption DEF Reused, sitterVars, agentVars, operatorVars
<1>2. /\ assign'[cl] = l
      /\ \A c \in Claims : c # cl =>
             assign'[c] = IF c[1] \in done THEN {} ELSE assign[c]
    BY DEF TypeInv, TypeOK, KubeletTypeOK
<1>3. \A c \in Claims : c # cl /\ assign'[c] # {} =>
          assign'[c] = assign[c] /\ c[1] \notin done
    BY <1>2
<1>4. CacheInv'
    BY <1>1 DEF CacheInv
<1>5. AssignInv'
  <2>1. \A c \in Claims : assign'[c] # {} => pod'[c[1]] # Nil
    BY <1>1, <1>2, <1>3, ClaimParts DEF AssignInv, CacheInv
  <2>2. ASSUME NEW c1 \in Claims, NEW c2 \in Claims, c1 # c2, c1[3] = c2[3]
        PROVE  assign'[c1] \cap assign'[c2] = {}
    <3>1. \A c \in Claims : c[3] = cl[3] /\ c # cl => assign'[c] \cap l = {}
      BY <1>2
    <3> QED
      BY <1>2, <2>2, <3>1 DEF AssignInv
  <2>3. ASSUME NEW c1 \in Claims, NEW c2 \in Claims,
               assign'[c1] # {}, assign'[c2] # {},
               Hash[assign'[c1]] = Hash[assign'[c2]]
        PROVE  Cont(c1) = Cont(c2)
    BY <1>1, <1>2, <1>3, <2>3 DEF AssignInv, NoSharer, Cont
  <2> QED
    BY <2>1, <2>2, <2>3 DEF AssignInv
<1>6. LinkInv'
  <2>1. \A id \in LinkIDs : id[1] = Hash[l] => sym[id] = Nil
    BY <1>1 DEF NoLinks, LinksOf
  <2> QED
    BY <1>1, <1>2, <1>3, <2>1 DEF LinkInv
<1>7. FlightInv'
  <2> SUFFICES ASSUME NEW h \in Handlers, pc[h] # "idle",
                      NEW c \in Claims, assign'[c] # {},
                      Hash[assign'[c]] = Hash[list[h]]
               PROVE  WorksFor(h, c)'
    BY <1>1 DEF FlightInv, FlightOK, preStartVars
  <2>1. c # cl
    BY <1>1, <1>2 DEF NoHandler
  <2>2. assign'[c] = assign[c] /\ c[1] \notin done
    BY <1>3, <2>1
  <2>3. WorksFor(h, c)
    BY <2>2 DEF FlightInv, FlightOK
  <2>4. want[h] \in Claims /\ list[h] # {}
    BY ListsAssumption DEF TypeInv, HandlerInv, HandlerOK
  <2>5. want[h] # cl /\ want[h][1] \notin done
    BY <1>1, <2>2, <2>3, <2>4 DEF WorksFor, Cont
  <2> QED
    BY <1>1, <1>2, <2>3, <2>4, <2>5 DEF WorksFor, preStartVars
<1>8. KubeletInv'
  <2>1. \A c \in Claims : Holds(c) => Holds(c)'
    BY <1>1, <1>2 DEF Holds
  <2>2. \A h \in awaited : want[h] \in Claims
    BY DEF TypeInv, TypeOK, PreStartTypeOK, HandlerInv, HandlerOK
  <2>3. ready \subseteq Claims
    BY DEF TypeInv, TypeOK, KubeletTypeOK
  <2> QED
    BY <1>1, <2>1, <2>2, <2>3 DEF KubeletInv, Holds, preStartVars
<1>9. SeenInv'
    BY <1>1 DEF SeenInv
<1>10. NamesInv'
  <2>1. \A c \in Claims : Holds(c) => assign'[c] = assign[c]
    BY <1>1, <1>2 DEF Holds
  <2>2. \A ct \in PodContainers : \A c \in ClaimsOf(ct) :
            c \in Claims /\ Cont(c) = ct
    BY DEF ClaimsOf, Cont
  <2>3. ASSUME NEW ct \in PodContainers, names[ct] # {}, NEW c \in ClaimsOf(ct)
        PROVE  assign'[c] = assign[c]
    BY <2>1, <2>2, <2>3 DEF NamesInv, KubeletInv
  <2>4. NamesInv /\ UNCHANGED <<ctr, names>>
    BY <1>1
  <2> QED
    BY ONLY <2>3, <2>4 DEF NamesInv
<1> QED
    BY <1>4, <1>5, <1>6, <1>7, <1>8, <1>9, <1>10

LEMMA ContainerIsolation ==
    ASSUME TypeInv, IsolationInv, NEW ct \in PodContainers,
           StartContainer(ct) \/ StopContainer(ct)
    PROVE  IsolationInv'
<1> USE DEF IsolationInv, StartContainer, StopContainer
<1>1. /\ UNCHANGED <<pod, api, cache, assign, sym, preStartVars, done>>
      /\ ready' \subseteq ready
    BY DEF CreateContainer, HookReadDir, HookReadLink, HookToolkit, HookFails,
           HookExits, ContainerExit, sitterVars, agentVars, operatorVars
<1>2. CacheInv' /\ AssignInv' /\ LinkInv' /\ FlightInv'
    BY <1>1, LinksFrame DEF CacheInv
<1>3. \A cl \in Claims : Holds(cl)' <=> Holds(cl)
    BY <1>1 DEF Holds
<1>4. \A cl \in Claims : ctr'[Cont(cl)] # "waiting" => Holds(cl)
  <2> SUFFICES ASSUME NEW cl \in Claims, ctr'[Cont(cl)] # "waiting",
                      ctr[Cont(cl)] = "waiting"
               PROVE  Holds(cl)
    BY DEF KubeletInv
  <2>1. CreateContainer(ct) /\ Cont(cl) = ct
    BY ClaimParts DEF Cont, CreateContainer, HookReadDir, HookReadLink,
       HookToolkit, HookFails, HookExits, ContainerExit, TypeInv, TypeOK,
       KubeletTypeOK
  <2>2. cl \in ready
    BY <2>1 DEF CreateContainer, ClaimsOf, Cont
  <2> QED
    BY <2>2 DEF KubeletInv
<1>5. KubeletInv'
    BY <1>1, <1>3, <1>4 DEF KubeletInv, Holds, preStartVars
<1>6. /\ ctr \in [PodContainers -> {"waiting", "created", "hooking", "running"}]
      /\ names \in [PodContainers -> SUBSET LinkIDs]
      /\ seen \in [PodContainers -> SUBSET GPUs]
    BY DEF TypeInv, TypeOK, KubeletTypeOK
<1>7. NamesInv'
  <2>1. CASE HookReadDir(ct)
    BY <1>1, <1>6, <2>1 DEF HookReadDir, EnvGPU, FindGPUIndexes, LinksOf, NamesInv
  <2>2. CASE HookReadLink(ct)
    BY <1>1, <1>6, <2>2 DEF HookReadLink, HookExits, NamesInv
  <2>3. CASE HookToolkit(ct)
    BY <1>1, <1>6, <2>3 DEF HookToolkit, NamesInv
  <2>4. CASE HookFails(ct)
    BY <1>1, <1>6, <2>4 DEF HookFails, HookExits, NamesInv
  <2>5. CASE CreateContainer(ct) \/ ContainerExit(ct)
    BY <1>1, <1>6, <2>5 DEF CreateContainer, ContainerExit, NamesInv
  <2> QED
    BY <2>1, <2>2, <2>3, <2>4, <2>5
<1>8. SeenInv'
  <2>1. CASE HookReadLink(ct)
    <3>1. ASSUME NEW id \in names[ct], sym[id] # Nil
          PROVE  /\ sym[id] \in Assumed(pod[ct[1]], ct[2])
                 /\ pod[ct[1]] # Nil
      <4>1. PICK cl \in ClaimsOf(ct) : id[1] = Hash[assign[cl]]
        BY <3>1 DEF NamesInv
      <4>2. cl \in Claims /\ Cont(cl) = ct
        BY DEF ClaimsOf, Cont
      <4>3. cl[1] = ct[1] /\ cl[2] = ct[2]
        BY <4>2 DEF Cont
      <4>4. assign[cl] # {}
        BY <3>1, <4>2 DEF NamesInv, KubeletInv, Holds
      <4>5. id \in LinkIDs
        BY <1>6
      <4> QED
        BY <3>1, <4>1, <4>2, <4>3, <4>4, <4>5 DEF LinkInv, AssignInv
    <3>2. ASSUME NEW id \in names[ct], sym[id] # Nil,
                 seen' = [seen EXCEPT ![ct] = @ \cup {sym[id]}]
          PROVE  SeenInv'
      BY <1>1, <1>6, <3>1, <3>2 DEF SeenInv
    <3>3. CASE seen' = [seen EXCEPT ![ct] = {}]
      BY <1>1, <1>6, <3>3 DEF SeenInv
    <3> QED
      BY <2>1, <3>2, <3>3 DEF HookReadLink, HookExits
  <2>2. CASE ~HookReadLink(ct)
    <3>1. \A c \in PodContainers : seen'[c] \in {seen[c], {}}
      BY <1>6, <2>2 DEF CreateContainer, HookReadDir, HookToolkit, HookFails,
                        HookExits, ContainerExit
    <3> QED
      BY <1>1, <3>1 DEF SeenInv
  <2> QED
    BY <2>1, <2>2
<1> QED
    BY <1>2, <1>5, <1>7, <1>8

-----------------------------------------------------------------------------
(***************************************************************************)
(* Steps of PreStartContainer. No handler changes pods or assignments.     *)
(***************************************************************************)
LEMMA OthersFlight ==
    ASSUME NEW h \in Handlers, FlightOK(h), UNCHANGED <<pod, assign>>,
           pc'[h] = pc[h], want'[h] = want[h], list'[h] = list[h],
           at'[h] = at[h], val'[h] = val[h]
    PROVE  FlightOK(h)'
BY DEF FlightOK, WorksFor

(***************************************************************************)
(* Inside the loops a handler keeps its request, pod and annotation.       *)
(***************************************************************************)
LEMMA SameWork ==
    ASSUME NEW h \in Handlers, FlightOK(h), UNCHANGED <<pod, assign>>,
           want'[h] = want[h], list'[h] = list[h], at'[h] = at[h],
           val'[h] = val[h],
           pc[h] \notin {"idle", "locate", "getpod"},
           pc'[h] \notin {"idle", "locate", "getpod"}
    PROVE  FlightOK(h)'
BY DEF FlightOK, WorksFor

LEMMA HandlerSideFrame ==
    ASSUME IsolationInv,
           UNCHANGED <<pod, api, cache, assign, ctr, names, seen, done>>
    PROVE  CacheInv' /\ AssignInv' /\ NamesInv' /\ SeenInv'
BY DEF IsolationInv, CacheInv, AssignInv, NamesInv, SeenInv

LEMMA CallIsolation ==
    ASSUME TypeInv, IsolationInv, NEW h \in Handlers, NEW cl \in Claims,
           Call(h, cl)
    PROVE  IsolationInv'
<1> USE DEF IsolationInv, Call, PreStartContainer, Goto
<1>1. UNCHANGED <<pod, api, cache, assign, ready, ctr, names, seen, done, sym>>
    BY DEF sitterVars, kubeletVars, operatorVars
<1>2. /\ pc' = [pc EXCEPT ![h] = "locate"]
      /\ want' = [want EXCEPT ![h] = cl]
      /\ list' = [list EXCEPT ![h] = assign[cl]]
      /\ UNCHANGED <<at, val>>
      /\ PreStartTypeOK
    BY DEF TypeInv, TypeOK
<1>3. LinkInv'
    BY <1>1 DEF LinkInv
<1>4. FlightOK(h)'
  <2>1. at'[h] = Nil /\ val'[h] = <<>>
    BY <1>2 DEF FlightInv, FlightOK
  <2>2. pc'[h] = "locate" /\ want'[h] = cl /\ list'[h] = assign[cl]
    BY <1>2 DEF PreStartTypeOK
  <2>3. assign[cl] # {}
    OBVIOUS
  <2>4. ASSUME NEW c \in Claims, assign[c] # {}, Hash[assign[c]] = Hash[assign[cl]]
        PROVE  WorksFor(h, c)'
    <3>1. Cont(cl) = Cont(c)
      BY <2>3, <2>4 DEF AssignInv
    <3> QED
      BY <1>1, <2>1, <2>2, <3>1 DEF WorksFor
  <2> QED
    BY <1>1, <2>1, <2>2, <2>4 DEF FlightOK
<1>5. \A g \in Handlers : g # h => FlightOK(g)'
    BY <1>1, <1>2, OthersFlight DEF PreStartTypeOK, FlightInv
<1>6. KubeletInv'
  <2>1. Holds(cl)
    BY DEF Holds
  <2>2. \A g \in awaited' : g = h \/ g \in awaited
    OBVIOUS
  <2>3. \A g \in awaited : g \in Handlers
    BY <1>2 DEF PreStartTypeOK
  <2>4. \A g \in awaited' : Holds(want'[g])
    BY <1>2, <2>1, <2>2, <2>3 DEF PreStartTypeOK, KubeletInv
  <2> QED
    BY <1>1, <2>4 DEF KubeletInv, Holds
<1> QED
    BY <1>1, <1>3, <1>4, <1>5, <1>6, HandlerSideFrame DEF FlightInv

LEMMA GiveUpIsolation ==
    ASSUME TypeInv, IsolationInv, NEW h \in Handlers, GiveUp(h)
    PROVE  IsolationInv'
<1> USE DEF IsolationInv, GiveUp, KubeletTimeout
<1>1. UNCHANGED <<pod, api, cache, assign, ready, ctr, names, seen, done, sym>>
    BY DEF sitterVars, kubeletVars, operatorVars
<1>2. LinkInv' /\ FlightInv'
    BY <1>1 DEF LinkInv, FlightInv, FlightOK, WorksFor
<1>3. KubeletInv'
    BY <1>1 DEF KubeletInv, Holds
<1> QED
    BY <1>1, <1>2, <1>3, HandlerSideFrame

(***************************************************************************)
(* Locate returns the right container: while the list is still assigned,   *)
(* no other claim of the resource has any of its devices, whole or as one  *)
(* entry among others.                                                     *)
(***************************************************************************)
LEMMA LocateIsolation ==
    ASSUME TypeInv, IsolationInv, NEW h \in Handlers, Locate(h)
    PROVE  IsolationInv'
<1> USE DEF IsolationInv, Locate, Goto
<1>1. UNCHANGED <<pod, api, cache, assign, ready, ctr, names, seen, done, sym>>
    BY DEF sitterVars, kubeletVars, operatorVars
<1>2. LinkInv' /\ KubeletInv'
    BY <1>1 DEF LinkInv, KubeletInv, Holds
<1>3. \A g \in Handlers : g # h => FlightOK(g)'
    BY <1>1, OthersFlight DEF FlightInv, TypeInv, TypeOK, PreStartTypeOK
<1>4. FlightOK(h)'
  <2>1. CASE UNCHANGED at /\ pc' = [pc EXCEPT ![h] = "fail"]
    BY <1>1, <2>1 DEF FlightInv, FlightOK, WorksFor, TypeInv, TypeOK,
                      PreStartTypeOK
  <2>2. ASSUME NEW x \in Holders(h), pc' = [pc EXCEPT ![h] = "getpod"],
               at' = [at EXCEPT ![h] = <<x[1], x[2]>>]
        PROVE  FlightOK(h)'
    <3>1. /\ x \in Claims
          /\ x[3] = want[h][3]
          /\ list[h] \subseteq assign[x]
      BY DEF Holders, Found, Entries
    <3>2. want[h] \in Claims /\ list[h] # {}
      BY ListsAssumption DEF TypeInv, HandlerInv, HandlerOK
    <3>3. ASSUME NEW cl \in Claims, assign[cl] # {},
                 Hash[assign[cl]] = Hash[list[h]]
          PROVE  WorksFor(h, cl)'
      <4>1. WorksFor(h, cl)
        BY <3>3 DEF FlightInv, FlightOK
      <4>2. x = want[h]
        BY <3>1, <3>2, <4>1 DEF WorksFor, AssignInv
      <4> QED
        BY <1>1, <2>2, <4>1, <4>2
           DEF WorksFor, Cont, TypeInv, TypeOK, PreStartTypeOK
    <3>4. val'[h] = <<>>
      BY DEF FlightInv, FlightOK
    <3> QED
      BY <1>1, <2>2, <3>3, <3>4 DEF FlightOK, TypeInv, TypeOK, PreStartTypeOK
  <2> QED
    BY <2>1, <2>2
<1> QED
    BY <1>1, <1>2, <1>3, <1>4, HandlerSideFrame DEF FlightInv

LEMMA ReadIsolation ==
    ASSUME TypeInv, IsolationInv, NEW h \in Handlers, ReadAnnotation(h)
    PROVE  IsolationInv'
<1> USE DEF IsolationInv, ReadAnnotation, Goto
<1>1. UNCHANGED <<pod, api, cache, assign, ready, ctr, names, seen, done, sym>>
    BY DEF sitterVars, kubeletVars, operatorVars
<1>2. LinkInv' /\ KubeletInv'
    BY <1>1 DEF LinkInv, KubeletInv, Holds
<1>3. \A g \in Handlers : g # h => FlightOK(g)'
    BY <1>1, OthersFlight DEF FlightInv, TypeInv, TypeOK, PreStartTypeOK
<1>4. at[h][1] \in Pods
    BY DEF TypeInv, HandlerInv, HandlerOK
<1>5. \/ val'[h] = val[h]
      \/ /\ pod[at[h][1]] # Nil
         /\ val'[h] = pod[at[h][1]][at[h][2]]
    BY <1>4 DEF CacheInv, GetPod, ContainerAnnotation, TypeInv, TypeOK,
                PreStartTypeOK
<1>6. pc'[h] \in {"lock", "fail"} /\ pc[h] = "getpod"
    BY DEF TypeInv, TypeOK, PreStartTypeOK
<1>7. FlightOK(h)'
    BY <1>1, <1>5, <1>6 DEF FlightInv, FlightOK, WorksFor
<1> QED
    BY <1>1, <1>2, <1>3, <1>7, HandlerSideFrame DEF FlightInv

(***************************************************************************)
(* The step that makes a link: its target is an element of the annotation  *)
(* of the container the hash is assigned to.                               *)
(***************************************************************************)
LEMMA CreateIsolation ==
    ASSUME TypeInv, IsolationInv, NEW h \in Handlers, CreateSym(h)
    PROVE  IsolationInv'
<1> USE DEF IsolationInv, CreateSym, Goto
<1>1. UNCHANGED <<pod, api, cache, assign, ready, ctr, names, seen, done>>
    BY DEF sitterVars, kubeletVars
<1>2. KubeletInv'
    BY <1>1 DEF KubeletInv, Holds
<1>3. pc[h] = "sym" /\ pc'[h] \in {"ctl", "fail"}
    BY DEF TypeInv, TypeOK, PreStartTypeOK
<1>4. FlightInv'
    BY <1>1, <1>3, SameWork, OthersFlight
       DEF FlightInv, TypeInv, TypeOK, PreStartTypeOK
<1>5. LinkInv'
  <2>1. CASE sym' = sym
    BY <1>1, <2>1 DEF LinkInv
  <2>2. CASE Symlink(val[h][idx[h]], LinkOf(h))
    <3> SUFFICES ASSUME NEW cl \in Claims, NEW id \in LinkIDs,
                        assign[cl] # {}, id[1] = Hash[assign[cl]],
                        sym'[id] # Nil
                 PROVE  sym'[id] \in Assumed(pod[cl[1]], cl[2])
      BY <1>1 DEF LinkInv
    <3>1. CASE id # LinkOf(h)
      BY <2>2, <3>1 DEF Symlink, LinkInv, TypeInv, TypeOK, OperatorTypeOK
    <3>2. CASE id = LinkOf(h)
      <4>1. sym'[id] = val[h][idx[h]]
        BY <2>2, <3>2 DEF Symlink, TypeInv, TypeOK, OperatorTypeOK
      <4>2. /\ at[h] \in Pods \X Containers
            /\ val[h] \in Seq(GPUs \cup {Bad})
            /\ idx[h] \in 1 .. Len(val[h])
        BY <1>3 DEF TypeInv, TypeOK, PreStartTypeOK, HandlerInv, HandlerOK,
                    Looping
      <4>3. at[h] # Nil
        BY <4>2, NamesAssumption
      <4>4. WorksFor(h, cl)
        BY <1>3, <3>2 DEF LinkOf, FlightInv, FlightOK
      <4>5. at[h] = Cont(cl)
        BY <4>3, <4>4 DEF WorksFor
      <4>6. val[h] # <<>>
        BY <4>2
      <4>7. /\ pod[cl[1]] # Nil
            /\ val[h] = pod[cl[1]][cl[2]]
        <5>1. at[h][1] = cl[1] /\ at[h][2] = cl[2]
          BY <4>5 DEF Cont
        <5> QED
          BY <4>3, <4>6, <5>1 DEF FlightInv, FlightOK
      <4>8. idx[h] \in DOMAIN val[h]
        BY <4>2
      <4> QED
        BY <4>1, <4>7, <4>8 DEF Assumed
    <3> QED
      BY <3>1, <3>2
  <2> QED
    BY <2>1, <2>2 DEF operatorVars
<1> QED
    BY <1>1, <1>2, <1>4, <1>5, HandlerSideFrame

(***************************************************************************)
(* The other steps of a handler make no link; some take one away.          *)
(***************************************************************************)
OnlyRemoves == \A id \in LinkIDs : sym'[id] \in {sym[id], Nil}

LEMMA ShrinkingLinks ==
    ASSUME IsolationInv, UNCHANGED <<pod, assign>>, OnlyRemoves
    PROVE  LinkInv'
BY DEF IsolationInv, LinkInv, OnlyRemoves

LEMMA AdvanceGoes ==
    ASSUME TypeInv, NEW h \in Handlers, NEW again \in Looping,
           NEW after \in {"load", "ok"}, Advance(h, again, after)
    PROVE  /\ pc'[h] \notin {"idle", "locate", "getpod"}
           /\ \A g \in Handlers : g # h => pc'[g] = pc[g]
BY DEF Advance, Goto, Looping, TypeInv, TypeOK, PreStartTypeOK

LEMMA LoopIsolation ==
    ASSUME TypeInv, IsolationInv, NEW h \in Handlers,
           \/ Lock(h) \/ CreateStat(h) \/ CreateCtl(h) \/ LoadRecord(h)
           \/ SaveRecord(h) \/ UndoSym(h) \/ UndoCtl(h)
    PROVE  IsolationInv'
<1> USE DEF IsolationInv, Looping
<1>1. UNCHANGED <<pod, api, cache, assign, ready, ctr, names, seen, done,
                  want, list, at, val, awaited>>
    BY DEF Lock, CreateStat, CreateCtl, LoadRecord, SaveRecord, UndoSym,
           UndoCtl, sitterVars, kubeletVars
<1>2. OnlyRemoves
    BY DEF Lock, CreateStat, CreateCtl, LoadRecord, SaveRecord, UndoSym,
           UndoCtl, operatorVars, SymlinkCtl, RemoveSym, RemoveCtl,
           OnlyRemoves, TypeInv, TypeOK, OperatorTypeOK
<1>3. pc[h] \notin {"idle", "locate", "getpod"}
    BY DEF Lock, CreateStat, CreateCtl, LoadRecord, SaveRecord, UndoSym, UndoCtl
<1>4. /\ pc'[h] \notin {"idle", "locate", "getpod"}
      /\ \A g \in Handlers : g # h => pc'[g] = pc[g]
    BY AdvanceGoes DEF Lock, CreateStat, CreateCtl, LoadRecord, SaveRecord,
       UndoSym, UndoCtl, Goto, TypeInv, TypeOK, PreStartTypeOK
<1>5. FlightInv'
    BY <1>1, <1>3, <1>4, SameWork, OthersFlight DEF FlightInv
<1>6. KubeletInv'
    BY <1>1 DEF KubeletInv, Holds
<1> QED
    BY <1>1, <1>2, <1>5, <1>6, ShrinkingLinks, HandlerSideFrame

(***************************************************************************)
(* The answer makes a claim ready that still holds its devices, because    *)
(* the kubelet does not tear down a pod whose answer it waits for.         *)
(***************************************************************************)
LEMMA ReturnIsolation ==
    ASSUME TypeInv, IsolationInv, NEW h \in Handlers, Return(h)
    PROVE  IsolationInv'
<1> USE DEF IsolationInv, Return, Goto
<1>1. UNCHANGED <<pod, api, cache, assign, ctr, names, seen, done, sym>>
    BY DEF sitterVars, operatorVars
<1>2. PreStartTypeOK
    BY DEF TypeInv, TypeOK
<1>3. FlightOK(h)'
    BY <1>2 DEF PreStartTypeOK, FlightOK
<1>4. \A g \in Handlers : g # h => FlightOK(g)'
    BY <1>1, <1>2, OthersFlight DEF PreStartTypeOK, FlightInv
<1>5. KubeletInv'
  <2>1. \A g \in awaited' : want'[g] = want[g] /\ g \in awaited
    BY <1>2 DEF PreStartTypeOK
  <2>2. \A cl \in ready' : cl \in ready \/ (h \in awaited /\ cl = want[h])
    OBVIOUS
  <2> QED
    BY <1>1, <2>1, <2>2 DEF KubeletInv, Holds
<1>6. LinkInv'
    BY <1>1 DEF LinkInv
<1> QED
    BY <1>1, <1>3, <1>4, <1>5, <1>6, HandlerSideFrame DEF FlightInv

-----------------------------------------------------------------------------
(***************************************************************************)
(* The collector, crashes and restarts.                                    *)
(***************************************************************************)
LEMMA CollectIsolation ==
    ASSUME TypeInv, IsolationInv, GCStep
    PROVE  IsolationInv'
<1> USE DEF IsolationInv
<1>1. UNCHANGED outsideGC
    BY DEF GCStep, GCStart, GCScan, GCAsk, GCNext, GCRemoveSym, GCRemoveCtl,
           GCDeleteRecord
<1>2. UNCHANGED <<pod, api, cache, assign, ready, ctr, names, seen, done, preStartVars>>
    BY <1>1 DEF outsideGC, sitterVars, kubeletVars
<1>3. OnlyRemoves
    BY DEF GCStep, GCStart, GCScan, GCAsk, GCNext, GCRemoveSym, GCRemoveCtl,
           GCDeleteRecord, RemoveSym, RemoveCtl, operatorVars, OnlyRemoves,
           TypeInv, TypeOK, OperatorTypeOK
<1>4. FlightInv' /\ KubeletInv'
    BY <1>2 DEF FlightInv, FlightOK, WorksFor, KubeletInv, Holds, preStartVars
<1> QED
    BY <1>2, <1>3, <1>4, ShrinkingLinks, HandlerSideFrame

LEMMA CrashIsolation ==
    ASSUME TypeInv, IsolationInv, Crash \/ Start
    PROVE  IsolationInv'
<1> USE DEF IsolationInv, Crash, Start
<1>1. UNCHANGED <<pod, api, assign, ready, ctr, names, seen, done, sym>>
    BY DEF Sync, kubeletVars, operatorVars
<1>2. CacheInv'
    BY <1>1 DEF Sync, ApiObject, CacheInv
<1>3. AssignInv' /\ LinkInv' /\ NamesInv' /\ SeenInv'
    BY <1>1 DEF AssignInv, LinkInv, NamesInv, SeenInv
<1>4. FlightInv'
  <2>1. CASE Crash
    BY <2>1 DEF PreStartReset, FlightInv, FlightOK
  <2>2. CASE Start
    BY <1>1, <2>2, LinksFrame DEF Sync
  <2> QED
    BY <2>1, <2>2
<1>5. KubeletInv'
    BY <1>1 DEF PreStartReset, KubeletInv, Holds, preStartVars
<1> QED
    BY <1>2, <1>3, <1>4, <1>5

LEMMA StutterIsolation ==
    ASSUME IsolationInv, UNCHANGED vars
    PROVE  IsolationInv'
<1>1. UNCHANGED <<pod, api, cache, assign, ready, ctr, names, seen, done, sym,
                  preStartVars>>
    BY DEF vars, sitterVars, kubeletVars, operatorVars
<1>2. KubeletInv'
    BY <1>1 DEF IsolationInv, KubeletInv, Holds, preStartVars
<1> QED
    BY <1>1, <1>2, LinksFrame, HandlerSideFrame DEF IsolationInv

LEMMA NextIsolation ==
    ASSUME Reused \cap Faults = {}, "recreate" \notin Faults,
           TypeInv, IsolationInv, [Next]_vars
    PROVE  IsolationInv'
<1>1. ASSUME NEW h \in Handlers, Serve(h)
      PROVE  IsolationInv'
    BY <1>1, LocateIsolation, ReadIsolation, CreateIsolation, LoopIsolation,
       ReturnIsolation DEF Serve, Handler
<1>2. CASE Collect
    BY <1>2, CollectIsolation DEF Collect
<1> QED
    BY <1>1, <1>2, ScheduleIsolation, PodIsolation, AdmitIsolation,
       ContainerIsolation, CallIsolation, GiveUpIsolation, CrashIsolation,
       StutterIsolation DEF Next

(***************************************************************************)
(* Isolation: as long as no device list is handed out again while links,   *)
(* handlers or owners of its hash remain, and no pod name is used again, a *)
(* running container sees no GPU but those the scheduler assumed for it.   *)
(* Any number of pods, containers, GPUs, device lists and concurrent       *)
(* handlers; crashes, late handlers, failing system calls, transactions    *)
(* and lookups included.                                                   *)
(***************************************************************************)
THEOREM Isolation ==
    ASSUME Reused \cap Faults = {}, "recreate" \notin Faults
    PROVE  Spec => []NoForeignGPU
<1>1. Init => TypeInv /\ IsolationInv
    BY InitTypes, InitIsolation
<1>2. TypeInv /\ IsolationInv /\ [Next]_vars => (TypeInv /\ IsolationInv)'
    BY NextTypes, NextIsolation
<1>3. TypeInv /\ IsolationInv => NoForeignGPU
    BY InvariantImpliesIsolation
<1> QED
    BY <1>1, <1>2, <1>3, PTL DEF Spec
=============================================================================
