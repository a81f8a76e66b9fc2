--------------------------- MODULE ManagerProofs ---------------------------
(***************************************************************************)
(* One process at a time works on links and records, for any number of     *)
(* processes, pods and cards, whichever of them start and end when.        *)
(***************************************************************************)
EXTENDS Manager, WellFoundedInduction, TLAPS

(***************************************************************************)
(* Type correctness: TypeOK with the domains of the functions, and what it *)
(* needs to be inductive: the number of the link in hand is 0 outside the  *)
(* part of a round that deletes, and inside it belongs to the first pod of *)
(* the list.                                                               *)
(***************************************************************************)
DeviceIDs == SUBSET (Cards \X Nat)

ProcessTyped ==
    /\ pc \in [Agents -> Phases]
    /\ lock \in Agents \cup {NoAgent}
    /\ devices \in [Agents -> [core : DeviceIDs, memory : DeviceIDs]]

NodeTyped ==
    /\ api \subseteq created
    /\ created \subseteq Pods
    /\ record \subseteq created
    /\ sym \subseteq LinkIDs
    /\ ctl \subseteq LinkIDs

InformerTyped ==
    /\ cache \in [Agents -> SUBSET Pods]
    /\ pending \in [Agents -> Seq(Pods)]
    /\ gcChan \in [Agents -> Seq(Pods)]
    /\ \A a \in Agents : cache[a] \subseteq created /\ Len(gcChan[a]) <= GCChanSize

RoundTyped ==
    /\ gc \in [Agents -> GCSteps \cup {"off"}]
    /\ scan \in [Agents -> SUBSET Pods]
    /\ todo \in [Agents -> SUBSET Pods]
    /\ idx \in [Agents -> Nat]
    /\ \A a \in Agents :
           /\ scan[a] \subseteq created /\ todo[a] \subseteq created
           /\ gc[a] # "off" => pc[a] = "run"
           /\ gc[a] \notin {"sym", "ctl", "record"} => idx[a] = 0
           /\ gc[a] = "ask" => scan[a] # {}
           /\ gc[a] \in {"ctl", "record"} \/ idx[a] > 0 =>
                  todo[a] # {} /\ idx[a] < Links[First(todo[a])]

CallTyped ==
    /\ call \in [Agents -> [Pods -> [st : CallSteps, i : Nat]]]
    /\ \A a \in Agents, p \in Pods :
           /\ call[a][p].i < Links[p]
           /\ call[a][p].st # "none" => p \in created

TypeInv == ProcessTyped /\ NodeTyped /\ InformerTyped /\ RoundTyped /\ CallTyped

(***************************************************************************)
(* First is the pod with the least number, since numbers are well-ordered. *)
(***************************************************************************)
LEMMA FirstIn ==
    ASSUME NEW ps \in SUBSET Pods, ps # {}
    PROVE  First(ps) \in ps
<1> DEFINE less == OpToRel(<, Nat)
<1>1. less = {pq \in Nat \X Nat : pq[1] < pq[2]}
    BY DEF OpToRel
<1>2. ps \subseteq Nat
    BY ManagerAssumption
<1>3. IsWellFoundedOn(less, Nat)
    BY NatLessThanWellFounded
<1> HIDE DEF less
<1>4. \E p \in ps : \A q \in ps : <<q, p>> \notin less
    BY <1>2, <1>3, WFMin
<1>5. ASSUME NEW p \in ps, NEW q \in ps, <<q, p>> \notin less PROVE p <= q
    BY <1>1, <1>2, <1>5
<1>6. \E p \in ps : \A q \in ps : p <= q
    BY <1>4, <1>5
<1> QED
    BY <1>6 DEF First

LEMMA DevicesTyped ==
    /\ CoreDevices \in DeviceIDs
    /\ \A failed \in CanFail : MemoryDevices(Discovered(failed)) \in DeviceIDs
<1>1. CoreDevices \in DeviceIDs
    BY ManagerAssumption DEF CoreDevices, DeviceIDs
<1>2. ASSUME NEW failed \in CanFail
      PROVE  MemoryDevices(Discovered(failed)) \in DeviceIDs
  <2>1. \A g \in Cards : (Discovered(failed)[g] \div Kilo) \div Kilo \in Int
      BY ManagerAssumption DEF Discovered
  <2> QED
      BY <2>1 DEF MemoryDevices, DeviceIDs
<1> QED
    BY <1>1, <1>2

LEMMA InitTyped == Init => TypeInv
<1> SUFFICES ASSUME Init PROVE TypeInv
    OBVIOUS
<1>1. ProcessTyped
    BY DEF Init, ProcessTyped, Phases, Nothing, DeviceIDs
<1>2. NodeTyped /\ InformerTyped /\ RoundTyped
    BY DEF Init, NodeTyped, InformerTyped, RoundTyped, GCSteps, GCChanSize
<1>3. CallTyped
    BY ManagerAssumption DEF Init, CallTyped, NoCalls, Idle, CallSteps
<1> QED
    BY <1>1, <1>2, <1>3 DEF TypeInv

LEMMA BootKeepsTypes ==
    ASSUME TypeInv, NEW a \in Agents, Launch(a) \/ Boot(a)
    PROVE  TypeInv'
<1>1. pc' \in [Agents -> Phases] /\ lock' \in Agents \cup {NoAgent}
    BY DEF TypeInv, ProcessTyped, Launch, Boot, NewClients, NewStorage, NewMemoryPlugin,
           NewCorePlugin, WaitForSync, RunPlugins, RunGC, Enter, Set, Phases
<1>2. devices' \in [Agents -> [core : DeviceIDs, memory : DeviceIDs]]
  <2>1. CASE NewMemoryPlugin(a)
    <3>1. PICK failed \in CanFail :
              devices' = [devices EXCEPT ![a].memory = MemoryDevices(Discovered(failed))]
        BY <2>1 DEF NewMemoryPlugin
    <3> QED
        BY <3>1, DevicesTyped DEF TypeInv, ProcessTyped
  <2>2. CASE NewCorePlugin(a)
      BY <2>2, DevicesTyped DEF TypeInv, ProcessTyped, NewCorePlugin
  <2> QED
      BY <2>1, <2>2 DEF TypeInv, ProcessTyped, Launch, Boot, NewClients, NewStorage,
                        WaitForSync, RunPlugins, RunGC
<1>3. UNCHANGED <<podVars, nodeVars, pending, gcChan, scan, todo, idx, call>>
    BY DEF Launch, Boot, NewClients, NewStorage, NewMemoryPlugin, NewCorePlugin,
           WaitForSync, RunPlugins, RunGC, threadVars, informerVars, roundVars
<1>4. InformerTyped'
  <2>1. cache' = cache \/ cache' = Set(cache, a, api)
      BY DEF Launch, Boot, NewClients, NewStorage, NewMemoryPlugin, NewCorePlugin,
             WaitForSync, RunPlugins, RunGC, threadVars, informerVars
  <2> QED
      BY <1>3, <2>1 DEF TypeInv, InformerTyped, NodeTyped, Set, podVars
<1>5. RoundTyped'
  <2>1. CASE RunGC(a)
    <3>1. pc[a] = "gc" /\ pc' = Set(pc, a, "run") /\ gc' = Set(gc, a, "wait")
        BY <2>1 DEF RunGC, Enter
    <3>2. gc[a] = "off" /\ idx[a] = 0
        BY <3>1 DEF TypeInv, RoundTyped
    <3> QED
        BY <1>3, <3>1, <3>2 DEF TypeInv, ProcessTyped, RoundTyped, Set, GCSteps, podVars
  <2>2. CASE Launch(a) \/ (Boot(a) /\ ~RunGC(a))
    <3>1. gc' = gc
        BY <2>2 DEF Launch, Boot, NewClients, NewStorage, NewMemoryPlugin, NewCorePlugin,
                    WaitForSync, RunPlugins, threadVars, roundVars
    <3>2. \A b \in Agents : pc[b] = "run" => pc'[b] = "run"
        BY <2>2 DEF Launch, Boot, NewClients, NewStorage, NewMemoryPlugin, NewCorePlugin,
                    WaitForSync, RunPlugins, Enter, Set, TypeInv, ProcessTyped
    <3> QED
        BY <1>3, <3>1, <3>2 DEF TypeInv, RoundTyped, podVars
  <2> QED
      BY <2>1, <2>2
<1> QED
    BY <1>1, <1>2, <1>3, <1>4, <1>5 DEF TypeInv, ProcessTyped, NodeTyped, CallTyped,
                                        podVars, nodeVars

LEMMA ExitKeepsTypes ==
    ASSUME TypeInv, NEW a \in Agents, Exit(a)
    PROVE  TypeInv'
<1>1. ProcessTyped'
    BY DEF TypeInv, ProcessTyped, Exit, Set, Nothing, DeviceIDs, Phases
<1>2. NodeTyped'
    BY DEF TypeInv, NodeTyped, Exit, podVars, nodeVars
<1>3. InformerTyped'
    BY DEF TypeInv, InformerTyped, Exit, Set, GCChanSize, podVars
<1>4. RoundTyped'
    BY DEF TypeInv, ProcessTyped, RoundTyped, Exit, Set, GCSteps, podVars
<1>5. CallTyped'
    BY ManagerAssumption
       DEF TypeInv, CallTyped, Exit, Set, NoCalls, Idle, CallSteps, podVars
<1> QED
    BY <1>1, <1>2, <1>3, <1>4, <1>5 DEF TypeInv

LEMMA PodStepsKeepTypes ==
    ASSUME TypeInv, NEW p \in Pods, PodCreated(p) \/ PodDeleted(p)
    PROVE  TypeInv'
<1>1. created \subseteq created' /\ UNCHANGED <<processVars, nodeVars, threadVars>>
    BY DEF PodCreated, PodDeleted
<1>2. NodeTyped'
    BY <1>1 DEF TypeInv, NodeTyped, PodCreated, PodDeleted, nodeVars
<1>3. ProcessTyped' /\ CallTyped'
    BY <1>1 DEF TypeInv, ProcessTyped, CallTyped, processVars, threadVars
<1>4. InformerTyped'
    BY <1>1 DEF TypeInv, InformerTyped, threadVars, informerVars
<1>5. RoundTyped'
    BY <1>1 DEF TypeInv, RoundTyped, processVars, threadVars, roundVars
<1> QED
    BY <1>2, <1>3, <1>4, <1>5 DEF TypeInv

(***************************************************************************)
(* Steps of the informer: only its own variables change.                   *)
(***************************************************************************)
LEMMA InformerKeepsTypes ==
    ASSUME TypeInv, NEW a \in Agents,
           \/ DeleteHook(a)
           \/ \E p \in Pods : InformerAdd(a, p) \/ InformerDelete(a, p)
    PROVE  TypeInv'
<1>1. UNCHANGED <<processVars, podVars, nodeVars, roundVars, call>>
    BY DEF DeleteHook, InformerAdd, InformerDelete
<1>2. InformerTyped'
  <2>1. CASE DeleteHook(a)
    <3>1. /\ Head(pending[a]) \in Pods /\ Tail(pending[a]) \in Seq(Pods)
          /\ gcChan[a] \in Seq(Pods)
        BY <2>1 DEF DeleteHook, TypeInv, InformerTyped
    <3>2. /\ Append(gcChan[a], Head(pending[a])) \in Seq(Pods)
          /\ Len(Append(gcChan[a], Head(pending[a]))) <= GCChanSize
        BY <2>1, <3>1 DEF DeleteHook, GCChanSize
    <3> QED
        BY <2>1, <3>1, <3>2 DEF DeleteHook, TypeInv, InformerTyped, podVars
  <2>2. ASSUME NEW p \in Pods, InformerAdd(a, p) PROVE InformerTyped'
      BY <2>2 DEF InformerAdd, TypeInv, InformerTyped, NodeTyped, podVars
  <2>3. ASSUME NEW p \in Pods, InformerDelete(a, p) PROVE InformerTyped'
    <3>1. Append(pending[a], p) \in Seq(Pods)
        BY DEF TypeInv, InformerTyped
    <3> QED
        BY <2>3, <3>1 DEF InformerDelete, TypeInv, InformerTyped, podVars
  <2> QED
      BY <2>1, <2>2, <2>3
<1> QED
    BY <1>1, <1>2 DEF TypeInv, ProcessTyped, NodeTyped, RoundTyped, CallTyped,
                      processVars, podVars, nodeVars, roundVars

(***************************************************************************)
(* Steps of a handler: each moves it on, to a link of its pod.             *)
(***************************************************************************)
LEMMA CallMoves ==
    ASSUME TypeInv, NEW a \in Agents, NEW p \in Pods, p \in created,
           NEW st \in CallSteps, NEW after \in CallSteps,
           Goto(a, p, st) \/ NextLink(a, p, st, after)
    PROVE  /\ call' \in [Agents -> [Pods -> [st : CallSteps, i : Nat]]]
           /\ \A b \in Agents, q \in Pods :
                  /\ call'[b][q].i < Links[q]
                  /\ call'[b][q].st # "none" => q \in created
<1>1. PICK s \in CallSteps, i \in Nat :
          i < Links[p] /\ call' = [call EXCEPT ![a][p] = [st |-> s, i |-> i]]
  <2>1. call[a][p] \in [st : CallSteps, i : Nat] /\ call[a][p].i < Links[p]
      BY DEF TypeInv, CallTyped
  <2>2. CASE Goto(a, p, st)
      BY <2>1, <2>2 DEF Goto, Move
  <2>3. CASE NextLink(a, p, st, after)
    <3>1. CASE call[a][p].i + 1 < Links[p]
        BY <2>1, <2>3, <3>1 DEF NextLink, Move
    <3>2. CASE ~(call[a][p].i + 1 < Links[p])
        BY <2>1, <2>3, <3>2, ManagerAssumption DEF NextLink, Move
    <3> QED
        BY <3>1, <3>2
  <2> QED
      BY <2>2, <2>3
<1>2. call' \in [Agents -> [Pods -> [st : CallSteps, i : Nat]]]
    BY <1>1 DEF TypeInv, CallTyped
<1>3. ASSUME NEW b \in Agents, NEW q \in Pods
      PROVE  /\ call'[b][q].i < Links[q]
             /\ call'[b][q].st # "none" => q \in created
    BY <1>1 DEF TypeInv, CallTyped
<1> QED
    BY <1>2, <1>3

LEMMA CallKeepsTypes ==
    ASSUME TypeInv, NEW a \in Agents, NEW p \in Pods,
           PreStartBegins(a, p) \/ CallStep(a, p)
    PROVE  TypeInv'
<1>1. p \in created
    BY DEF TypeInv, InformerTyped, CallTyped, PreStartBegins, CallStep, CreateSym,
           CreateCtl, Save, UndoSym, UndoCtl, At
<1>2. UNCHANGED <<processVars, podVars, informerVars, roundVars>>
    BY DEF PreStartBegins, CallStep, CreateSym, CreateCtl, Save, UndoSym, UndoCtl,
           outsideCall
<1>3. CallTyped'
  <2>1. \E st \in CallSteps, after \in CallSteps :
            Goto(a, p, st) \/ NextLink(a, p, st, after)
      BY DEF PreStartBegins, CallStep, CreateSym, CreateCtl, Save, UndoSym, UndoCtl,
             CallSteps
  <2>2. created' = created
      BY <1>2 DEF podVars
  <2> QED
      BY <1>1, <2>1, <2>2, CallMoves DEF CallTyped
<1>4. NodeTyped'
  <2>1. Link(a, p) \in LinkIDs
      BY ManagerAssumption DEF TypeInv, CallTyped, Link, LinkIDs
  <2>2. /\ record' = record \/ record' = record \cup {p}
        /\ sym' \subseteq sym \cup {Link(a, p)}
        /\ ctl' \subseteq ctl \cup {Link(a, p)}
      BY DEF PreStartBegins, CallStep, CreateSym, CreateCtl, Save, UndoSym, UndoCtl,
             nodeVars
  <2> QED
      BY <1>1, <1>2, <2>1, <2>2 DEF TypeInv, NodeTyped, podVars
<1> QED
    BY <1>2, <1>3, <1>4 DEF TypeInv, ProcessTyped, InformerTyped, RoundTyped,
                            processVars, podVars, informerVars, roundVars

(***************************************************************************)
(* Steps of the collector. A line in hand is the first of a list that only *)
(* changes when the line is done.                                          *)
(***************************************************************************)
LEMMA LineKeepsRound ==
    ASSUME TypeInv, NEW a \in Agents, LineDone(a) \/ LineFails(a),
           gc[a] # "off", UNCHANGED <<processVars, podVars, scan>>
    PROVE  RoundTyped'
<1>1. \/ LineDone(a)
      \/ /\ idx[a] = 0 /\ gc' = Set(gc, a, "wait")
         /\ todo' = Set(todo, a, {}) /\ UNCHANGED idx
    BY DEF LineFails, TypeInv, RoundTyped
<1>2. CASE LineDone(a)
    BY <1>2 DEF LineDone, TypeInv, RoundTyped, Set, GCSteps, processVars, podVars
<1>3. CASE /\ idx[a] = 0 /\ gc' = Set(gc, a, "wait")
           /\ todo' = Set(todo, a, {}) /\ UNCHANGED idx
    BY <1>3 DEF TypeInv, RoundTyped, Set, GCSteps, processVars, podVars
<1> QED
    BY <1>1, <1>2, <1>3

LEMMA RoundKeepsRound ==
    ASSUME TypeInv, NEW a \in Agents, RoundStep(a)
    PROVE  RoundTyped'
<1>1. UNCHANGED <<processVars, podVars>>
    BY DEF RoundStep, GCScan, GCAsk, GCRemoveSym, GCRemoveCtl, GCDeleteRecord,
           GCRoundEnds, outsideRound
<1>2. CASE GCScan(a)
    BY <1>1, <1>2 DEF GCScan, TypeInv, RoundTyped, Set, GCSteps, processVars, podVars
<1>3. CASE GCAsk(a)
  <2>1. First(scan[a]) \in scan[a] /\ idx[a] = 0
      BY <1>3, FirstIn DEF GCAsk, TypeInv, RoundTyped
  <2> QED
      BY <1>1, <1>3, <2>1
         DEF GCAsk, TypeInv, RoundTyped, Set, GCSteps, processVars, podVars
<1>4. CASE GCRemoveSym(a)
  <2>1. CASE GCLink(a) \in sym
    <3>1. First(todo[a]) \in Pods
        BY <1>4, FirstIn DEF GCRemoveSym, TypeInv, RoundTyped
    <3>2. idx[a] \in Nat /\ (idx[a] > 0 => idx[a] < Links[First(todo[a])])
        BY DEF TypeInv, RoundTyped
    <3>3. Links[First(todo[a])] \in Nat \ {0}
        BY <3>1, ManagerAssumption
    <3>4. idx[a] < Links[First(todo[a])]
        BY <3>2, <3>3
    <3> QED
        BY <1>1, <1>4, <2>1, <3>4
           DEF GCRemoveSym, TypeInv, RoundTyped, Set, GCSteps, processVars, podVars
  <2>2. CASE GCLink(a) \notin sym
      BY <1>1, <1>4, <2>2, LineKeepsRound DEF GCRemoveSym
  <2> QED
      BY <2>1, <2>2
<1>5. CASE GCRemoveCtl(a)
  <2>1. CASE GCLink(a) \notin ctl
      BY <1>1, <1>5, <2>1, LineKeepsRound DEF GCRemoveCtl
  <2>2. CASE GCLink(a) \in ctl
      BY <1>1, <1>5, <2>2
         DEF GCRemoveCtl, TypeInv, RoundTyped, Set, GCSteps, processVars, podVars
  <2> QED
      BY <2>1, <2>2
<1>6. CASE GCDeleteRecord(a)
    BY <1>1, <1>6, LineKeepsRound DEF GCDeleteRecord
<1>7. CASE GCRoundEnds(a)
    BY <1>1, <1>7 DEF GCRoundEnds, TypeInv, RoundTyped, Set, GCSteps, processVars, podVars
<1> QED
    BY <1>2, <1>3, <1>4, <1>5, <1>6, <1>7 DEF RoundStep

LEMMA RoundKeepsTypes ==
    ASSUME TypeInv, NEW a \in Agents, RoundStep(a)
    PROVE  TypeInv'
<1>1. UNCHANGED outsideRound
    BY DEF RoundStep, GCScan, GCAsk, GCRemoveSym, GCRemoveCtl, GCDeleteRecord, GCRoundEnds
<1>2. record' \subseteq record /\ sym' \subseteq sym /\ ctl' \subseteq ctl
    BY DEF RoundStep, GCScan, GCAsk, GCRemoveSym, GCRemoveCtl, GCDeleteRecord, GCRoundEnds,
           nodeVars
<1> QED
    BY <1>1, <1>2, RoundKeepsRound
       DEF TypeInv, ProcessTyped, NodeTyped, InformerTyped, CallTyped,
           outsideRound, processVars, podVars, informerVars

LEMMA SelectKeepsTypes ==
    ASSUME TypeInv, NEW a \in Agents, GCEvent(a) \/ GCTimer(a)
    PROVE  TypeInv'
<1>1. StartRound(a) /\ UNCHANGED <<processVars, podVars, nodeVars, cache, pending, call>>
    BY DEF GCEvent, GCTimer, informerVars
<1>2. RoundTyped'
    BY <1>1 DEF StartRound, TypeInv, NodeTyped, RoundTyped, Set, GCSteps, processVars, podVars
<1>3. InformerTyped'
  <2>1. CASE GCEvent(a)
    <3>1. Tail(gcChan[a]) \in Seq(Pods) /\ Len(Tail(gcChan[a])) <= GCChanSize
        BY <2>1 DEF GCEvent, TypeInv, InformerTyped, GCChanSize
    <3> QED
        BY <1>1, <2>1, <3>1 DEF GCEvent, TypeInv, InformerTyped, podVars
  <2>2. CASE GCTimer(a)
      BY <1>1, <2>2 DEF GCTimer, TypeInv, InformerTyped, informerVars, podVars
  <2> QED
      BY <2>1, <2>2
<1> QED
    BY <1>1, <1>2, <1>3 DEF TypeInv, ProcessTyped, NodeTyped, CallTyped,
                            processVars, podVars, nodeVars

LEMMA NextKeepsTypes == TypeInv /\ [Next]_vars => TypeInv'
<1> SUFFICES ASSUME TypeInv, [Next]_vars PROVE TypeInv'
    OBVIOUS
<1>1. CASE UNCHANGED vars
    BY <1>1 DEF vars, processVars, podVars, nodeVars, threadVars, informerVars, roundVars,
                TypeInv, ProcessTyped, NodeTyped, InformerTyped, RoundTyped, CallTyped
<1> QED
    BY <1>1, BootKeepsTypes, ExitKeepsTypes, PodStepsKeepTypes, InformerKeepsTypes,
       CallKeepsTypes, RoundKeepsTypes, SelectKeepsTypes DEF Next

(***************************************************************************)
(* Type correctness of the processes: what they hold is about pods that    *)
(* were created, gcChan never exceeds its one slot, since the delete       *)
(* handler blocks (pkg/manager/manager.go, the informer's DeleteFunc), and *)
(* handler and collector stay within the links of their pod wherever an    *)
(* error cuts their loops short.                                           *)
(***************************************************************************)
THEOREM ManagerTyped == Spec => []TypeOK
<1>1. TypeInv => TypeOK
  <2> SUFFICES ASSUME TypeInv PROVE TypeOK
      OBVIOUS
  <2>1. ASSUME NEW a \in Agents
        PROVE  devices[a].core \subseteq Cards \X Nat /\ devices[a].memory \subseteq Cards \X Nat
      BY DEF TypeInv, ProcessTyped, DeviceIDs
  <2>2. ASSUME NEW a \in Agents, gc[a] \in {"ctl", "record"} \/ idx[a] > 0
        PROVE  todo[a] # {} /\ idx[a] \in 0 .. Links[First(todo[a])] - 1
    <3>1. todo[a] # {} /\ idx[a] < Links[First(todo[a])] /\ idx[a] \in Nat
        BY <2>2 DEF TypeInv, RoundTyped
    <3>2. Links[First(todo[a])] \in Nat
        BY <3>1, FirstIn, ManagerAssumption DEF TypeInv, RoundTyped
    <3> QED
        BY <3>1, <3>2
  <2>3. ASSUME NEW a \in Agents, NEW p \in Pods
        PROVE  /\ call[a][p].st \in CallSteps
               /\ call[a][p].i \in 0 .. Links[p] - 1
               /\ call[a][p].st # "none" => p \in created
      BY ManagerAssumption DEF TypeInv, CallTyped
  <2> QED
      BY <2>1, <2>2, <2>3
         DEF TypeOK, TypeInv, ProcessTyped, NodeTyped, InformerTyped, RoundTyped
<1> QED
    BY <1>1, InitTyped, NextKeepsTypes, PTL DEF Spec

-----------------------------------------------------------------------------
(***************************************************************************)
(* Mutual exclusion. The phases after bolt.Open end with the process only, *)
(* and handlers and collector live no longer than it.                      *)
(***************************************************************************)
Opened == {"memory", "core", "sync", "plugins", "gc", "run"}

LockInv ==
    /\ \A a \in Agents : pc[a] \in Opened => lock = a
    /\ \A a \in Agents, p \in Pods : call[a][p].st # "none" => pc[a] \in Serving

LEMMA InitLock == Init => LockInv
BY DEF Init, LockInv, Opened, NoCalls, Idle

(***************************************************************************)
(* Only NewStorage takes the lock, when nobody has it.                     *)
(***************************************************************************)
LEMMA BootKeepsLock ==
    ASSUME TypeInv, LockInv, NEW a \in Agents, Launch(a) \/ Boot(a)
    PROVE  LockInv'
<1>1. pc \in [Agents -> Phases]
    BY DEF TypeInv, ProcessTyped
<1>2. UNCHANGED call
    BY DEF Launch, Boot, NewClients, NewStorage, NewMemoryPlugin, NewCorePlugin,
           WaitForSync, RunPlugins, RunGC, threadVars
<1>3. \A b \in Agents : pc[b] \in Serving => pc'[b] \in Serving
    BY <1>1 DEF Launch, Boot, NewClients, NewStorage, NewMemoryPlugin, NewCorePlugin,
                WaitForSync, RunPlugins, RunGC, Enter, Set, Serving
<1>4. \A b \in Agents : pc'[b] \in Opened => lock' = b
  <2>1. CASE NewStorage(a)
    <3>1. \A b \in Agents : pc[b] \notin Opened
        BY <2>1, ManagerAssumption DEF LockInv, NewStorage
    <3> QED
        BY <1>1, <2>1, <3>1 DEF NewStorage, Enter, Set
  <2>2. CASE Launch(a) \/ NewClients(a)
      BY <1>1, <2>2 DEF LockInv, Launch, NewClients, Enter, Set, Opened
  <2>3. CASE NewMemoryPlugin(a) \/ NewCorePlugin(a) \/ WaitForSync(a)
      BY <1>1, <2>3 DEF LockInv, NewMemoryPlugin, NewCorePlugin, WaitForSync, Enter, Set,
                        Opened
  <2>4. CASE RunPlugins(a) \/ RunGC(a)
      BY <1>1, <2>4 DEF LockInv, RunPlugins, RunGC, Enter, Set, Opened
  <2> QED
      BY <2>1, <2>2, <2>3, <2>4 DEF Boot
<1> QED
    BY <1>2, <1>3, <1>4 DEF LockInv

(***************************************************************************)
(* Only Exit gives the lock back, and it ends the handlers too.            *)
(***************************************************************************)
LEMMA ExitKeepsLock ==
    ASSUME TypeInv, LockInv, NEW a \in Agents, Exit(a)
    PROVE  LockInv'
<1>1. /\ pc'[a] = "off" /\ call'[a] = NoCalls
      /\ \A b \in Agents : b # a => pc'[b] = pc[b] /\ call'[b] = call[b]
    BY DEF TypeInv, ProcessTyped, CallTyped, Exit, Set
<1>2. \A b \in Agents : b # a /\ lock = b => lock' = b
    BY DEF Exit
<1> QED
    BY <1>1, <1>2 DEF LockInv, Opened, NoCalls, Idle

LEMMA CallKeepsLock ==
    ASSUME TypeInv, LockInv, NEW a \in Agents, NEW p \in Pods,
           PreStartBegins(a, p) \/ CallStep(a, p)
    PROVE  LockInv'
<1>1. pc[a] \in Serving /\ UNCHANGED processVars
    BY DEF LockInv, PreStartBegins, CallStep, CreateSym, CreateCtl, Save, UndoSym, UndoCtl,
           At, outsideCall
<1>2. \A b \in Agents, q \in Pods : b # a \/ q # p => call'[b][q] = call[b][q]
    BY DEF PreStartBegins, CallStep, CreateSym, CreateCtl, Save, UndoSym, UndoCtl,
           Goto, NextLink, Move, TypeInv, CallTyped
<1> QED
    BY <1>1, <1>2 DEF LockInv, processVars

LEMMA NextKeepsLock == TypeInv /\ LockInv /\ [Next]_vars => LockInv'
<1> SUFFICES ASSUME TypeInv, LockInv, [Next]_vars
             PROVE  LockInv'
    OBVIOUS
<1>1. ASSUME UNCHANGED <<processVars, call>> PROVE LockInv'
    BY <1>1 DEF LockInv, processVars
<1>2. ASSUME NEW a \in Agents,
             \/ DeleteHook(a) \/ GCEvent(a) \/ GCTimer(a) \/ RoundStep(a)
             \/ \E p \in Pods : InformerAdd(a, p) \/ InformerDelete(a, p)
      PROVE  LockInv'
    BY <1>1, <1>2 DEF DeleteHook, GCEvent, GCTimer, RoundStep, GCScan, GCAsk, GCRemoveSym,
                      GCRemoveCtl, GCDeleteRecord, GCRoundEnds, outsideRound,
                      InformerAdd, InformerDelete
<1>3. ASSUME NEW p \in Pods, PodCreated(p) \/ PodDeleted(p) PROVE LockInv'
    BY <1>1, <1>3 DEF PodCreated, PodDeleted, threadVars
<1>4. CASE UNCHANGED vars
    BY <1>1, <1>4 DEF vars, threadVars
<1> QED
    BY <1>2, <1>3, <1>4, BootKeepsLock, ExitKeepsLock, CallKeepsLock DEF Next

(***************************************************************************)
(* However many processes are started and ended, at most one has plugins   *)
(* that serve, a handler at work or a collector that runs (pkg/storage     *)
(* NewStorage, which waits for the lock of the database file before        *)
(* anything is served).                                                    *)
(***************************************************************************)
THEOREM OneAgentServes == Spec => []OneAgent
<1>1. TypeInv /\ LockInv => OneAgent
  <2> SUFFICES ASSUME TypeInv, LockInv, NEW a \in Agents, NEW b \in Agents,
                      pc[a] \in Serving, pc[b] \in Serving \/ Working(b)
               PROVE  a = b
      BY DEF OneAgent
  <2>1. lock = a
      BY DEF LockInv, Serving, Opened
  <2>2. pc[b] \in Serving
      BY DEF TypeInv, RoundTyped, LockInv, Working, At, Serving
  <2>3. lock = b
      BY <2>2 DEF LockInv, Serving, Opened
  <2> QED
      BY <2>1, <2>3
<1> QED
    BY <1>1, InitTyped, NextKeepsTypes, InitLock, NextKeepsLock, PTL DEF Spec

-----------------------------------------------------------------------------
(***************************************************************************)
(* What is offered. The two roundings of the division by Kilo amount to    *)
(* one division by its square.                                             *)
(***************************************************************************)
LEMMA Rounding ==
    ASSUME NEW d \in Nat \ {0}, NEW m \in Nat, NEW n \in Nat
    PROVE  m \div d \in Nat /\ (n <= m \div d <=> n * d <= m)
<1> DEFINE q == m \div d
<1>1. q \in Nat /\ q * d <= m /\ m < q * d + d
    BY DEF q
<1> HIDE DEF q
<1>2. n <= q => n * d <= q * d
    BY <1>1
<1>3. n > q => n * d >= q * d + d
  <2>1. ASSUME n > q PROVE n * d >= q * d + d
    <3>1. PICK e \in Nat : n = q + 1 + e
      <4>1. n - (q + 1) \in Nat /\ n = q + 1 + (n - (q + 1))
        BY <1>1, <2>1
      <4> QED
        BY <4>1
    <3>2. n * d = q * d + d + e * d /\ e * d >= 0
      BY <1>1, <3>1
    <3> QED
      BY <1>1, <3>2
  <2> QED
    BY <2>1
<1>4. n * d \in Nat /\ q * d \in Nat
    BY <1>1
<1>5. q \in Nat /\ (n <= q <=> n * d <= m)
    BY <1>1, <1>2, <1>3, <1>4
<1> QED
    BY <1>5 DEF q

LEMMA RoundedTwice ==
    ASSUME NEW m \in Nat, NEW j \in Nat
    PROVE  j \in 0 .. ((m \div Kilo) \div Kilo) - 1 <=> (j + 1) * Kilo * Kilo <= m
<1>1. Kilo \in Nat \ {0}
    BY ManagerAssumption
<1>2. j + 1 \in Nat /\ (j + 1) * Kilo \in Nat
    BY <1>1
<1>3. m \div Kilo \in Nat /\ (m \div Kilo) \div Kilo \in Nat
    BY <1>1, Rounding
<1>4. j + 1 <= (m \div Kilo) \div Kilo <=> (j + 1) * Kilo <= m \div Kilo
    BY <1>1, <1>2, <1>3, Rounding
<1>5. (j + 1) * Kilo <= m \div Kilo <=> (j + 1) * Kilo * Kilo <= m
    BY <1>1, <1>2, Rounding
<1>6. j \in 0 .. ((m \div Kilo) \div Kilo) - 1 <=> j + 1 <= (m \div Kilo) \div Kilo
    BY <1>3
<1> QED
    BY <1>4, <1>5, <1>6

(***************************************************************************)
(* The plugins are made in order, and advertise the same devices until the *)
(* process ends.                                                           *)
(***************************************************************************)
HasMemory == {"core", "sync", "plugins", "gc", "run"}
HasCore == {"sync", "plugins", "gc", "run"}

OfferInv ==
    /\ pc \in [Agents -> Phases]
    /\ devices \in [Agents -> [core : DeviceIDs, memory : DeviceIDs]]
    /\ \A a \in Agents :
           /\ pc[a] \in HasMemory => devices[a].memory = MemoryDevices(Memory)
           /\ pc[a] \in HasCore => devices[a].core = CoreDevices

LEMMA BootKeepsOffer ==
    ASSUME "query" \notin Faults, OfferInv, NEW a \in Agents, Launch(a) \/ Boot(a)
    PROVE  OfferInv'
<1>1. CASE \/ Launch(a) \/ NewClients(a) \/ NewStorage(a)
           \/ WaitForSync(a) \/ RunPlugins(a) \/ RunGC(a)
  <2>1. UNCHANGED devices
      BY <1>1 DEF Launch, NewClients, NewStorage, WaitForSync, RunPlugins, RunGC
  <2>2. PICK from \in Phases, to \in Phases :
            /\ Enter(a, from, to)
            /\ to \in HasMemory => from \in HasMemory
            /\ to \in HasCore => from \in HasCore
      BY <1>1 DEF Launch, NewClients, NewStorage, WaitForSync, RunPlugins, RunGC,
                  Phases, HasMemory, HasCore
  <2> QED
      BY <2>1, <2>2 DEF OfferInv, Enter, Set
<1>2. CASE NewMemoryPlugin(a)
  <2>1. \A failed \in CanFail : MemoryDevices(Discovered(failed)) = MemoryDevices(Memory)
      BY DEF CanFail, Discovered, MemoryDevices
  <2>2. devices' = [devices EXCEPT ![a].memory = MemoryDevices(Memory)]
      BY <1>2, <2>1 DEF NewMemoryPlugin
  <2>3. {} \in CanFail
      BY DEF CanFail
  <2>4. MemoryDevices(Memory) \in DeviceIDs
      BY <2>1, <2>3, DevicesTyped
  <2>5. /\ devices' \in [Agents -> [core : DeviceIDs, memory : DeviceIDs]]
        /\ devices'[a].memory = MemoryDevices(Memory)
        /\ \A b \in Agents \ {a} : devices'[b] = devices[b]
      BY <2>2, <2>4 DEF OfferInv
  <2>6. /\ pc' \in [Agents -> Phases]
        /\ pc'[a] \notin HasCore
        /\ \A b \in Agents \ {a} : pc'[b] = pc[b]
      BY <1>2 DEF OfferInv, NewMemoryPlugin, Enter, Set, Phases, HasCore
  <2> QED
      BY <2>5, <2>6 DEF OfferInv
<1>3. CASE NewCorePlugin(a)
  <2>1. /\ devices' \in [Agents -> [core : DeviceIDs, memory : DeviceIDs]]
        /\ devices'[a].core = CoreDevices
        /\ devices'[a].memory = devices[a].memory
        /\ \A b \in Agents \ {a} : devices'[b] = devices[b]
      BY <1>3, DevicesTyped DEF OfferInv, NewCorePlugin
  <2>2. /\ pc' \in [Agents -> Phases]
        /\ pc[a] \in HasMemory
        /\ \A b \in Agents \ {a} : pc'[b] = pc[b]
      BY <1>3 DEF OfferInv, NewCorePlugin, Enter, Set, Phases, HasMemory
  <2> QED
      BY <2>1, <2>2 DEF OfferInv
<1> QED
    BY <1>1, <1>2, <1>3 DEF Boot

LEMMA ExitKeepsOffer ==
    ASSUME OfferInv, NEW a \in Agents, Exit(a)
    PROVE  OfferInv'
<1>1. /\ devices' \in [Agents -> [core : DeviceIDs, memory : DeviceIDs]]
      /\ \A b \in Agents \ {a} : devices'[b] = devices[b]
    BY DEF OfferInv, Exit, Set, Nothing, DeviceIDs
<1>2. /\ pc' \in [Agents -> Phases]
      /\ pc'[a] \notin HasMemory \cup HasCore
      /\ \A b \in Agents \ {a} : pc'[b] = pc[b]
    BY DEF OfferInv, Exit, Set, Phases, HasMemory, HasCore
<1> QED
    BY <1>1, <1>2 DEF OfferInv

LEMMA NextKeepsOffer ==
    ASSUME "query" \notin Faults, OfferInv, [Next]_vars
    PROVE  OfferInv'
<1>1. ASSUME UNCHANGED <<pc, devices>> PROVE OfferInv'
    BY <1>1 DEF OfferInv
<1>2. CASE \E a \in Agents : Launch(a) \/ Boot(a)
    BY <1>2, BootKeepsOffer
<1>3. CASE \E a \in Agents : Exit(a)
    BY <1>3, ExitKeepsOffer
<1>4. ASSUME NEW a \in Agents,
             \/ DeleteHook(a) \/ GCEvent(a) \/ GCTimer(a) \/ RoundStep(a)
      PROVE  OfferInv'
    BY <1>1, <1>4 DEF DeleteHook, GCEvent, GCTimer, RoundStep, GCScan, GCAsk, GCRemoveSym,
                      GCRemoveCtl, GCDeleteRecord, GCRoundEnds, outsideRound, processVars
<1>5. ASSUME NEW p \in Pods,
             \/ PodCreated(p) \/ PodDeleted(p)
             \/ \E a \in Agents : \/ InformerAdd(a, p) \/ InformerDelete(a, p)
                                  \/ PreStartBegins(a, p) \/ CallStep(a, p)
      PROVE  OfferInv'
    BY <1>1, <1>5 DEF PodCreated, PodDeleted, InformerAdd, InformerDelete, PreStartBegins,
                      CallStep, CreateSym, CreateCtl, Save, UndoSym, UndoCtl, outsideCall,
                      processVars
<1>6. CASE UNCHANGED vars
    BY <1>1, <1>6 DEF vars, processVars
<1> QED
    BY <1>2, <1>3, <1>4, <1>5, <1>6 DEF Next

LEMMA OfferedIsAll == OfferInv => AllResourcesOffered
<1> SUFFICES ASSUME OfferInv, NEW a \in Agents, pc[a] \in Serving,
                    NEW g \in Cards, NEW j \in 0 .. Percent + Memory[g]
             PROVE  /\ <<g, j>> \in devices[a].core <=> j < Percent
                    /\ <<g, j>> \in devices[a].memory <=> (j + 1) * Kilo * Kilo <= Memory[g]
    BY DEF AllResourcesOffered
<1>1. devices[a].memory = MemoryDevices(Memory) /\ devices[a].core = CoreDevices
    BY DEF OfferInv, Serving, HasMemory, HasCore
<1>2. j \in Nat /\ Memory[g] \in Nat /\ Percent \in Nat
    BY ManagerAssumption
<1>3. <<g, j>> \in CoreDevices <=> j \in 0 .. Percent - 1
    BY DEF CoreDevices
<1>4. <<g, j>> \in MemoryDevices(Memory)
          <=> j \in 0 .. ((Memory[g] \div Kilo) \div Kilo) - 1
    BY DEF MemoryDevices
<1>5. j \in 0 .. Percent - 1 <=> j < Percent
    BY <1>2
<1> QED
    BY <1>1, <1>2, <1>3, <1>4, <1>5, RoundedTwice

(***************************************************************************)
(* Unless NVML fails to tell a card's memory, every serving agent offers   *)
(* exactly one memory device per whole MiB and Percent core devices of     *)
(* each card, for cards of any size and any value of the unit              *)
(* (pkg/plugins NewGPUShareMemoryPlugin, NewGPUShareCorePlugin). The       *)
(* hypothesis is needed: run discovery_errors shows what happens without.  *)
(***************************************************************************)
THEOREM ServingOffersAll ==
    ASSUME "query" \notin Faults
    PROVE  Spec => []AllResourcesOffered
<1>1. Init => OfferInv
    BY InitTyped DEF Init, OfferInv, TypeInv, ProcessTyped, HasMemory, HasCore
<1>2. OfferInv /\ [Next]_vars => OfferInv'
    BY NextKeepsOffer
<1> QED
    BY <1>1, <1>2, OfferedIsAll, PTL DEF Spec
=============================================================================
