------------------------------ MODULE Manager ------------------------------
(***************************************************************************)
(* The life of the agent process (cmd/main.go, pkg/manager/manager.go):    *)
(* clients, database, device discovery, cache, plugins, collector, and     *)
(* what makes the collector run: the informer's delete handler, which      *)
(* sends to gcChan, and a timer.                                           *)
(*                                                                         *)
(* Several processes may be alive at a time, as in the update of a daemon  *)
(* set. They share the database file and the links in /dev, and a process  *)
(* may end between any two writes to either. A pod has one container, its  *)
(* name and its hash are used once, and its number is its place in the     *)
(* order of keys. What a link points to, and handlers that overlap on one  *)
(* pod, are left to modules PreStart and GC.                               *)
(***************************************************************************)
EXTENDS Integers, Sequences

CONSTANTS
    Agents,     \* agent processes
    Pods,       \* pods of the node that use GPUs
    Links,      \* Links[p]: links of pod p
    Memory,     \* Memory[g]: bytes of card g; its domain is the set of cards
    Kilo,       \* the literal 1024
    Percent,    \* GPUPercentEachCard: core devices of one card
    NoAgent,    \* nobody holds the lock of the database file
    Faults      \* "query": NVML fails to tell the memory of a card;
                \* "save", "drop": a record is not written, not removed

VARIABLES
    pc,         \* pc[a]: how far process a is, "off" when there is none
    lock,       \* the process that has the database open
    devices,    \* devices[a]: what its plugins advertise, per resource
    api,        \* pods the API server holds
    created,    \* pods that exist or existed
    record,     \* pods with a record in the database
    sym,        \* links <<p, i>> that exist
    ctl,        \* and those whose control link exists
    cache,      \* cache[a]: pods in the informer's store
    pending,    \* pending[a]: deletions the delete handler has yet to see
    gcChan,     \* gcChan[a]: deletions sent to the collector
    gc,         \* gc[a]: where the collector is, "wait" when in its select
    scan,       \* scan[a]: records the round has yet to look at
    todo,       \* todo[a]: pods on its list devicesToDelete
    idx,        \* idx[a]: number of the link it deletes
    call        \* call[a][p]: where the PreStartContainer handler for p is

processVars == <<pc, lock, devices>>
podVars == <<api, created>>
nodeVars == <<record, sym, ctl>>
informerVars == <<cache, pending, gcChan>>
roundVars == <<gc, scan, todo, idx>>
threadVars == <<informerVars, roundVars, call>>
vars == <<processVars, podVars, nodeVars, threadVars>>

GCChanSize == 1

Cards == DOMAIN Memory

Phases == {"off", "client", "open", "memory", "core", "sync", "plugins", "gc", "run"}

Serving == {"gc", "run"}    \* the plugins run

GCSteps == {"wait", "scan", "ask", "sym", "ctl", "record"}

CallSteps == {"none", "sym", "ctl", "save", "undoSym", "undoCtl"}

Set(f, a, x) == [f EXCEPT ![a] = x]

Nothing == [core |-> {}, memory |-> {}]

LinkIDs == UNION {{<<p, i>> : i \in 0 .. Links[p] - 1} : p \in Pods}

Idle == [st |-> "none", i |-> 0]

NoCalls == [p \in Pods |-> Idle]

First(ps) == CHOOSE p \in ps : \A q \in ps : p <= q

TypeOK ==
    /\ pc \in [Agents -> Phases]
    /\ lock \in Agents \cup {NoAgent}
    /\ \A a \in Agents : /\ devices[a].core \subseteq Cards \X Nat
                         /\ devices[a].memory \subseteq Cards \X Nat
    /\ api \subseteq created
    /\ created \subseteq Pods
    /\ record \subseteq created
    /\ sym \subseteq LinkIDs /\ ctl \subseteq LinkIDs
    /\ \A a \in Agents :
           /\ cache[a] \subseteq created /\ scan[a] \subseteq created
           /\ todo[a] \subseteq created
           /\ pending[a] \in Seq(Pods) /\ gcChan[a] \in Seq(Pods)
           /\ Len(gcChan[a]) <= GCChanSize
           /\ gc[a] \in GCSteps \cup {"off"}
           /\ gc[a] \in {"ctl", "record"} \/ idx[a] > 0 =>
                  todo[a] # {} /\ idx[a] \in 0 .. Links[First(todo[a])] - 1
           /\ \A p \in Pods : /\ call[a][p].st \in CallSteps
                              /\ call[a][p].i \in 0 .. Links[p] - 1
                              /\ call[a][p].st # "none" => p \in created

Init ==
    /\ pc = [a \in Agents |-> "off"]
    /\ lock = NoAgent
    /\ devices = [a \in Agents |-> Nothing]
    /\ api = {} /\ created = {} /\ record = {} /\ sym = {} /\ ctl = {}
    /\ cache = [a \in Agents |-> {}]
    /\ pending = [a \in Agents |-> <<>>]
    /\ gcChan = [a \in Agents |-> <<>>]
    /\ gc = [a \in Agents |-> "off"]
    /\ scan = [a \in Agents |-> {}]
    /\ todo = [a \in Agents |-> {}]
    /\ idx = [a \in Agents |-> 0]
    /\ call = [a \in Agents |-> NoCalls]

Enter(a, from, to) == pc[a] = from /\ pc' = Set(pc, a, to)

-----------------------------------------------------------------------------
(***************************************************************************)
(* main and the first half of NewGPUManager. Every error on the way, here  *)
(* and below, ends the process (Exit).                                     *)
(***************************************************************************)
Launch(a) ==
    /\ Enter(a, "off", "client")
    /\ UNCHANGED <<lock, devices, podVars, nodeVars, threadVars>>

NewClients(a) ==
    /\ Enter(a, "client", "open")
    /\ UNCHANGED <<lock, devices, podVars, nodeVars, threadVars>>

(***************************************************************************)
(* bolt.Open takes an exclusive lock on the file and, without a timeout in *)
(* its options, waits for it for ever.                                     *)
(***************************************************************************)
\* Variant: the file is opened without the lock.
OpenUnlocked(a) ==
    /\ Enter(a, "open", "memory")
    /\ lock' = a
    /\ UNCHANGED <<devices, podVars, nodeVars, threadVars>>

NewStorage(a) ==
    /\ lock = NoAgent
    /\ Enter(a, "open", "memory")
    /\ lock' = a
    /\ UNCHANGED <<devices, podVars, nodeVars, threadVars>>

(***************************************************************************)
(* baseOperator.Devices: cards are numbered in the order of NVML. A failed *)
(* query about one card sets err inside the callback, but err is assigned  *)
(* again when devices returns, and the card is listed with 0 bytes.        *)
(***************************************************************************)
Discovered(failed) == [g \in Cards |-> IF g \in failed THEN 0 ELSE Memory[g]]

CanFail == IF "query" \in Faults THEN SUBSET Cards ELSE {{}}

(***************************************************************************)
(* The device IDs "<card>-<number>" of the two plugins.                    *)
(***************************************************************************)
\* Variant: one device too many per card.
MemoryDevicesOneMore(m) ==
    UNION {{<<g, j>> : j \in 0 .. (m[g] \div Kilo) \div Kilo} : g \in Cards}

CoreDevices == {<<g, j>> : g \in Cards, j \in 0 .. Percent - 1}

MemoryDevices(m) ==
    UNION {{<<g, j>> : j \in 0 .. ((m[g] \div Kilo) \div Kilo) - 1} : g \in Cards}

NewMemoryPlugin(a) ==
    /\ Enter(a, "memory", "core")
    /\ \E failed \in CanFail :
           devices' = [devices EXCEPT ![a].memory = MemoryDevices(Discovered(failed))]
    /\ UNCHANGED <<lock, podVars, nodeVars, threadVars>>

NewCorePlugin(a) ==
    /\ Enter(a, "core", "sync")
    /\ devices' = [devices EXCEPT ![a].core = CoreDevices]
    /\ UNCHANGED <<lock, podVars, nodeVars, threadVars>>

-----------------------------------------------------------------------------
(***************************************************************************)
(* GPUManagerImpl.Run: wait for the informer's first list, then start the  *)
(* plugins and the collector.                                              *)
(***************************************************************************)
WaitForSync(a) ==
    /\ Enter(a, "sync", "plugins")
    /\ cache' = Set(cache, a, api)
    /\ UNCHANGED <<lock, devices, podVars, nodeVars, pending, gcChan, roundVars, call>>

RunPlugins(a) ==
    /\ Enter(a, "plugins", "gc")
    /\ UNCHANGED <<lock, devices, podVars, nodeVars, threadVars>>

RunGC(a) ==
    /\ Enter(a, "gc", "run")
    /\ gc' = Set(gc, a, "wait")
    /\ UNCHANGED <<lock, devices, podVars, nodeVars, informerVars, scan, todo, idx, call>>

(***************************************************************************)
(* The end of a process: a signal, a crash, or an error while it starts.   *)
(* The lock goes with it, and all that is in memory.                       *)
(***************************************************************************)
Exit(a) ==
    /\ pc[a] # "off"
    /\ pc' = Set(pc, a, "off")
    /\ lock' = IF lock = a THEN NoAgent ELSE lock
    /\ devices' = Set(devices, a, Nothing)
    /\ cache' = Set(cache, a, {})
    /\ pending' = Set(pending, a, <<>>)
    /\ gcChan' = Set(gcChan, a, <<>>)
    /\ gc' = Set(gc, a, "off")
    /\ scan' = Set(scan, a, {})
    /\ todo' = Set(todo, a, {})
    /\ idx' = Set(idx, a, 0)
    /\ call' = Set(call, a, NoCalls)
    /\ UNCHANGED <<podVars, nodeVars>>

-----------------------------------------------------------------------------
PodCreated(p) ==
    /\ p \notin created
    /\ created' = created \cup {p}
    /\ api' = api \cup {p}
    /\ UNCHANGED <<nodeVars, processVars, threadVars>>

PodDeleted(p) ==
    /\ p \in api
    /\ api' = api \ {p}
    /\ UNCHANGED <<created, nodeVars, processVars, threadVars>>

(***************************************************************************)
(* The informer changes its store first and tells its handlers after; its  *)
(* own queue has no limit, so a handler that blocks does not hold up the   *)
(* store.                                                                  *)
(***************************************************************************)
Synced(a) == pc[a] \in {"plugins", "gc", "run"}

InformerAdd(a, p) ==
    /\ Synced(a)
    /\ p \in api \ cache[a]
    /\ cache' = [cache EXCEPT ![a] = @ \cup {p}]
    /\ UNCHANGED <<processVars, podVars, nodeVars, pending, gcChan, roundVars, call>>

InformerDelete(a, p) ==
    /\ Synced(a)
    /\ p \in cache[a] \ api
    /\ cache' = [cache EXCEPT ![a] = @ \ {p}]
    /\ pending' = [pending EXCEPT ![a] = Append(@, p)]
    /\ UNCHANGED <<processVars, podVars, nodeVars, gcChan, roundVars, call>>

(***************************************************************************)
(* The delete handler: m.gcChan <- obj blocks while the channel is full.   *)
(***************************************************************************)
\* Variant: the channel is taken to have no limit.
DeleteHookUnchecked(a) ==
    /\ pending[a] # <<>>
    /\ gcChan' = [gcChan EXCEPT ![a] = Append(@, Head(pending[a]))]
    /\ pending' = [pending EXCEPT ![a] = Tail(@)]
    /\ UNCHANGED <<processVars, podVars, nodeVars, cache, roundVars, call>>

DeleteHook(a) ==
    /\ pending[a] # <<>>
    /\ Len(gcChan[a]) < GCChanSize
    /\ gcChan' = [gcChan EXCEPT ![a] = Append(@, Head(pending[a]))]
    /\ pending' = [pending EXCEPT ![a] = Tail(@)]
    /\ UNCHANGED <<processVars, podVars, nodeVars, cache, roundVars, call>>

(***************************************************************************)
(* PreStartContainer finds the pod in the cache, makes the links of its    *)
(* list one by one and saves the record. A link that exists is left as it  *)
(* is, with or without its control link. A Save that fails is undone link  *)
(* by link, whatever each Delete answers, and reported as success.         *)
(***************************************************************************)
At(a, p, st) == call[a][p].st = st

Link(a, p) == <<p, call[a][p].i>>

Move(a, p, st, i) == call' = [call EXCEPT ![a][p] = [st |-> st, i |-> i]]

Goto(a, p, st) == Move(a, p, st, call[a][p].i)

\* The next turn of a loop over the links that starts with st; `after` ends it.
NextLink(a, p, st, after) ==
    IF call[a][p].i + 1 < Links[p] THEN Move(a, p, st, call[a][p].i + 1)
                                   ELSE Move(a, p, after, 0)

outsideCall == <<processVars, podVars, informerVars, roundVars>>

PreStartBegins(a, p) ==
    /\ pc[a] \in Serving
    /\ p \in cache[a]
    /\ At(a, p, "none")
    /\ Goto(a, p, "sym")
    /\ UNCHANGED <<nodeVars, outsideCall>>

CreateSym(a, p) ==
    /\ At(a, p, "sym")
    /\ IF Link(a, p) \in sym THEN NextLink(a, p, "sym", "save")
                             ELSE Goto(a, p, "ctl")
    /\ sym' = sym \cup {Link(a, p)}
    /\ UNCHANGED <<record, ctl, outsideCall>>

CreateCtl(a, p) ==
    /\ At(a, p, "ctl")
    /\ ctl' = ctl \cup {Link(a, p)}
    /\ NextLink(a, p, "sym", "save")
    /\ UNCHANGED <<record, sym, outsideCall>>

Save(a, p) ==
    /\ At(a, p, "save")
    /\ \/ record' = record \cup {p} /\ Goto(a, p, "none")
       \/ "save" \in Faults /\ Goto(a, p, "undoSym") /\ UNCHANGED record
    /\ UNCHANGED <<sym, ctl, outsideCall>>

UndoSym(a, p) ==
    /\ At(a, p, "undoSym")
    /\ IF Link(a, p) \in sym THEN Goto(a, p, "undoCtl")
                             ELSE NextLink(a, p, "undoSym", "none")
    /\ sym' = sym \ {Link(a, p)}
    /\ UNCHANGED <<record, ctl, outsideCall>>

UndoCtl(a, p) ==
    /\ At(a, p, "undoCtl")
    /\ ctl' = ctl \ {Link(a, p)}
    /\ NextLink(a, p, "undoSym", "none")
    /\ UNCHANGED <<record, sym, outsideCall>>

CallStep(a, p) ==
    \/ CreateSym(a, p) \/ CreateCtl(a, p) \/ Save(a, p)
    \/ UndoSym(a, p) \/ UndoCtl(a, p)

-----------------------------------------------------------------------------
(***************************************************************************)
(* The select of the collector. The test of the pod's annotation that      *)
(* would go back to the select never applies: the informer passes          *)
(* pointers, and the type assertion is for the struct.                     *)
(***************************************************************************)
StartRound(a) ==
    /\ gc[a] = "wait"
    /\ gc' = Set(gc, a, "scan")
    /\ scan' = Set(scan, a, record)
    /\ UNCHANGED <<todo, idx>>

\* Variant: the test of the annotation sends the collector back.
GCEventFiltered(a) ==
    /\ gc[a] = "wait"
    /\ gcChan[a] # <<>>
    /\ gcChan' = [gcChan EXCEPT ![a] = Tail(@)]
    /\ UNCHANGED <<processVars, podVars, nodeVars, cache, pending, roundVars, call>>

GCEvent(a) ==
    /\ gcChan[a] # <<>>
    /\ gcChan' = [gcChan EXCEPT ![a] = Tail(@)]
    /\ StartRound(a)
    /\ UNCHANGED <<processVars, podVars, nodeVars, cache, pending, call>>

\* Variant: the timer does not lead to a round.
GCTimerIdle(a) == gc[a] = "wait" /\ UNCHANGED vars

GCTimer(a) ==
    /\ StartRound(a)
    /\ UNCHANGED <<processVars, podVars, nodeVars, informerVars, call>>

outsideRound == <<processVars, podVars, informerVars, call>>

(***************************************************************************)
(* The scan of the snapshot: a pod the cache does not know is asked for at *)
(* the API server, and listed if it is unknown there.                      *)
(***************************************************************************)
GCScan(a) ==
    /\ gc[a] = "scan"
    /\ IF scan[a] = {} THEN gc' = Set(gc, a, "sym") /\ UNCHANGED scan
       ELSE IF First(scan[a]) \in cache[a]
       THEN scan' = [scan EXCEPT ![a] = @ \ {First(@)}] /\ UNCHANGED gc
       ELSE gc' = Set(gc, a, "ask") /\ UNCHANGED scan
    /\ UNCHANGED <<todo, idx, nodeVars, outsideRound>>

GCAsk(a) ==
    /\ gc[a] = "ask"
    /\ gc' = Set(gc, a, "scan")
    /\ scan' = [scan EXCEPT ![a] = @ \ {First(@)}]
    /\ todo' = [todo EXCEPT ![a] = @ \cup ({First(scan[a])} \ api)]
    /\ UNCHANGED <<idx, nodeVars, outsideRound>>

(***************************************************************************)
(* The list is worked off in the order of keys: the links of a pod from    *)
(* number 0 up, each with its control link, then the record.               *)
(***************************************************************************)
GCLink(a) == <<First(todo[a]), idx[a]>>

LineDone(a) ==
    /\ todo' = [todo EXCEPT ![a] = @ \ {First(@)}]
    /\ idx' = Set(idx, a, 0)
    /\ gc' = Set(gc, a, "sym")

(***************************************************************************)
(* An error of Delete on link 0 ends the round (the break), on a later one *)
(* only the line (the continue).                                           *)
(***************************************************************************)
LineFails(a) ==
    IF idx[a] > 0 THEN LineDone(a)
    ELSE gc' = Set(gc, a, "wait") /\ todo' = Set(todo, a, {}) /\ UNCHANGED idx

GCRemoveSym(a) ==
    /\ gc[a] = "sym"
    /\ todo[a] # {}
    /\ IF GCLink(a) \in sym THEN gc' = Set(gc, a, "ctl") /\ UNCHANGED <<todo, idx>>
                            ELSE LineFails(a)
    /\ sym' = sym \ {GCLink(a)}
    /\ UNCHANGED <<scan, record, ctl, outsideRound>>

GCRemoveCtl(a) ==
    /\ gc[a] = "ctl"
    /\ \/ GCLink(a) \notin ctl /\ LineFails(a)
       \/ /\ GCLink(a) \in ctl
          /\ IF idx[a] + 1 < Links[First(todo[a])]
             THEN gc' = Set(gc, a, "sym") /\ idx' = [idx EXCEPT ![a] = @ + 1]
             ELSE gc' = Set(gc, a, "record") /\ UNCHANGED idx
          /\ UNCHANGED todo
    /\ ctl' = ctl \ {GCLink(a)}
    /\ UNCHANGED <<scan, record, sym, outsideRound>>

GCDeleteRecord(a) ==
    /\ gc[a] = "record"
    /\ \/ record' = record \ {First(todo[a])}
       \/ "drop" \in Faults /\ UNCHANGED record
    /\ LineDone(a)
    /\ UNCHANGED <<scan, sym, ctl, outsideRound>>

GCRoundEnds(a) ==
    /\ gc[a] = "sym"
    /\ todo[a] = {}
    /\ gc' = Set(gc, a, "wait")
    /\ UNCHANGED <<scan, todo, idx, nodeVars, outsideRound>>

RoundStep(a) ==
    \/ GCScan(a) \/ GCAsk(a) \/ GCRemoveSym(a) \/ GCRemoveCtl(a)
    \/ GCDeleteRecord(a) \/ GCRoundEnds(a)

-----------------------------------------------------------------------------
Boot(a) ==
    \/ NewClients(a) \/ NewStorage(a) \/ NewMemoryPlugin(a) \/ NewCorePlugin(a)
    \/ WaitForSync(a) \/ RunPlugins(a) \/ RunGC(a)

Next ==
    \/ \E a \in Agents :
           \/ Launch(a) \/ Boot(a) \/ Exit(a)
           \/ DeleteHook(a) \/ GCEvent(a) \/ GCTimer(a) \/ RoundStep(a)
           \/ \E p \in Pods : \/ InformerAdd(a, p) \/ InformerDelete(a, p)
                              \/ PreStartBegins(a, p) \/ CallStep(a, p)
    \/ \E p \in Pods : PodCreated(p) \/ PodDeleted(p)

Spec == Init /\ [][Next]_vars

(***************************************************************************)
(* Goroutines are scheduled, the informer delivers, handlers return. The   *)
(* timer is left out here: a property that needs it says so.               *)
(***************************************************************************)
FairSpec ==
    /\ Spec
    /\ \A a \in Agents :
           /\ WF_vars(Boot(a))
           /\ WF_vars(DeleteHook(a))
           /\ WF_vars(GCEvent(a))
           /\ WF_vars(RoundStep(a))
           /\ \A p \in Pods : /\ WF_vars(InformerDelete(a, p))
                              /\ WF_vars(CallStep(a, p))

-----------------------------------------------------------------------------
(***************************************************************************)
(* Only one process works on links and records, its collector and handlers *)
(* included: what modules PreStart and GC say of one agent holds for a     *)
(* node on which a second one is started before the first has ended.       *)
(***************************************************************************)
Working(a) == gc[a] # "off" \/ \E p \in Pods : ~At(a, p, "none")

OneAgent ==
    \A a, b \in Agents :
        pc[a] \in Serving /\ (pc[b] \in Serving \/ Working(b)) => a = b

(***************************************************************************)
(* A serving agent offers one memory device per MiB and Percent core       *)
(* devices for every card of the node, the rounding of the two divisions   *)
(* included, provided no query to NVML failed while it started.            *)
(***************************************************************************)
AllResourcesOffered ==
    \A a \in Agents : pc[a] \in Serving =>
        \A g \in Cards : \A j \in 0 .. Percent + Memory[g] :
            /\ <<g, j>> \in devices[a].core <=> j < Percent
            /\ <<g, j>> \in devices[a].memory <=> (j + 1) * Kilo * Kilo <= Memory[g]

(***************************************************************************)
(* The record of a deleted pod whose link 0 is missing: every round ends   *)
(* there, and no record behind it in the order of keys is reached. It is   *)
(* what is left when a process ends, or a record is not removed, after the *)
(* first os.Remove for a pod. (The collector's own work on the pod is not  *)
(* meant.)                                                                 *)
(***************************************************************************)
Headless(q) == q \in record \ api /\ <<q, 0>> \notin sym

InHand(q) ==
    \E a \in Agents : /\ gc[a] \in {"ctl", "record"} \/ idx[a] > 0
                      /\ q = First(todo[a])

Obstructs(q, p) == q <= p /\ Headless(q) /\ ~InHand(q)

(***************************************************************************)
(* A deletion the agent sees is followed by the removal of the pod's       *)
(* record without waiting for the timer: gcChan with its one slot, the     *)
(* blocking delete handler and a collector in the middle of a round lose   *)
(* none. What may keep the record is a headless one at or before it, or a  *)
(* handler still at work for the pod (its Save is left to the timer).      *)
(***************************************************************************)
EventsSuffice ==
    \A a \in Agents, p \in Pods :
        (pc[a] = "run" /\ p \in cache[a] \ api)
            ~> \/ p \notin record
               \/ pc[a] # "run"
               \/ ~At(a, p, "none")
               \/ \E q \in Pods : Obstructs(q, p)

(***************************************************************************)
(* Once an agent stays up, the timer makes the records of all deleted pods *)
(* go, those deleted while no agent ran (no event tells of them) and those *)
(* saved by late handlers included, unless a record at or before it in the *)
(* order of keys stays headless for ever.                                  *)
(***************************************************************************)
CollectedUnlessHeadless ==
    /\ \A a \in Agents : WF_vars(GCTimer(a))
    /\ \E a \in Agents : <>[](pc[a] = "run")
    => \A p \in Pods : <>(p \in created \ api) =>
           \/ <>[](p \notin record)
           \/ \E q \in Pods : q <= p /\ <>[]Headless(q)

ASSUME ManagerAssumption ==
    /\ Pods \subseteq Nat
    /\ Links \in [Pods -> Nat \ {0}]
    /\ Kilo \in Nat \ {0}
    /\ Percent \in Nat \ {0}
    /\ NoAgent \notin Agents
    /\ \A g \in Cards : Memory[g] \in Nat
=============================================================================
