------------------------------- MODULE Agent -------------------------------
(***************************************************************************)
(* The agent of one node together with its environment: the kubelet and    *)
(* the API server on one side, the PreStartContainer handlers, the garbage *)
(* collector, the database and the links on the other.                     *)
(*                                                                         *)
(* Faults selects what may go wrong in a behaviour:                        *)
(*   "crash"     the agent dies at any moment and is started again         *)
(*   "timeout"   the kubelet stops waiting for PreStartContainer           *)
(*   "link"      making a link fails                                       *)
(*   "unlink"    removing a link fails                                     *)
(*   "save"      a database transaction fails                              *)
(*   "list"      the kubelet's pod-resources service fails                 *)
(*   "api"       a request to the API server fails                         *)
(*   "hook"      the pre-start hook fails                                  *)
(*   "force"     a pod object is removed while its containers still run    *)
(*   "mismatch"  a container has more or fewer indexes assumed than links  *)
(*   "recreate"  a pod name is used again                                  *)
(* and, when the kubelet hands out a device list,                          *)
(*   "leftover"  a record or the collector may still refer to its hash, or *)
(*               a control link carry it                                   *)
(*   "leaked"    links with its hash may still exist                       *)
(*   "late"      a handler may still be running for a list of its hash     *)
(*   "collide"   another container may hold a list of the same hash        *)
(***************************************************************************)
EXTENDS GC

VARIABLE up     \* the agent process is running

vars == <<sitterVars, kubeletVars, operatorVars, db, preStartVars, gcVars, up>>

TypeOK ==
    /\ OperatorTypeOK
    /\ StorageTypeOK
    /\ SitterTypeOK
    /\ KubeletTypeOK
    /\ PreStartTypeOK
    /\ GCTypeOK
    /\ up \in BOOLEAN

Init ==
    /\ OperatorInit
    /\ StorageInit
    /\ SitterInit
    /\ KubeletInit
    /\ PreStartInit
    /\ GCInit
    /\ up = TRUE

-----------------------------------------------------------------------------
agentVars == <<operatorVars, db, preStartVars, gcVars, up>>

(***************************************************************************)
(* What may be left of the hash of a list when the kubelet hands it out.   *)
(* The core and the memory plugin number their devices alike, so the two   *)
(* resources have lists in common.                                         *)
(***************************************************************************)
NoLinks(l) == LinksOf(Hash[l]) = {}

NoCtl(l) == \A id \in ctl : id[1] # Hash[l]

NoHandler(l) == \A h \in Handlers : pc[h] # "idle" => Hash[list[h]] # Hash[l]

NoSharer(cl, l) ==
    \A c \in Claims : /\ assign[c] # {}
                      /\ c[1] \notin done
                      /\ Hash[assign[c]] = Hash[l]
                      => <<c[1], c[2]>> = <<cl[1], cl[2]>>

NoRecord(l) ==
    /\ \A x \in ForEach \cup scan \cup todo : x.dev.hash # Hash[l]
    /\ line # Nil => line.dev.hash # Hash[l]

(***************************************************************************)
(* As many indexes are assumed for the container as links are announced.   *)
(***************************************************************************)
Matches(cl, l) ==
    Len(pod[cl[1]][cl[2]]) = Cardinality(AllocateLinks(l, cl[3]))

Schedule(p, a) ==
    /\ pod[p] # Nil => "recreate" \in Faults
    /\ PodCreated(p, a)
    /\ UNCHANGED agentVars

Admit(cl, l) ==
    /\ up
    /\ Allocate(cl, l)
    /\ NoLinks(l) \/ "leaked" \in Faults
    /\ NoHandler(l) \/ "late" \in Faults
    /\ NoSharer(cl, l) \/ "collide" \in Faults
    /\ NoRecord(l) \/ "leftover" \in Faults
    /\ NoCtl(l) \/ {"leftover", "leaked"} \cap Faults # {}
    /\ Matches(cl, l) \/ "mismatch" \in Faults
    /\ UNCHANGED agentVars

StopPod(p) ==
    /\ \A h \in awaited : want[h][1] # p
    /\ Terminate(p)
    /\ UNCHANGED agentVars

RemovePod(p) ==
    /\ p \in done \/ "force" \in Faults
    /\ ApiDelete(p)
    /\ UNCHANGED agentVars

StartContainer(ct) ==
    /\ \/ CreateContainer(ct)
       \/ HookReadDir(ct) \/ HookReadLink(ct) \/ HookToolkit(ct)
       \/ "hook" \in Faults /\ HookFails(ct)
    /\ UNCHANGED agentVars

StopContainer(ct) == ContainerExit(ct) /\ UNCHANGED agentVars

InformerDeliver(p) ==
    /\ up
    /\ Deliver(p)
    /\ UNCHANGED <<kubeletVars, agentVars>>

Call(h, cl) == up /\ PreStartContainer(h, cl) /\ UNCHANGED <<gcVars, up>>

GiveUp(h) ==
    "timeout" \in Faults /\ KubeletTimeout(h) /\ UNCHANGED <<gcVars, up>>

Serve(h) == Handler(h) /\ UNCHANGED <<gcVars, up>>

Collect == up /\ GCStep /\ UNCHANGED up

(***************************************************************************)
(* A crash loses all that is in memory. Links and database stay. After the *)
(* start the plugins serve once the cache is filled (GPUManagerImpl.Run).  *)
(***************************************************************************)
Crash ==
    /\ "crash" \in Faults
    /\ up
    /\ up' = FALSE
    /\ cache' = [p \in Pods |-> Nil]
    /\ PreStartReset
    /\ GCReset
    /\ UNCHANGED <<pod, api, kubeletVars, operatorVars, db>>

Start ==
    /\ ~up
    /\ up' = TRUE
    /\ Sync
    /\ UNCHANGED <<kubeletVars, operatorVars, db, preStartVars, gcVars>>

Next ==
    \/ \E p \in Pods : \/ \E a \in Annotations : Schedule(p, a)
                       \/ StopPod(p) \/ RemovePod(p) \/ InformerDeliver(p)
    \/ \E cl \in Claims : \/ \E l \in Lists : Admit(cl, l)
                          \/ \E h \in Handlers : Call(h, cl)
    \/ \E ct \in PodContainers : StartContainer(ct) \/ StopContainer(ct)
    \/ \E h \in Handlers : GiveUp(h) \/ Serve(h)
    \/ Collect
    \/ Crash
    \/ Start

Spec == Init /\ [][Next]_vars

-----------------------------------------------------------------------------
(***************************************************************************)
(* Isolation: a running container uses no GPU but those the scheduler      *)
(* assumed for it on its pod, whatever links PreStartContainer found or    *)
(* left in /dev and whichever record, cache entry or late handler they     *)
(* stem from.                                                              *)
(***************************************************************************)
NoForeignGPU ==
    \A ct \in PodContainers :
        ctr[ct] = "running" => seen[ct] \subseteq Assumed(pod[ct[1]], ct[2])

(***************************************************************************)
(* The agent with its environment implements GPUAccess: a container uses   *)
(* what its hook saw, from the moment the hook has handed it over.         *)
(***************************************************************************)
Granted ==
    [p \in Pods |-> [c \in Containers |->
        IF pod[p] = Nil THEN {} ELSE Assumed(pod[p], c)]]

Use == [ct \in PodContainers |-> IF ctr[ct] = "running" THEN seen[ct] ELSE {}]

Access == INSTANCE GPUAccess WITH
              Indexes <- GPUs \cup {Bad}, granted <- Granted, use <- Use

(***************************************************************************)
(* Every step of handlers, collector, hook, kubelet and API server is a    *)
(* step of GPUAccess or none: the GPUs of a container are granted to it,   *)
(* fixed when it starts and stay what they are until it stops, while the   *)
(* links they were read from are removed and made again underneath.        *)
(***************************************************************************)
ImplementsGPUAccess == Access!AccessSpec

(***************************************************************************)
(* The collector drops a record only when its pod is gone from the API     *)
(* server, also at the moment of the deletion (GC asks earlier).           *)
(***************************************************************************)
RecordRemovalJustified ==
    [][\A p \in Pods : db[p] # NewPI /\ db'[p] = NewPI => p \notin api]_vars

(***************************************************************************)
(* While a container of an existing pod runs, the database holds the       *)
(* device it was started with: the loading and saving of a record by       *)
(* overlapping handlers, late ones included, loses no entry.               *)
(***************************************************************************)
RunningRecorded ==
    \A ct \in PodContainers :
        ctr[ct] = "running" /\ ct[1] \in api
        => \E cl \in ClaimsOf(ct) :
               db[ct[1]][ct[2]] = NewDevice(assign[cl], cl[3])

(***************************************************************************)
(* While a container of an existing pod runs, the links it was created     *)
(* with stay in place: neither the collector nor a handler's removal of    *)
(* its own links takes them away.                                          *)
(***************************************************************************)
RunningLinked ==
    \A ct \in PodContainers :
        ctr[ct] = "running" /\ ct[1] \in api => LinksExist(ct)

(***************************************************************************)
(* No link is forgotten: each one belongs to a stored device, to a line    *)
(* the collector is about to delete, or to a handler that is still         *)
(* running. (Without faults and with one claim per pod.)                   *)
(***************************************************************************)
Covers(d, id) == d.hash = id[1] /\ id[2] \in GCLinks(d)

LinksAccounted ==
    \A id \in LinkIDs :
        sym[id] # Nil \/ id \in ctl
        => \/ \E l \in ForEach \cup todo : Covers(l.dev, id)
           \/ line # Nil /\ Covers(line.dev, id)
           \/ \E h \in Handlers : pc[h] # "idle" /\ Hash[list[h]] = id[1]

(***************************************************************************)
(* A running container uses every GPU assumed for it, not only some.       *)
(* (Without faults.)                                                       *)
(***************************************************************************)
SeesAllAssumed ==
    \A ct \in PodContainers :
        ctr[ct] = "running" => Assumed(pod[ct[1]], ct[2]) \subseteq seen[ct]

-----------------------------------------------------------------------------
(***************************************************************************)
(* Fairness. Goroutines are scheduled and Go's mutex does not starve a     *)
(* waiter, so a handler that can run again and again does run (strong      *)
(* fairness covers the wait for the mutex). The collector's timer fires    *)
(* every minute, the informer resyncs, and the kubelet retries starting    *)
(* the containers of a pod. Nothing makes pods come, stop or go.           *)
(***************************************************************************)
Fairness ==
    /\ \A h \in Handlers : SF_vars(Serve(h))
    /\ \A cl \in Claims : WF_vars(\E h \in Handlers : Call(h, cl))
    /\ \A ct \in PodContainers : WF_vars(StartContainer(ct))
    /\ \A p \in Pods : WF_vars(InformerDeliver(p))
    /\ WF_vars(Collect)
    /\ WF_vars(Start)

FairSpec == Spec /\ Fairness

(***************************************************************************)
(* The record of a pod that is gone is eventually collected.               *)
(***************************************************************************)
GoneCollected ==
    \A p \in Pods :
        (pod[p] # Nil /\ p \notin api) ~> (db[p] = NewPI)

(***************************************************************************)
(* Once every pod is gone, nothing is left in /dev.                        *)
(***************************************************************************)
AllLinksRemoved ==
    (\A p \in Pods : pod[p] # Nil /\ p \notin api)
        ~> (ctl = {} /\ \A id \in LinkIDs : sym[id] = Nil)

(***************************************************************************)
(* A container with all its devices eventually runs, unless its pod stops: *)
(* PreStartContainer is retried until the informer knows the pod.          *)
(***************************************************************************)
ContainerStarts ==
    \A ct \in PodContainers :
        (\A cl \in ClaimsOf(ct) : assign[cl] # {})
            ~> (ctr[ct] = "running" \/ ct[1] \in done)
=============================================================================
