------------------------------ MODULE PreStart ------------------------------
(***************************************************************************)
(* PreStartContainer of the core and the memory plugin                     *)
(* (pkg/plugins/gpushare.go), one step per call that reads or changes      *)
(* shared state. Handlers of the two plugins share the links and the       *)
(* database but not the mutex: each plugin has its own. A handler keeps    *)
(* running when the kubelet has stopped waiting for its answer.            *)
(***************************************************************************)
EXTENDS Kubelet, Storage, PodResources

CONSTANTS
    Handlers,   \* goroutines serving PreStartContainer
    Faults,     \* the failures that may happen (see Agent)
    PerDevice   \* the kubelet lists every device ID as an entry of its own

VARIABLES
    pc,         \* pc[h]: where handler h is
    want,       \* want[h]: the claim the kubelet asked for, Nil when idle
    list,       \* list[h]: the device list of the request
    at,         \* at[h]: <<pod, container>> found by the locator, or Nil
    val,        \* val[h]: the container's annotation, <<>> before it is read
    idx,        \* idx[h]: position in val of the loop over its indexes
    info,       \* info[h]: the record loaded and about to be saved
    awaited     \* the handlers whose caller still waits

preStartVars == <<pc, want, list, at, val, idx, info, awaited>>

Steps == {"idle", "locate", "getpod", "lock", "stat", "sym", "ctl", "load",
          "save", "undo", "undoctl", "ok", "fail"}

PreStartTypeOK ==
    /\ pc \in [Handlers -> Steps]
    /\ want \in [Handlers -> Claims \cup {Nil}]
    /\ list \in [Handlers -> Lists \cup {{}}]
    /\ at \in [Handlers -> (Pods \X Containers) \cup {Nil}]
    /\ val \in [Handlers -> Seq(GPUs \cup {Bad})]
    /\ idx \in [Handlers -> 1 .. MaxLinks]
    /\ info \in [Handlers -> PodInfos]
    /\ awaited \in SUBSET Handlers

(***************************************************************************)
(* No handler is running: the state after the process starts.              *)
(***************************************************************************)
PreStartInit ==
    /\ pc = [h \in Handlers |-> "idle"]
    /\ want = [h \in Handlers |-> Nil]
    /\ list = [h \in Handlers |-> {}]
    /\ at = [h \in Handlers |-> Nil]
    /\ val = [h \in Handlers |-> <<>>]
    /\ idx = [h \in Handlers |-> 1]
    /\ info = [h \in Handlers |-> NewPI]
    /\ awaited = {}

PreStartReset ==
    /\ pc' = [h \in Handlers |-> "idle"]
    /\ want' = [h \in Handlers |-> Nil]
    /\ list' = [h \in Handlers |-> {}]
    /\ at' = [h \in Handlers |-> Nil]
    /\ val' = [h \in Handlers |-> <<>>]
    /\ idx' = [h \in Handlers |-> 1]
    /\ info' = [h \in Handlers |-> NewPI]
    /\ awaited' = {}

Goto(h, step) == pc' = [pc EXCEPT ![h] = step]

(***************************************************************************)
(* The mutex of a plugin is held from parsing to the return.               *)
(***************************************************************************)
Critical == {"stat", "sym", "ctl", "load", "save", "undo", "undoctl", "ok"}

\* Variant: PreStartContainer takes no mutex.
LockedNever(r) == FALSE

Locked(r) == \E h \in Handlers : pc[h] \in Critical /\ want[h][3] = r

-----------------------------------------------------------------------------
(***************************************************************************)
(* The kubelet starts the containers of a pod one after the other and asks *)
(* for each of its resources in turn.                                      *)
(***************************************************************************)
PreStartContainer(h, cl) ==
    /\ pc[h] = "idle"
    /\ cl[1] \notin done
    /\ assign[cl] # {}
    /\ cl \notin ready
    /\ ctr[<<cl[1], cl[2]>>] = "waiting"
    /\ \A g \in awaited : want[g][1] # cl[1]
    /\ Goto(h, "locate")
    /\ want' = [want EXCEPT ![h] = cl]
    /\ list' = [list EXCEPT ![h] = assign[cl]]
    /\ awaited' = awaited \cup {h}
    /\ UNCHANGED <<sitterVars, kubeletVars, operatorVars, db, at, val, idx, info>>

(***************************************************************************)
(* The kubelet gives up after 30 seconds; the handler does not notice.     *)
(***************************************************************************)
KubeletTimeout(h) ==
    /\ h \in awaited
    /\ awaited' = awaited \ {h}
    /\ UNCHANGED <<sitterVars, kubeletVars, operatorVars, db,
                   pc, want, list, at, val, idx, info>>

(***************************************************************************)
(* Locate: the kubelet lists who holds which devices; a claim of the same  *)
(* resource that matches the list is taken (module Locator has the loop).  *)
(***************************************************************************)
Holders(h) ==
    {cl \in Claims : cl[3] = want[h][3] /\ Found(PerDevice, assign[cl], list[h])}

Locate(h) ==
    /\ pc[h] = "locate"
    /\ \/ \E cl \in Holders(h) :
              at' = [at EXCEPT ![h] = <<cl[1], cl[2]>>] /\ Goto(h, "getpod")
       \/ /\ Holders(h) = {} \/ "list" \in Faults
          /\ Goto(h, "fail") /\ UNCHANGED at
    /\ UNCHANGED <<sitterVars, kubeletVars, operatorVars, db,
                   want, list, val, idx, info, awaited>>

(***************************************************************************)
(* The pod comes from the informer cache, and its annotations with it.     *)
(***************************************************************************)
ReadAnnotation(h) ==
    LET cached == GetPod(at[h][1])
    IN  /\ pc[h] = "getpod"
        /\ IF cached # Nil /\ ContainerAnnotation(cached, at[h][2]) # <<>>
           THEN /\ val' = [val EXCEPT ![h] =
                              ContainerAnnotation(cached, at[h][2])]
                /\ Goto(h, "lock")
           ELSE Goto(h, "fail") /\ UNCHANGED val
        /\ UNCHANGED <<sitterVars, kubeletVars, operatorVars, db,
                       want, list, at, idx, info, awaited>>

(***************************************************************************)
(* The core plugin splits the annotation at commas, the memory plugin      *)
(* reads it as one number.                                                 *)
(***************************************************************************)
Parses(r, v) ==
    /\ \A i \in DOMAIN v : v[i] # Bad
    /\ r = "memory" => Len(v) = 1

Lock(h) ==
    /\ pc[h] = "lock"
    /\ ~Locked(want[h][3])
    /\ IF Parses(want[h][3], val[h]) THEN Goto(h, "stat") ELSE Goto(h, "fail")
    /\ UNCHANGED <<sitterVars, kubeletVars, operatorVars, db,
                   want, list, at, val, idx, info, awaited>>

-----------------------------------------------------------------------------
(***************************************************************************)
(* The loop over the indexes: GPUOperator.Create(val[i], "<hash>-<i-1>").  *)
(***************************************************************************)
LinkOf(h) == <<Hash[list[h]], idx[h] - 1>>

\* Variant: the loop runs one index too far.
AdvanceTooFar(h, again, after) ==
    IF idx[h] <= Len(val[h])
    THEN idx' = [idx EXCEPT ![h] = idx[h] + 1] /\ Goto(h, again)
    ELSE idx' = [idx EXCEPT ![h] = 1] /\ Goto(h, after)

Advance(h, again, after) ==
    IF idx[h] < Len(val[h])
    THEN idx' = [idx EXCEPT ![h] = idx[h] + 1] /\ Goto(h, again)
    ELSE idx' = [idx EXCEPT ![h] = 1] /\ Goto(h, after)

\* Variant: Create does not accept a link that exists.
AlreadyNever(h) == FALSE

Already(h) == IsExist(LinkOf(h))

CreateStat(h) ==
    /\ pc[h] = "stat"
    /\ IF Already(h) THEN Advance(h, "stat", "load")
                      ELSE Goto(h, "sym") /\ UNCHANGED idx
    /\ UNCHANGED <<sitterVars, kubeletVars, operatorVars, db,
                   want, list, at, val, info, awaited>>

(***************************************************************************)
(* An error of Create ends the handler; the links made so far stay.        *)
(***************************************************************************)
CreateSym(h) ==
    /\ pc[h] = "sym"
    /\ \/ /\ CanSymlink(LinkOf(h))
          /\ Symlink(val[h][idx[h]], LinkOf(h))
          /\ Goto(h, "ctl")
       \/ /\ ~CanSymlink(LinkOf(h)) \/ "link" \in Faults
          /\ Goto(h, "fail")
          /\ UNCHANGED operatorVars
    /\ UNCHANGED <<sitterVars, kubeletVars, db,
                   want, list, at, val, idx, info, awaited>>

CreateCtl(h) ==
    /\ pc[h] = "ctl"
    /\ \/ SymlinkCtl(LinkOf(h)) /\ Advance(h, "stat", "load")
       \/ "link" \in Faults /\ Goto(h, "fail") /\ UNCHANGED <<operatorVars, idx>>
    /\ UNCHANGED <<sitterVars, kubeletVars, db,
                   want, list, at, val, info, awaited>>

-----------------------------------------------------------------------------
(***************************************************************************)
(* The record is read, changed and written back in two transactions.       *)
(***************************************************************************)
\* Variant: a new record instead of the stored one.
LoadDropsOthers(h) ==
    /\ pc[h] = "load"
    /\ info' = [info EXCEPT ![h] =
                   [NewPI EXCEPT ![at[h][2]] = NewDevice(list[h], want[h][3])]]
    /\ Goto(h, "save")
    /\ UNCHANGED <<sitterVars, kubeletVars, operatorVars, db,
                   want, list, at, val, idx, awaited>>

LoadRecord(h) ==
    /\ pc[h] = "load"
    /\ info' = [info EXCEPT ![h] =
                   [LoadOrCreate(at[h][1]) EXCEPT
                       ![at[h][2]] = NewDevice(list[h], want[h][3])]]
    /\ Goto(h, "save")
    /\ UNCHANGED <<sitterVars, kubeletVars, operatorVars, db,
                   want, list, at, val, idx, awaited>>

(***************************************************************************)
(* A failed Save triggers the deferred removal of the links, whose errors  *)
(* are only logged, and still the handler answers without an error.        *)
(***************************************************************************)
SaveRecord(h) ==
    /\ pc[h] = "save"
    /\ \/ Save(at[h][1], info[h]) /\ Goto(h, "ok")
       \/ "save" \in Faults /\ Goto(h, "undo") /\ UNCHANGED db
    /\ UNCHANGED <<sitterVars, kubeletVars, operatorVars,
                   want, list, at, val, idx, info, awaited>>

UndoSym(h) ==
    /\ pc[h] = "undo"
    /\ \/ /\ CanRemoveSym(LinkOf(h))
          /\ RemoveSym(LinkOf(h)) /\ Goto(h, "undoctl") /\ UNCHANGED idx
       \/ /\ ~CanRemoveSym(LinkOf(h)) \/ "unlink" \in Faults
          /\ Advance(h, "undo", "ok") /\ UNCHANGED operatorVars
    /\ UNCHANGED <<sitterVars, kubeletVars, db,
                   want, list, at, val, info, awaited>>

UndoCtl(h) ==
    /\ pc[h] = "undoctl"
    /\ RemoveCtl(LinkOf(h)) \/ ("unlink" \in Faults /\ UNCHANGED operatorVars)
    /\ Advance(h, "undo", "ok")
    /\ UNCHANGED <<sitterVars, kubeletVars, db,
                   want, list, at, val, info, awaited>>

(***************************************************************************)
(* The answer, and the release of the mutex. Nobody hears an answer that   *)
(* is no longer awaited; an error makes the kubelet try again.             *)
(***************************************************************************)
Return(h) ==
    /\ pc[h] \in {"ok", "fail"}
    /\ ready' = IF pc[h] = "ok" /\ h \in awaited THEN ready \cup {want[h]}
                                                 ELSE ready
    /\ Goto(h, "idle")
    /\ want' = [want EXCEPT ![h] = Nil]
    /\ list' = [list EXCEPT ![h] = {}]
    /\ at' = [at EXCEPT ![h] = Nil]
    /\ val' = [val EXCEPT ![h] = <<>>]
    /\ idx' = [idx EXCEPT ![h] = 1]
    /\ info' = [info EXCEPT ![h] = NewPI]
    /\ awaited' = awaited \ {h}
    /\ UNCHANGED <<sitterVars, operatorVars, db, assign, ctr, names, seen, done>>

Handler(h) ==
    \/ Locate(h) \/ ReadAnnotation(h) \/ Lock(h)
    \/ CreateStat(h) \/ CreateSym(h) \/ CreateCtl(h)
    \/ LoadRecord(h) \/ SaveRecord(h)
    \/ UndoSym(h) \/ UndoCtl(h) \/ Return(h)

ASSUME PerDeviceAssumption == PerDevice \in BOOLEAN
=============================================================================
