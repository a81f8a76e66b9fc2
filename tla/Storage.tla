------------------------------ MODULE Storage ------------------------------
(***************************************************************************)
(* pkg/storage/storage.go and pkg/types/pod.go: the bolt database that     *)
(* survives restarts of the agent. It maps a pod's namespace/name to its   *)
(* container -> device map, always written and deleted as a whole record   *)
(* in one transaction. Save only ever follows an assignment into the map,  *)
(* so a record is never empty and "no record" is the map without entries.  *)
(***************************************************************************)
EXTENDS Device

VARIABLE db         \* db[p][c]: the stored device, or Nil

PodInfos == [Containers -> Devices \cup {Nil}]

NewPI == [c \in Containers |-> Nil]

StorageTypeOK == db \in [Pods -> PodInfos]

StorageInit == db = [p \in Pods |-> NewPI]

(***************************************************************************)
(* Load fails on a missing key, and LoadOrCreate then makes an empty map.  *)
(***************************************************************************)
LoadOrCreate(p) == db[p]

Save(p, info) == db' = [db EXCEPT ![p] = info]

DeleteRecord(p) == db' = [db EXCEPT ![p] = NewPI]

(***************************************************************************)
(* ForEach runs in one read transaction: its callback sees the records as  *)
(* they were when it began, one line per container here.                   *)
(***************************************************************************)
Lines == [pod : Pods, con : Containers, dev : Devices]

ForEach ==
    {[pod |-> ct[1], con |-> ct[2], dev |-> db[ct[1]][ct[2]]] :
        ct \in {x \in Pods \X Containers : db[x[1]][x[2]] # Nil}}

ASSUME LinesAssumption == Nil \notin Lines
=============================================================================
