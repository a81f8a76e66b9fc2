------------------------------ MODULE Locator ------------------------------
(***************************************************************************)
(* KubeletDeviceLocator.Locate (pkg/kube/locator.go), the loop over        *)
(* containers and their entries. The mutex makes calls run one at a time;  *)
(* a failed call leaves an error behind that makes the next one dial       *)
(* again. Pods are flattened: containers are numbered in the order of the  *)
(* answer.                                                                 *)
(***************************************************************************)
EXTENDS PodResources, PodResourcesClient

CONSTANTS
    IDs,            \* device IDs
    Resource,       \* the resource of this locator
    OtherResource,  \* any other resource a container may hold devices of
    MaxContainers,  \* bound on the containers in an answer
    EntrySeqs,      \* the sequences of entries a container may be listed with
    PodResourceRoot \* the directory of the kubelet's socket, a path

VARIABLES
    held,       \* held[k]: IDs of this resource that container k holds
    answer,     \* answer[k]: its entries, a sequence of [res, ids]
    request,    \* the list to locate
    perDevice,  \* every device ID is an entry of its own (Kubernetes 1.21)
    serving,    \* the kubelet's pod-resources service answers
    addr,       \* the socket the client was made for
    broken,     \* its connection was lost or refused, and waits to be retried
    pc,         \* "idle", "dial", "list", "scan", "done" or "failed"
    err,        \* the error kept from the last use of the client
    k, j,       \* the container and the entry the loops are at
    deviceIds,  \* IDs added up for container k
    result      \* the container returned, 0 for none

setting == <<held, answer, request, perDevice>>
vars == <<setting, serving, addr, broken, pc, err, k, j, deviceIds, result>>

Socket == "kubelet.sock"    \* with the suffix LocalEndpoint appends

Ks == 1 .. MaxContainers

TypeOK ==
    /\ held \in [Ks -> SUBSET IDs]
    /\ answer \in [Ks -> EntrySeqs]
    /\ request \in SUBSET IDs
    /\ perDevice \in BOOLEAN
    /\ serving \in BOOLEAN
    /\ addr \in {<<>>, Append(PodResourceRoot, Socket)}
    /\ broken \in BOOLEAN
    /\ pc \in {"idle", "dial", "list", "scan", "done", "failed"}
    /\ err \in BOOLEAN
    /\ k \in 1 .. MaxContainers + 1
    /\ k <= MaxContainers => j \in 1 .. Len(answer[k]) + 1
    /\ deviceIds \in SUBSET IDs
    /\ result \in 0 .. MaxContainers

(***************************************************************************)
(* The kubelet gives a device to one container only, and reports what it   *)
(* gave, in any order, among entries of other resources.                   *)
(***************************************************************************)
Reports(seq, devs) ==
    /\ \A e \in {seq[i] : i \in DOMAIN seq} : e.res \in {Resource, OtherResource}
    /\ \A i1, i2 \in DOMAIN seq : seq[i1] = seq[i2] => i1 = i2
    /\ {seq[i].ids : i \in {i \in DOMAIN seq : seq[i].res = Resource}}
           = Entries(perDevice, devs)

Exclusive == \A k1, k2 \in Ks : k1 # k2 => held[k1] \cap held[k2] = {}

(***************************************************************************)
(* GetClient with the endpoint of the kubelet, in NewKubeletDeviceLocator  *)
(* and again after an error.                                               *)
(***************************************************************************)
Client == GetClient(LocalEndpoint(PodResourceRoot, Socket))

Init ==
    /\ perDevice \in BOOLEAN
    /\ held \in [Ks -> SUBSET IDs]
    /\ Exclusive
    /\ answer \in [Ks -> EntrySeqs]
    /\ \A c \in Ks : Reports(answer[c], held[c])
    /\ request \in (SUBSET IDs) \ {{}}
    /\ serving = TRUE
    /\ broken = FALSE
    /\ pc = "idle"
    /\ err = ~Client.ok
    /\ addr = Client.addr
    /\ k = 1
    /\ j = 1
    /\ deviceIds = {}
    /\ result = 0

(***************************************************************************)
(* A call: the kept error decides whether the client is dialled first.     *)
(***************************************************************************)
Call ==
    /\ pc = "idle"
    /\ pc' = IF err THEN "dial" ELSE "list"
    /\ UNCHANGED <<setting, serving, addr, broken, err, k, j, deviceIds, result>>

\* Variant: the error of the failed call is not replaced by Dial's.
DialKeepsError ==
    /\ pc = "dial"
    /\ pc' = "failed"
    /\ UNCHANGED <<setting, serving, addr, broken, err, k, j, deviceIds, result>>

Dial ==
    /\ pc = "dial"
    /\ pc' = IF Client.ok THEN "list" ELSE "failed"
    /\ err' = ~Client.ok
    /\ addr' = Client.addr
    /\ broken' = ~serving
    /\ UNCHANGED <<setting, serving, k, j, deviceIds, result>>

(***************************************************************************)
(* The request fails while nobody listens at the socket of the client, and *)
(* may fail on a broken connection that gRPC has not retried yet.          *)
(***************************************************************************)
Reachable == serving /\ addr = Append(PodResourceRoot, Socket)

List ==
    /\ pc = "list"
    /\ \/ /\ Reachable
          /\ pc' = "scan"
          /\ broken' = FALSE
          /\ UNCHANGED err
       \/ /\ ~Reachable \/ broken
          /\ pc' = "failed"
          /\ err' = TRUE
          /\ UNCHANGED broken
    /\ k' = 1
    /\ j' = 1
    /\ deviceIds' = {}
    /\ UNCHANGED <<setting, serving, addr, result>>

Located(c) == pc' = "done" /\ result' = c /\ UNCHANGED <<k, j, deviceIds>>

Entry ==
    /\ pc = "scan"
    /\ k <= MaxContainers
    /\ j <= Len(answer[k])
    /\ IF answer[k][j].res = Resource /\ answer[k][j].ids = request
       THEN Located(k)
       ELSE /\ deviceIds' = IF answer[k][j].res = Resource
                            THEN deviceIds \cup answer[k][j].ids
                            ELSE deviceIds
            /\ j' = j + 1
            /\ UNCHANGED <<pc, k, result>>
    /\ UNCHANGED <<setting, serving, addr, broken, err>>

(***************************************************************************)
(* After the entries of a container: compare what they add up to, and      *)
(* start over for the next one.                                            *)
(***************************************************************************)
\* Variants: the IDs of one container counted for the next as well; the
\* entry index not started again.
CarryOver == k' = k + 1 /\ j' = 1 /\ UNCHANGED deviceIds
SameEntry == k' = k + 1 /\ deviceIds' = {} /\ UNCHANGED j

NextContainer == k' = k + 1 /\ j' = 1 /\ deviceIds' = {}

EndOfContainer ==
    /\ pc = "scan"
    /\ k <= MaxContainers
    /\ j > Len(answer[k])
    /\ IF deviceIds = request
       THEN Located(k)
       ELSE NextContainer /\ UNCHANGED <<pc, result>>
    /\ UNCHANGED <<setting, serving, addr, broken, err>>

NotFound ==
    /\ pc = "scan"
    /\ k > MaxContainers
    /\ pc' = "done"
    /\ result' = 0
    /\ UNCHANGED <<setting, serving, addr, broken, err, k, j, deviceIds>>

Return ==
    /\ pc \in {"done", "failed"}
    /\ pc' = "idle"
    /\ k' = 1
    /\ j' = 1
    /\ deviceIds' = {}
    /\ result' = 0
    /\ UNCHANGED <<setting, serving, addr, broken, err>>

(***************************************************************************)
(* The kubelet goes down, and connections with it, and comes back.         *)
(***************************************************************************)
KubeletRestarts ==
    /\ serving' = ~serving
    /\ broken' = (broken \/ serving)
    /\ UNCHANGED <<setting, addr, pc, err, k, j, deviceIds, result>>

Locate == Call \/ Dial \/ List \/ Entry \/ EndOfContainer \/ NotFound \/ Return

Next == Locate \/ KubeletRestarts

(***************************************************************************)
(* Calls keep coming: the kubelet retries the start of a container.        *)
(***************************************************************************)
Spec == Init /\ [][Next]_vars /\ WF_vars(Locate)

(***************************************************************************)
(* Locate answers with a container that Found describes, and finds nothing *)
(* only when there is none; a container that holds exactly the list is     *)
(* always preferred, whatever the order of containers and entries.         *)
(***************************************************************************)
LocateCorrect ==
    pc = "done" =>
        /\ result # 0 => Found(perDevice, held[result], request)
        /\ result = 0 => \A c \in Ks : ~Found(perDevice, held[c], request)
        /\ \A c \in Ks : held[c] = request => result = c

(***************************************************************************)
(* A failure does not stick: when the kubelet's service stays up, calls    *)
(* come to fail no more. The error kept from the last failure makes the    *)
(* next call dial again, and what it dials is the kubelet's socket.        *)
(***************************************************************************)
LocatorRecovers == <>[]serving => <>[](pc # "failed")

ASSUME LocatorAssumption ==
    /\ MaxContainers \in Nat \ {0}
    /\ Resource # OtherResource
    /\ EntrySeqs \subseteq Seq([res : {Resource, OtherResource}, ids : SUBSET IDs])
=============================================================================
