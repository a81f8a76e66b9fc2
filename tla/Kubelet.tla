------------------------------ MODULE Kubelet ------------------------------
(***************************************************************************)
(* The life of a pod on the node, as far as the agent takes part in it:    *)
(* the kubelet's device manager and container start sequence (external to  *)
(* this repository) with the Allocate handlers, whose answer fixes the     *)
(* device nodes a container is created with, and the pre-start hook        *)
(* (cmd/elastic-gpu-hook), which turns the links into visible GPUs.        *)
(***************************************************************************)
EXTENDS GPUShareOperator, Sitter

CONSTANT
    Claims      \* the <<pod, container, resource>> requests of the pods

VARIABLES
    assign,     \* assign[cl]: the device list given to a claim, {} for none
    ready,      \* claims whose PreStartContainer answered without an error
    ctr,        \* ctr[ct]: "waiting", "created", "hooking" or "running"
    names,      \* names[ct]: links its hook has found and not followed yet
    seen,       \* seen[ct]: the GPUs a running container can use; while its
                \* hook runs, the ones found so far
    done        \* pods that have terminated, completed or been evicted

kubeletVars == <<assign, ready, ctr, names, seen, done>>

PodContainers == {<<cl[1], cl[2]>> : cl \in Claims}

ClaimsOf(ct) == {cl \in Claims : <<cl[1], cl[2]>> = ct}

KubeletTypeOK ==
    /\ assign \in [Claims -> Lists \cup {{}}]
    /\ ready \in SUBSET Claims
    /\ ctr \in [PodContainers -> {"waiting", "created", "hooking", "running"}]
    /\ names \in [PodContainers -> SUBSET LinkIDs]
    /\ seen \in [PodContainers -> SUBSET GPUs]
    /\ done \in SUBSET Pods

KubeletInit ==
    /\ assign = [cl \in Claims |-> {}]
    /\ ready = {}
    /\ ctr = [ct \in PodContainers |-> "waiting"]
    /\ names = [ct \in PodContainers |-> {}]
    /\ seen = [ct \in PodContainers |-> {}]
    /\ done = {}

-----------------------------------------------------------------------------
(***************************************************************************)
(* Pod objects. The scheduler annotates a pod before it binds it, so the   *)
(* node never sees the object without its annotations. A name can be used  *)
(* again once its pod is gone.                                             *)
(***************************************************************************)
PodCreated(p, a) ==
    /\ p \notin api
    /\ pod[p] = Nil \/ p \in done
    /\ api' = api \cup {p}
    /\ pod' = [pod EXCEPT ![p] = a]
    /\ assign' = [cl \in Claims |-> IF cl[1] = p THEN {} ELSE assign[cl]]
    /\ done' = done \ {p}
    /\ UNCHANGED <<cache, ready, ctr, names, seen>>

ApiDelete(p) ==
    /\ p \in api
    /\ api' = api \ {p}
    /\ UNCHANGED <<pod, cache, kubeletVars>>

(***************************************************************************)
(* Allocate, at admission: the device manager first takes back the devices *)
(* of terminated pods, then picks devices of the resource nobody holds.    *)
(***************************************************************************)
Allocate(cl, l) ==
    /\ cl[1] \in api \ done
    /\ assign[cl] = {}
    /\ \A other \in Claims :
           other[3] = cl[3] /\ other[1] \notin done => assign[other] \cap l = {}
    /\ assign' = [c \in Claims |-> IF c = cl THEN l
                                   ELSE IF c[1] \in done THEN {}
                                   ELSE assign[c]]
    /\ UNCHANGED <<sitterVars, ready, ctr, names, seen, done>>

(***************************************************************************)
(* The device nodes Allocate's answer asks the runtime to expose exist.    *)
(***************************************************************************)
LinksExist(ct) ==
    \A cl \in ClaimsOf(ct) :
        \A i \in AllocateLinks(assign[cl], cl[3]) :
            IsExist(<<Hash[assign[cl]], i>>)

CreateContainer(ct) ==
    /\ ct[1] \notin done
    /\ ctr[ct] = "waiting"
    /\ ClaimsOf(ct) \subseteq ready
    /\ IF LinksExist(ct)
       THEN ctr' = [ctr EXCEPT ![ct] = "created"] /\ UNCHANGED ready
       ELSE ready' = ready \ ClaimsOf(ct) /\ UNCHANGED ctr
    /\ UNCHANGED <<sitterVars, assign, names, seen, done>>

(***************************************************************************)
(* A container that exits is started again from PreStartContainer on, with *)
(* the devices it was given at admission.                                  *)
(***************************************************************************)
ContainerExit(ct) ==
    /\ ctr[ct] = "running"
    /\ ctr' = [ctr EXCEPT ![ct] = "waiting"]
    /\ seen' = [seen EXCEPT ![ct] = {}]
    /\ ready' = ready \ ClaimsOf(ct)
    /\ UNCHANGED <<sitterVars, assign, names, done>>

(***************************************************************************)
(* Completion, deletion or eviction: all containers are stopped. The API   *)
(* object may outlive this for as long as anybody likes.                   *)
(***************************************************************************)
Terminate(p) ==
    /\ pod[p] # Nil
    /\ p \notin done
    /\ done' = done \cup {p}
    /\ ctr' = [ct \in PodContainers |->
                  IF ct[1] = p THEN "waiting" ELSE ctr[ct]]
    /\ names' = [ct \in PodContainers |-> IF ct[1] = p THEN {} ELSE names[ct]]
    /\ seen' = [ct \in PodContainers |-> IF ct[1] = p THEN {} ELSE seen[ct]]
    /\ ready' = {cl \in ready : cl[1] # p}
    /\ UNCHANGED <<sitterVars, assign>>

-----------------------------------------------------------------------------
(***************************************************************************)
(* The hook reads a hash from the environment variable GPU of the OCI spec *)
(* (getEnvFromSpec). A container with both resources is given the variable *)
(* twice; which value comes first is the kubelet's choice.                 *)
(***************************************************************************)
EnvGPU(ct) == {Hash[assign[cl]] : cl \in ClaimsOf(ct)}

(***************************************************************************)
(* findGPUIndexes: one reading of the directory yields the names of all    *)
(* links of the hash, and only then are they followed one by one, while    *)
(* handlers and collector make and remove links.                           *)
(***************************************************************************)
\* Variant: the search ends with link 0.
FindGPUIndexesFirst(h) == {id \in LinksOf(h) : id[2] = 0}

\* Variant: links are matched without the hash.
FindGPUIndexesAll(h) == {id \in LinkIDs : sym[id] # Nil}

FindGPUIndexes(h) == LinksOf(h)

HookReadDir(ct) ==
    /\ ctr[ct] = "created"
    /\ \E gpu \in EnvGPU(ct) :
           names' = [names EXCEPT ![ct] = FindGPUIndexes(gpu)]
    /\ ctr' = [ctr EXCEPT ![ct] = "hooking"]
    /\ UNCHANGED <<sitterVars, assign, ready, seen, done>>

(***************************************************************************)
(* The hook exits with an error and the container is not started.          *)
(***************************************************************************)
HookExits(ct) ==
    /\ ctr' = [ctr EXCEPT ![ct] = "waiting"]
    /\ ready' = ready \ ClaimsOf(ct)
    /\ seen' = [seen EXCEPT ![ct] = {}]
    /\ names' = [names EXCEPT ![ct] = {}]

(***************************************************************************)
(* getGPUIndex: a name that has disappeared meanwhile ends the hook.       *)
(***************************************************************************)
HookReadLink(ct) ==
    /\ ctr[ct] = "hooking"
    /\ \E id \in names[ct] :
           IF sym[id] = Nil THEN HookExits(ct)
           ELSE /\ seen' = [seen EXCEPT ![ct] = @ \cup {sym[id]}]
                /\ names' = [names EXCEPT ![ct] = @ \ {id}]
                /\ UNCHANGED <<ctr, ready>>
    /\ UNCHANGED <<sitterVars, assign, done>>

(***************************************************************************)
(* The indexes are handed to the NVIDIA toolkit, which makes the GPUs      *)
(* visible in the container.                                               *)
(***************************************************************************)
HookToolkit(ct) ==
    /\ ctr[ct] = "hooking"
    /\ names[ct] = {}
    /\ ctr' = [ctr EXCEPT ![ct] = "running"]
    /\ UNCHANGED <<sitterVars, assign, ready, names, seen, done>>

(***************************************************************************)
(* The hook exits with 0 when its input lacks a bundle, the spec is        *)
(* incomplete, /dev cannot be read or the toolkit fails: the container     *)
(* runs without a GPU. It panics when the OCI spec cannot be read.         *)
(***************************************************************************)
HookFails(ct) ==
    /\ \/ ctr[ct] = "created"
       \/ ctr[ct] = "hooking" /\ names[ct] = {}
    /\ \/ /\ ctr' = [ctr EXCEPT ![ct] = "running"]
          /\ seen' = [seen EXCEPT ![ct] = {}]
          /\ UNCHANGED <<names, ready>>
       \/ ctr[ct] = "created" /\ HookExits(ct)
    /\ UNCHANGED <<sitterVars, assign, done>>

ASSUME ClaimsAssumption == Claims \subseteq Pods \X Containers \X Resources
=============================================================================
