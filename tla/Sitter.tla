------------------------------- MODULE Sitter -------------------------------
(***************************************************************************)
(* pkg/kube/sitter.go: the pods of this node, as the API server holds them *)
(* and as the agent's informer cache remembers them. Only the annotations  *)
(* matter. An annotation is, per container, the sequence of GPU indexes    *)
(* the scheduler assumed for it; <<>> stands for a missing annotation (the *)
(* pod's or the container's), Bad for text that is not a number.           *)
(***************************************************************************)
EXTENDS Device, Sequences

CONSTANTS
    Bad,            \* an element of an annotation that is not a number
    Annotations     \* the annotations pods are created with

VARIABLES
    pod,        \* pod[p]: annotations of the newest pod named p, kept after
                \* the pod is gone; Nil when there never was one
    api,        \* the pods the API server holds now
    cache       \* cache[p]: the object in the informer's store, or Nil

sitterVars == <<pod, api, cache>>

SitterTypeOK ==
    /\ pod \in [Pods -> Annotations \cup {Nil}]
    /\ api \in SUBSET Pods
    /\ cache \in [Pods -> Annotations \cup {Nil}]

SitterInit ==
    /\ pod = [p \in Pods |-> Nil]
    /\ api = {}
    /\ cache = [p \in Pods |-> Nil]

(***************************************************************************)
(* GetPod reads the cache, GetPodFromApiServer asks the API server. The    *)
(* API server's answer is current; the cache's is not.                     *)
(***************************************************************************)
GetPod(p) == cache[p]

FoundInApiServer(p) == p \in api

ApiObject(p) == IF p \in api THEN pod[p] ELSE Nil

(***************************************************************************)
(* The informer delivers the current object, or its deletion, some time    *)
(* after the fact; what happened in between may be skipped by a relist.    *)
(***************************************************************************)
Deliver(p) ==
    /\ cache[p] # ApiObject(p)
    /\ cache' = [cache EXCEPT ![p] = ApiObject(p)]
    /\ UNCHANGED <<pod, api>>

(***************************************************************************)
(* Start and HasSynced: the store is filled from one list before the       *)
(* plugins run.                                                            *)
(***************************************************************************)
Sync == cache' = [p \in Pods |-> ApiObject(p)] /\ UNCHANGED <<pod, api>>

(***************************************************************************)
(* The annotation of container c, <<>> when there is none.                 *)
(***************************************************************************)
\* Variant: some container's annotation, not the named one's.
FirstAnnotation(a, c) == a[CHOOSE x \in DOMAIN a : a[x] # <<>>]

ContainerAnnotation(a, c) == a[c]

(***************************************************************************)
(* The indexes assumed for container c by annotations a.                   *)
(***************************************************************************)
Assumed(a, c) == {a[c][i] : i \in DOMAIN a[c]}

ASSUME AnnotationsAssumption ==
    \A a \in Annotations :
        /\ a # Nil
        /\ DOMAIN a = Containers
        /\ \A c \in Containers : /\ a[c] \in Seq(GPUs \cup {Bad})
                                /\ Len(a[c]) <= MaxLinks
=============================================================================
