----------------------------- MODULE GPUAccess -----------------------------
(***************************************************************************)
(* What scheduler, agent, kubelet and hook promise together, without links,*)
(* records, caches and handlers: the scheduler grants GPUs to the          *)
(* containers of a pod, and a container uses, from its start to its end,   *)
(* one fixed set of GPUs granted to it. A grant is not replaced while a    *)
(* container of the pod uses GPUs.                                         *)
(***************************************************************************)
CONSTANTS
    Pods,
    Containers,
    PodContainers,  \* the <<pod, container>> pairs that use GPUs
    Indexes         \* indexes of GPUs

VARIABLES
    granted,    \* granted[p][c]: the GPUs granted to container c of pod p
    use         \* use[ct]: the GPUs container ct uses

accessVars == <<granted, use>>

AccessInit ==
    /\ granted = [p \in Pods |-> [c \in Containers |-> {}]]
    /\ use = [ct \in PodContainers |-> {}]

Grant(p) ==
    /\ \A ct \in PodContainers : ct[1] = p => use[ct] = {}
    /\ granted' \in [Pods -> [Containers -> SUBSET Indexes]]
    /\ \A q \in Pods \ {p} : granted'[q] = granted[q]
    /\ UNCHANGED use

BeginUse(ct) ==
    /\ use[ct] = {}
    /\ \E gpus \in SUBSET granted[ct[1]][ct[2]] : use' = [use EXCEPT ![ct] = gpus]
    /\ UNCHANGED granted

EndUse(cts) ==
    /\ use' = [ct \in PodContainers |-> IF ct \in cts THEN {} ELSE use[ct]]
    /\ UNCHANGED granted

AccessNext ==
    \/ \E p \in Pods : Grant(p)
    \/ \E ct \in PodContainers : BeginUse(ct)
    \/ \E cts \in SUBSET PodContainers : EndUse(cts)

AccessSpec == AccessInit /\ [][AccessNext]_accessVars
=============================================================================
