---------------------------- MODULE PodResources ----------------------------
(***************************************************************************)
(* The answer of the kubelet's pod-resources service, as the locator       *)
(* (pkg/kube/locator.go) relies on it. Up to Kubernetes 1.20 a container   *)
(* has one entry per resource with all device IDs, from 1.21 on one entry  *)
(* per device ID.                                                          *)
(***************************************************************************)
(***************************************************************************)
(* The ID sets of the entries of a container that holds the devices held.  *)
(***************************************************************************)
Entries(perDevice, held) ==
    IF perDevice THEN {{d} : d \in held} ELSE {held} \ {{}}

(***************************************************************************)
(* What Locate accepts: a container one of whose entries is the list, or   *)
(* whose entries add up to it.                                             *)
(***************************************************************************)
Found(perDevice, held, l) == l \in Entries(perDevice, held) \/ l = held
=============================================================================
