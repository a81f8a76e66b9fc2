------------------------------- MODULE Device -------------------------------
(***************************************************************************)
(* The values the agent works with: a list of virtual device IDs handed    *)
(* out by the kubelet, the Device it is turned into (pkg/types/device.go), *)
(* and the numbered links that stand for it under /dev.                    *)
(*                                                                         *)
(* NewDevice sorts a copy of the list before it hashes it, and the kubelet *)
(* never repeats an ID, so a list is represented by the set of its IDs.    *)
(* The hash is the first 8 hexadecimal digits of a SHA-256 sum; it is an   *)
(* arbitrary function of the list here, collisions included, and does not  *)
(* depend on the resource.                                                 *)
(***************************************************************************)
EXTENDS Integers, FiniteSets

CONSTANTS
    Pods,       \* pod names, as numbers in the order of their bolt keys
    Containers, \* container names
    GPUs,       \* the GPU indexes an annotation may name
    Nil,        \* no link, no device, no pod: absence of a value
    Lists,      \* the device lists the kubelet may hand out
    Hashes,     \* the hash values
    Hash,       \* Hash[l] names the links of list l
    Percent,    \* devices that make up one card: the literal 100
    MaxLinks    \* bound on the number of links of one device list

Resources == {"core", "memory"}

(***************************************************************************)
(* NewDevice: what the agent stores and passes around for a list.          *)
(***************************************************************************)
Devices == [hash : Hashes, list : Lists, res : Resources]

NewDevice(l, r) == [hash |-> Hash[l], list |-> l, res |-> r]

(***************************************************************************)
(* The links Allocate announces to the container runtime: one per whole    *)
(* card for more than Percent core devices, otherwise link 0 alone.        *)
(***************************************************************************)
CoreLinks(l) ==
    IF Cardinality(l) > Percent THEN 0 .. (Cardinality(l) \div Percent) - 1
                                ELSE {0}

AllocateLinks(l, r) == IF r = "core" THEN CoreLinks(l) ELSE {0}

(***************************************************************************)
(* The number of the last link the garbage collector removes for a stored  *)
(* device: it removes link 0 first and counts up to this one.              *)
(***************************************************************************)
\* Variant: only link 0 of a device is removed.
LastLinkNone(d) == 0

LastLink(d) ==
    IF d.res = "core" /\ Cardinality(d.list) > Percent
    THEN (Cardinality(d.list) \div Percent) - 1 ELSE 0

GCLinks(d) == 0 .. LastLink(d)

ASSUME ListsAssumption ==
    \A l \in Lists : IsFiniteSet(l) /\ l # {}

ASSUME NamesAssumption ==
    /\ Pods \subseteq Nat
    /\ Nil \notin GPUs
    /\ Nil \notin Devices
    /\ Nil \notin Pods \X Containers

ASSUME HashAssumption == Hash \in [Lists -> Hashes]

ASSUME BoundsAssumption ==
    /\ Percent \in Nat \ {0}
    /\ MaxLinks \in Nat \ {0}
    /\ \A l \in Lists : Cardinality(l) \div Percent <= MaxLinks
=============================================================================
