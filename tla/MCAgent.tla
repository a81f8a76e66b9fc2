------------------------------ MODULE MCAgent ------------------------------
(***************************************************************************)
(* Small instances of Agent for TLC. Each run picks its constants from the *)
(* definitions below in its .cfg file.                                     *)
(***************************************************************************)
EXTENDS Agent, TLC

CONSTANTS h1, h2

MCHandlers == {h1, h2}

HandlerSymmetry == Permutations(MCHandlers)

(***************************************************************************)
(* Device lists. With Percent = 2, Wide stands for two whole cards and     *)
(* gets two links.                                                         *)
(***************************************************************************)
ListA == {1}
ListB == {2}
Wide == {3, 4, 5, 6}

HashName(l) == IF l = ListA THEN "a" ELSE IF l = ListB THEN "b" ELSE "w"

OneList == {ListA}
TwoLists == {ListA, ListB}
WideAndNarrow == {ListA, Wide}

OneHash == [l \in OneList |-> HashName(l)]
TwoHash == [l \in TwoLists |-> HashName(l)]
WideAndNarrowHash == [l \in WideAndNarrow |-> HashName(l)]

(***************************************************************************)
(* Requests: one pod that asks for cores, or two; a pod with cores next to *)
(* a pod with memory; a container that asks for both next to one that asks *)
(* for cores, in another pod or in both; one pod with two containers that  *)
(* ask for cores.                                                          *)
(***************************************************************************)
OnePod == {<<1, "a", "core">>}
CorePods == {<<1, "a", "core">>, <<2, "b", "core">>}
MixedPods == {<<1, "a", "core">>, <<2, "b", "memory">>}
BothResources == {<<1, "a", "core">>, <<1, "a", "memory">>, <<2, "b", "core">>}
SharedBoth == BothResources \cup {<<1, "b", "core">>}
SharedPod == {<<1, "a", "core">>, <<1, "b", "core">>}

(***************************************************************************)
(* Annotations: GPU 0 for container a and 1 for b, or 0 and 1 for a and 2  *)
(* for b. Moved gives a another GPU when its pod is made again: it is for  *)
(* instances outside the limits of the runs (README, section 3).           *)
(***************************************************************************)
OneEach == {[c \in {"a", "b"} |-> IF c = "a" THEN <<0>> ELSE <<1>>]}
Faulty == OneEach \cup
    {[c \in {"a", "b"} |-> IF c = "a" THEN <<9>> ELSE <<1, Bad>>],
     [c \in {"a", "b"} |-> IF c = "a" THEN <<0>> ELSE <<>>]}
Moved == OneEach \cup {[c \in {"a", "b"} |-> <<1>>]}
TwoAndOne == {[c \in {"a", "b"} |-> IF c = "a" THEN <<0, 1>> ELSE <<2>>]}

OwnFaults == {"crash", "timeout", "link", "unlink", "save", "list", "api",
              "hook", "force", "mismatch", "leftover"}
=============================================================================
