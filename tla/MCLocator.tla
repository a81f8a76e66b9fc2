----------------------------- MODULE MCLocator -----------------------------
(***************************************************************************)
(* Every holding of three devices by at most two containers, reported in   *)
(* every order, with and without an entry of the other resource.           *)
(***************************************************************************)
EXTENDS Locator, SequencesExt

Root == <<"var", "lib", "kubelet", "pod-resources">>

Others == {{}, {[res |-> OtherResource, ids |-> {1}]}}

MCEntrySeqs ==
    UNION {SetToSeqs({[res |-> Resource, ids |-> e] : e \in Entries(per, devs)}
                         \cup other) :
              per \in BOOLEAN, devs \in SUBSET IDs, other \in Others}
=============================================================================
