-------------------------- MODULE GPUShareOperator --------------------------
(***************************************************************************)
(* pkg/operator/gpushare.go: the symbolic links the agent keeps in /dev.   *)
(* Link <<h, i>> is the pair of paths                                      *)
(*     /dev/elastic-gpu-<h>-<i>    -> /dev/nvidia<N>                       *)
(*     /dev/elastic-gpuctl-<h>-<i> -> /dev/nvidiactl                       *)
(* Every operator here is one system call on that pair; Create and Delete  *)
(* are sequences of them, run by the callers (PreStart, GC).               *)
(***************************************************************************)
EXTENDS Device

CONSTANT
    Present     \* the GPUs with a device node /dev/nvidia<N> on this machine

VARIABLES
    sym,        \* sym[id] is the GPU that link id points to, or Nil
    ctl         \* the ids whose control link exists

operatorVars == <<sym, ctl>>

LinkIDs == Hashes \X (0 .. MaxLinks - 1)

OperatorTypeOK ==
    /\ sym \in [LinkIDs -> GPUs \cup {Nil}]
    /\ ctl \subseteq LinkIDs

OperatorInit ==
    /\ sym = [id \in LinkIDs |-> Nil]
    /\ ctl = {}

(***************************************************************************)
(* IsExist calls os.Stat, which follows the link: a link whose target node *)
(* is missing is reported absent.                                          *)
(***************************************************************************)
IsExist(id) == sym[id] \in Present

(***************************************************************************)
(* os.Symlink fails with EEXIST on any existing entry, dangling or not.    *)
(***************************************************************************)
CanSymlink(id) == sym[id] = Nil

Symlink(gpu, id) == sym' = [sym EXCEPT ![id] = gpu] /\ UNCHANGED ctl

(***************************************************************************)
(* The second half of Create: leave an existing control link, else make    *)
(* one. /dev/nvidiactl exists wherever a driver is loaded.                 *)
(***************************************************************************)
SymlinkCtl(id) == ctl' = ctl \cup {id} /\ UNCHANGED sym

(***************************************************************************)
(* The two os.Remove calls of Delete; each fails when its path is absent.  *)
(***************************************************************************)
CanRemoveSym(id) == sym[id] # Nil

RemoveSym(id) == sym' = [sym EXCEPT ![id] = Nil] /\ UNCHANGED ctl

CanRemoveCtl(id) == id \in ctl

RemoveCtl(id) == ctl' = ctl \ {id} /\ UNCHANGED sym

(***************************************************************************)
(* What a directory scan for the prefix elastic-gpu-<h> finds.             *)
(***************************************************************************)
LinksOf(h) == {id \in LinkIDs : id[1] = h /\ sym[id] # Nil}

ASSUME PresentAssumption == Present \subseteq GPUs
=============================================================================
