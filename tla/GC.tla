-------------------------------- MODULE GC --------------------------------
(***************************************************************************)
(* GPUSharePlugin.GC (pkg/plugins/base.go): the loop that drops the links  *)
(* and the record of pods that no longer exist. It takes no mutex. A round *)
(* starts on a pod deletion or after a minute, scans one snapshot of the   *)
(* database, and then deletes link by link what the scan put on its list.  *)
(***************************************************************************)
EXTENDS PreStart

VARIABLES
    gcpc,       \* where the collector is
    scan,       \* lines of the snapshot not looked at yet
    todo,       \* lines to delete (devicesToDelete), in the order of their keys
    line,       \* the line being deleted, or Nil
    gci         \* the number of the link being deleted

gcVars == <<gcpc, scan, todo, line, gci>>

GCTypeOK ==
    /\ gcpc \in {"wait", "scan", "ask", "next", "sym", "ctl", "record"}
    /\ scan \in SUBSET Lines
    /\ todo \in SUBSET Lines
    /\ line \in Lines \cup {Nil}
    /\ gci \in 0 .. MaxLinks - 1

GCInit ==
    /\ gcpc = "wait"
    /\ scan = {}
    /\ todo = {}
    /\ line = Nil
    /\ gci = 0

GCReset ==
    /\ gcpc' = "wait"
    /\ scan' = {}
    /\ todo' = {}
    /\ line' = Nil
    /\ gci' = 0

outsideGC == <<sitterVars, kubeletVars, preStartVars>>

(***************************************************************************)
(* The pod whose record comes first: bolt iterates in the order of keys.   *)
(***************************************************************************)
First(lines) == CHOOSE p \in {l.pod : l \in lines} :
                    \A l \in lines : p <= l.pod

\* Variant: the lines of all pods, not of one.
LinesOfAny(lines, p) == lines

LinesOf(lines, p) == {l \in lines : l.pod = p}

-----------------------------------------------------------------------------
(***************************************************************************)
(* The select at the top. The filter on the event never applies: informers *)
(* deliver pointers, and the type assertion is on the struct.              *)
(***************************************************************************)
GCStart ==
    /\ gcpc = "wait"
    /\ gcpc' = "scan"
    /\ scan' = ForEach
    /\ UNCHANGED <<todo, line, gci, operatorVars, db, outsideGC>>

(***************************************************************************)
(* First the cache is asked for the pod of a record. Only a miss leads to  *)
(* a request to the API server.                                            *)
(***************************************************************************)
GCScan ==
    /\ gcpc = "scan"
    /\ IF scan = {} THEN gcpc' = "next" /\ UNCHANGED scan
       ELSE IF GetPod(First(scan)) # Nil
       THEN scan' = scan \ LinesOf(scan, First(scan)) /\ UNCHANGED gcpc
       ELSE gcpc' = "ask" /\ UNCHANGED scan
    /\ UNCHANGED <<todo, line, gci, operatorVars, db, outsideGC>>

(***************************************************************************)
(* Every line of a pod the API server does not know is to be deleted; any  *)
(* other answer, an error included, leaves the pod alone.                  *)
(***************************************************************************)
Collectable(p) == ~FoundInApiServer(p)

GCAsk ==
    /\ gcpc = "ask"
    /\ gcpc' = "scan"
    /\ \/ Collectable(First(scan)) /\ todo' = todo \cup LinesOf(scan, First(scan))
       \/ /\ FoundInApiServer(First(scan)) \/ "api" \in Faults
          /\ UNCHANGED todo
    /\ scan' = scan \ LinesOf(scan, First(scan))
    /\ UNCHANGED <<line, gci, operatorVars, db, outsideGC>>

-----------------------------------------------------------------------------
(***************************************************************************)
(* The lines of one pod come from a Go map, in any order.                  *)
(***************************************************************************)
GCNext ==
    /\ gcpc = "next"
    /\ \/ /\ todo = {}
          /\ gcpc' = "wait"
          /\ UNCHANGED <<todo, line>>
       \/ \E l \in LinesOf(todo, First(todo)) :
              /\ line' = l
              /\ todo' = todo \ {l}
              /\ gcpc' = "sym"
    /\ gci' = 0
    /\ UNCHANGED <<scan, operatorVars, db, outsideGC>>

GCLink == <<line.dev.hash, gci>>

(***************************************************************************)
(* An error on link 0 ends the whole round (the break), an error on a      *)
(* later link only this line (the continue): the record stays.             *)
(***************************************************************************)
GCError ==
    /\ line' = Nil
    /\ gci' = 0
    /\ IF gci = 0 THEN gcpc' = "wait" /\ todo' = {}
                  ELSE gcpc' = "next" /\ UNCHANGED todo

GCRemoveSym ==
    /\ gcpc = "sym"
    /\ \/ /\ CanRemoveSym(GCLink)
          /\ RemoveSym(GCLink)
          /\ gcpc' = "ctl"
          /\ UNCHANGED <<todo, line, gci>>
       \/ /\ ~CanRemoveSym(GCLink) \/ "unlink" \in Faults
          /\ GCError
          /\ UNCHANGED operatorVars
    /\ UNCHANGED <<scan, db, outsideGC>>

GCRemoveCtl ==
    /\ gcpc = "ctl"
    /\ \/ /\ CanRemoveCtl(GCLink)
          /\ RemoveCtl(GCLink)
          /\ IF gci < LastLink(line.dev) THEN gci' = gci + 1 /\ gcpc' = "sym"
                                         ELSE gci' = 0 /\ gcpc' = "record"
          /\ UNCHANGED <<todo, line>>
       \/ /\ ~CanRemoveCtl(GCLink) \/ "unlink" \in Faults
          /\ GCError
          /\ UNCHANGED operatorVars
    /\ UNCHANGED <<scan, db, outsideGC>>

(***************************************************************************)
(* The whole record of the pod goes, by name, with the first line done.    *)
(***************************************************************************)
\* Variant: the links are removed, the record is not.
GCRecordKept ==
    /\ gcpc = "record"
    /\ UNCHANGED db
    /\ gcpc' = "next"
    /\ line' = Nil
    /\ UNCHANGED <<scan, todo, gci, operatorVars, outsideGC>>

GCDeleteRecord ==
    /\ gcpc = "record"
    /\ DeleteRecord(line.pod) \/ ("save" \in Faults /\ UNCHANGED db)
    /\ gcpc' = "next"
    /\ line' = Nil
    /\ UNCHANGED <<scan, todo, gci, operatorVars, outsideGC>>

GCStep ==
    \/ GCStart \/ GCScan \/ GCAsk \/ GCNext
    \/ GCRemoveSym \/ GCRemoveCtl \/ GCDeleteRecord
=============================================================================
