---------------------------- MODULE LocatorProofs ----------------------------
(***************************************************************************)
(* The loop of Locate computes what Found says, for any number of          *)
(* containers, devices and entries in any order.                           *)
(***************************************************************************)
EXTENDS Locator, TLAPS

Entry1 == [res : {Resource, OtherResource}, ids : SUBSET IDs]

FoundAt(c) == Found(perDevice, held[c], request)

SettingInv ==
    /\ perDevice \in BOOLEAN
    /\ held \in [Ks -> SUBSET IDs]
    /\ Exclusive
    /\ answer \in [Ks -> Seq(Entry1)]
    /\ \A c \in Ks : Reports(answer[c], held[c])
    /\ request \in SUBSET IDs /\ request # {}

(***************************************************************************)
(* In the loops: the containers before k do not match, the entries of k    *)
(* before j are not the list, and deviceIds is what they add up to.        *)
(***************************************************************************)
IsMine(c, i) == answer[c][i].res = Resource

ScanInv ==
    /\ k \in 1 .. MaxContainers + 1
    /\ j \in Nat \ {0}
    /\ pc = "scan" => /\ \A c \in Ks : c < k => ~FoundAt(c)
                      /\ k <= MaxContainers =>
                            /\ j <= Len(answer[k]) + 1
                            /\ \A i \in 1 .. j - 1 :
                                   IsMine(k, i) => answer[k][i].ids # request
                            /\ \A d : d \in deviceIds <=>
                                   \E i \in 1 .. j - 1 :
                                       IsMine(k, i) /\ d \in answer[k][i].ids

AnswerInv ==
    /\ result \in 0 .. MaxContainers
    /\ pc = "done" => /\ result # 0 => FoundAt(result)
                      /\ result = 0 => \A c \in Ks : ~FoundAt(c)

LocatorInv == SettingInv /\ ScanInv /\ AnswerInv

-----------------------------------------------------------------------------
(***************************************************************************)
(* What a container's entries say about it.                                *)
(***************************************************************************)
LEMMA EntriesOf ==
    ASSUME SettingInv, NEW c \in Ks
    PROVE  /\ \A i \in 1 .. Len(answer[c]) :
                  IsMine(c, i) => answer[c][i].ids \in Entries(perDevice, held[c])
           /\ \A e \in Entries(perDevice, held[c]) :
                  \E i \in 1 .. Len(answer[c]) : IsMine(c, i) /\ answer[c][i].ids = e
<1>1. Reports(answer[c], held[c]) /\ DOMAIN answer[c] = 1 .. Len(answer[c])
    BY DEF SettingInv
<1> QED
    BY <1>1 DEF Reports, IsMine

LEMMA EntriesAddUp ==
    ASSUME NEW per \in BOOLEAN, NEW devs
    PROVE  \A d : d \in devs <=> \E e \in Entries(per, devs) : d \in e
BY DEF Entries

LEMMA InitLocator == Init => LocatorInv
<1> SUFFICES ASSUME Init PROVE LocatorInv
    OBVIOUS
<1>1. SettingInv
  <2>1. answer \in [Ks -> Seq(Entry1)]
    BY LocatorAssumption DEF Init, Entry1
  <2>2. request \in SUBSET IDs /\ request # {}
    BY DEF Init
  <2>3. /\ perDevice \in BOOLEAN
        /\ held \in [Ks -> SUBSET IDs]
        /\ Exclusive
        /\ \A c \in Ks : Reports(answer[c], held[c])
    BY DEF Init
  <2> QED
    BY <2>1, <2>2, <2>3 DEF SettingInv
<1>2. ScanInv /\ AnswerInv
    BY LocatorAssumption DEF Init, ScanInv, AnswerInv
<1> QED
    BY <1>1, <1>2 DEF LocatorInv

LEMMA SettingKept ==
    ASSUME SettingInv, UNCHANGED setting
    PROVE  SettingInv'
BY DEF SettingInv, setting, Exclusive, Reports

(***************************************************************************)
(* Steps before and after the loops.                                       *)
(***************************************************************************)
LEMMA OutsideLoops ==
    ASSUME LocatorInv, Call \/ Dial \/ List \/ Return \/ KubeletRestarts \/ UNCHANGED vars
    PROVE  LocatorInv'
<1>1. UNCHANGED setting
    BY DEF Call, Dial, List, Return, KubeletRestarts, vars
<1>2. SettingInv'
    BY <1>1, SettingKept DEF LocatorInv
<1>3. CASE Call \/ Dial \/ Return
    BY <1>2, <1>3, LocatorAssumption
       DEF Call, Dial, Return, LocatorInv, ScanInv, AnswerInv
<1>4. CASE List
  <2>1. k' = 1 /\ j' = 1 /\ deviceIds' = {} /\ result' = result /\ pc' # "done"
    BY <1>4 DEF List
  <2>2. 1 \in Ks /\ answer[1] \in Seq(Entry1)
    BY LocatorAssumption DEF LocatorInv, SettingInv, Ks
  <2>3. Len(answer[1]) \in Nat
    BY <2>2
  <2> QED
    BY <1>1, <1>2, <2>1, <2>3, LocatorAssumption
       DEF LocatorInv, ScanInv, AnswerInv, setting, Ks
<1>5. CASE KubeletRestarts \/ UNCHANGED vars
  <2>1. UNCHANGED <<held, answer, request, perDevice, pc, k, j, deviceIds, result>>
    BY <1>5 DEF KubeletRestarts, vars, setting
  <2> QED
    BY <1>2, <2>1 DEF LocatorInv, ScanInv, AnswerInv, FoundAt, IsMine
<1> QED
    BY <1>3, <1>4, <1>5

-----------------------------------------------------------------------------
LEMMA EntryStep ==
    ASSUME LocatorInv, Entry
    PROVE  LocatorInv'
<1>1. /\ UNCHANGED <<held, answer, request, perDevice, k>>
      /\ pc = "scan" /\ k \in Ks /\ j \in 1 .. Len(answer[k])
    BY DEF Entry, Located, setting, LocatorInv, ScanInv, Ks
<1>2. SettingInv'
    BY SettingKept DEF Entry, LocatorInv
<1>3. CASE IsMine(k, j) /\ answer[k][j].ids = request
  <2>1. pc' = "done" /\ result' = k /\ UNCHANGED <<j, deviceIds>>
    BY <1>3 DEF Entry, Located, IsMine
  <2>2. FoundAt(k)
    BY <1>1, <1>3, EntriesOf DEF LocatorInv, FoundAt, Found
  <2>3. AnswerInv'
    BY <1>1, <2>1, <2>2, LocatorAssumption DEF AnswerInv, FoundAt, Ks
  <2>4. ScanInv'
    BY <1>1, <2>1 DEF LocatorInv, ScanInv
  <2> QED
    BY <1>2, <2>3, <2>4 DEF LocatorInv
<1>4. CASE ~(IsMine(k, j) /\ answer[k][j].ids = request)
  <2>1. /\ pc' = pc /\ result' = result /\ j' = j + 1
        /\ deviceIds' = IF IsMine(k, j) THEN deviceIds \cup answer[k][j].ids
                                        ELSE deviceIds
    BY <1>4 DEF Entry, IsMine
  <2>2. Len(answer[k]) \in Nat /\ k <= MaxContainers /\ j \in Nat
    BY <1>1, LocatorAssumption DEF LocatorInv, SettingInv, Ks
  <2>3. \A i \in 1 .. (j + 1) - 1 : IsMine(k, i) => answer[k][i].ids # request
    BY <1>1, <1>4, <2>2 DEF LocatorInv, ScanInv
  <2>4. \A d : d \in deviceIds' <=>
            \E i \in 1 .. (j + 1) - 1 : IsMine(k, i) /\ d \in answer[k][i].ids
    <3>1. \A d : d \in deviceIds <=>
              \E i \in 1 .. j - 1 : IsMine(k, i) /\ d \in answer[k][i].ids
      BY <1>1, <2>2 DEF LocatorInv, ScanInv
    <3>2. \A i : i \in 1 .. (j + 1) - 1 <=> i \in 1 .. j - 1 \/ i = j
      BY <1>1, <2>2
    <3> QED
      BY <2>1, <3>1, <3>2
  <2>5. ScanInv'
    BY <1>1, <2>1, <2>2, <2>3, <2>4 DEF LocatorInv, ScanInv, FoundAt, IsMine
  <2>6. AnswerInv'
    BY <1>1, <2>1 DEF LocatorInv, AnswerInv
  <2> QED
    BY <1>2, <2>5, <2>6 DEF LocatorInv
<1> QED
    BY <1>3, <1>4

(***************************************************************************)
(* After the last entry deviceIds is all that container k holds.           *)
(***************************************************************************)
LEMMA AddedUp ==
    ASSUME LocatorInv, pc = "scan", k \in Ks, j > Len(answer[k])
    PROVE  /\ deviceIds = held[k]
           /\ FoundAt(k) <=> deviceIds = request
<1>1. Len(answer[k]) \in Nat /\ k <= MaxContainers
    BY LocatorAssumption DEF LocatorInv, SettingInv, Ks
<1>2. j - 1 = Len(answer[k])
    BY <1>1 DEF LocatorInv, ScanInv
<1>3. \A d : d \in deviceIds <=>
          \E i \in 1 .. Len(answer[k]) : IsMine(k, i) /\ d \in answer[k][i].ids
    BY <1>1, <1>2 DEF LocatorInv, ScanInv
<1>4. \A d : d \in held[k] <=> \E e \in Entries(perDevice, held[k]) : d \in e
    BY EntriesAddUp DEF LocatorInv, SettingInv
<1>5. deviceIds = held[k]
  <2>1. /\ \A i \in 1 .. Len(answer[k]) :
               IsMine(k, i) => answer[k][i].ids \in Entries(perDevice, held[k])
        /\ \A e \in Entries(perDevice, held[k]) :
               \E i \in 1 .. Len(answer[k]) : IsMine(k, i) /\ answer[k][i].ids = e
    BY EntriesOf DEF LocatorInv
  <2>2. ASSUME NEW d \in deviceIds PROVE d \in held[k]
    BY <1>3, <1>4, <2>1
  <2>3. ASSUME NEW d \in held[k] PROVE d \in deviceIds
    <3>1. PICK e \in Entries(perDevice, held[k]) : d \in e
      BY <1>4
    <3>2. PICK i \in 1 .. Len(answer[k]) : IsMine(k, i) /\ answer[k][i].ids = e
      BY <2>1
    <3> QED
      BY <1>3, <3>1, <3>2
  <2> QED
    BY <2>2, <2>3
<1>6. request \notin Entries(perDevice, held[k])
    BY <1>1, <1>2, EntriesOf DEF LocatorInv, ScanInv
<1> QED
    BY <1>5, <1>6 DEF FoundAt, Found

LEMMA EndStep ==
    ASSUME LocatorInv, EndOfContainer
    PROVE  LocatorInv'
<1>1. /\ UNCHANGED <<held, answer, request, perDevice>>
      /\ pc = "scan" /\ k \in Ks /\ j > Len(answer[k])
    BY DEF EndOfContainer, setting, LocatorInv, ScanInv, Ks
<1>2. SettingInv'
    BY SettingKept DEF EndOfContainer, LocatorInv
<1>3. FoundAt(k) <=> deviceIds = request
    BY <1>1, AddedUp
<1>4. CASE deviceIds = request
  <2>1. pc' = "done" /\ result' = k /\ UNCHANGED <<k, j, deviceIds>>
    BY <1>4 DEF EndOfContainer, Located
  <2>2. AnswerInv'
    BY <1>1, <1>3, <1>4, <2>1, LocatorAssumption DEF AnswerInv, FoundAt, Ks
  <2>3. ScanInv'
    BY <1>1, <2>1 DEF LocatorInv, ScanInv
  <2> QED
    BY <1>2, <2>2, <2>3 DEF LocatorInv
<1>5. CASE deviceIds # request
  <2>1. pc' = pc /\ result' = result /\ k' = k + 1 /\ j' = 1 /\ deviceIds' = {}
    BY <1>5 DEF EndOfContainer, NextContainer
  <2>2. \A c \in Ks : c < k + 1 => ~FoundAt(c)
    BY <1>1, <1>3, <1>5, LocatorAssumption DEF LocatorInv, ScanInv, Ks
  <2>3. \A c \in Ks : Len(answer[c]) \in Nat
    BY DEF LocatorInv, SettingInv
  <2>4. ScanInv'
    BY <1>1, <2>1, <2>2, <2>3, LocatorAssumption
       DEF LocatorInv, ScanInv, FoundAt, IsMine, Ks
  <2>5. AnswerInv'
    BY <1>1, <2>1 DEF LocatorInv, AnswerInv
  <2> QED
    BY <1>2, <2>4, <2>5 DEF LocatorInv
<1> QED
    BY <1>4, <1>5

LEMMA NotFoundStep ==
    ASSUME LocatorInv, NotFound
    PROVE  LocatorInv'
<1>1. /\ UNCHANGED <<held, answer, request, perDevice, k, j>>
      /\ pc = "scan" /\ k > MaxContainers /\ pc' = "done" /\ result' = 0
    BY DEF NotFound, setting
<1>2. SettingInv'
    BY SettingKept DEF NotFound, LocatorInv
<1>3. \A c \in Ks : ~FoundAt(c)
    BY <1>1, LocatorAssumption DEF LocatorInv, ScanInv, Ks
<1> QED
    BY <1>1, <1>2, <1>3, LocatorAssumption DEF LocatorInv, ScanInv, AnswerInv, FoundAt

LEMMA NextLocator == LocatorInv /\ [Next]_vars => LocatorInv'
BY OutsideLoops, EntryStep, EndStep, NotFoundStep DEF Next, Locate

(***************************************************************************)
(* The container that holds exactly the list is the only one that matches, *)
(* because no two containers hold a device in common.                      *)
(***************************************************************************)
LEMMA InvariantImpliesCorrect == LocatorInv => LocateCorrect
<1> SUFFICES ASSUME LocatorInv, pc = "done" PROVE LocateCorrect
    BY DEF LocateCorrect
<1>1. /\ result # 0 => FoundAt(result)
      /\ result = 0 => \A c \in Ks : ~FoundAt(c)
    BY DEF LocatorInv, AnswerInv
<1>2. ASSUME NEW c \in Ks, held[c] = request
      PROVE  result = c
  <2>1. FoundAt(c)
    BY <1>2 DEF FoundAt, Found
  <2>2. result \in Ks /\ FoundAt(result)
    BY <1>1, <2>1, LocatorAssumption DEF LocatorInv, AnswerInv, Ks
  <2>3. request \subseteq held[result]
    BY <2>2 DEF FoundAt, Found, Entries
  <2>4. request # {} /\ Exclusive
    BY DEF LocatorInv, SettingInv
  <2> QED
    BY <1>2, <2>2, <2>3, <2>4 DEF Exclusive
<1> QED
    BY <1>1, <1>2 DEF LocateCorrect, FoundAt

(***************************************************************************)
(* Locate answers with a container that holds the list, whole or as one    *)
(* entry, prefers one that holds exactly the list, and finds nothing only  *)
(* when there is none: for any number of containers and devices, entries   *)
(* in any order, both forms of the answer, failing calls in between.       *)
(***************************************************************************)
THEOREM LocateIsCorrect == Spec => []LocateCorrect
BY InitLocator, NextLocator, InvariantImpliesCorrect, PTL DEF Spec

-----------------------------------------------------------------------------
(***************************************************************************)
(* Type correctness. The bounds of the two loops hold between calls too,   *)
(* and GetClient reads the endpoint that LocalEndpoint puts together as    *)
(* the path it was made from.                                              *)
(***************************************************************************)
LEMMA ClientAddr == Client = [ok |-> TRUE, addr |-> Append(PodResourceRoot, Socket)]
<1> DEFINE path == Append(PodResourceRoot, Socket)
           t == LocalEndpoint(PodResourceRoot, Socket)
<1>1. t.scheme = "unix" /\ t.slashes = 1 /\ t.segs = path
    BY DEF LocalEndpoint, Clean, Text, unixProtocol
<1> HIDE DEF t, path
<1>2. PathOf(t) = path
    BY <1>1 DEF PathOf
<1>3. ParseEndpoint(t) = [protocol |-> "unix", addr |-> path, ok |-> TRUE]
    BY <1>1, <1>2 DEF ParseEndpoint, unixProtocol
<1>4. ParseEndpointWithFallbackProtocol(t, "unix")
          = [protocol |-> "unix", addr |-> path, ok |-> TRUE]
    BY <1>3 DEF ParseEndpointWithFallbackProtocol
<1>5. GetClient(t) = [ok |-> TRUE, addr |-> path]
  <2> DEFINE r == ParseEndpointWithFallbackProtocol(t, unixProtocol)
  <2>1. r.ok = TRUE /\ r.protocol = unixProtocol /\ r.addr = path
      BY <1>4 DEF unixProtocol
  <2> HIDE DEF r
  <2>2. (r.ok /\ r.protocol = unixProtocol) = TRUE
      BY <2>1
  <2>3. [ok |-> r.ok /\ r.protocol = unixProtocol, addr |-> r.addr]
            = [ok |-> TRUE, addr |-> path]
      BY <2>1, <2>2, Zenon
  <2> QED
      BY <2>3 DEF GetClient, r
<1> QED
    BY <1>5 DEF Client, t, path

LEMMA InitTyped == Init => TypeOK
<1> SUFFICES ASSUME Init PROVE TypeOK
    OBVIOUS
<1>1. 1 \in Ks /\ answer[1] \in EntrySeqs
    BY LocatorAssumption DEF Init, Ks
<1>2. Len(answer[1]) \in Nat
    BY <1>1, LocatorAssumption
<1>3. addr \in {<<>>, Append(PodResourceRoot, Socket)} /\ err \in BOOLEAN
    BY ClientAddr DEF Init
<1>4. k \in 1 .. MaxContainers + 1 /\ j \in 1 .. Len(answer[k]) + 1
    BY <1>2, LocatorAssumption DEF Init
<1>5. result \in 0 .. MaxContainers
    BY LocatorAssumption DEF Init
<1> QED
    BY <1>3, <1>4, <1>5 DEF Init, TypeOK

LEMMA NextTyped == TypeOK /\ [Next]_vars => TypeOK'
<1> SUFFICES ASSUME TypeOK, [Next]_vars PROVE TypeOK'
    OBVIOUS
<1>0. \A c \in Ks : /\ Len(answer[c]) \in Nat
                    /\ \A i \in 1 .. Len(answer[c]) : answer[c][i].ids \in SUBSET IDs
  <2> SUFFICES ASSUME NEW c \in Ks
               PROVE  /\ Len(answer[c]) \in Nat
                      /\ \A i \in 1 .. Len(answer[c]) : answer[c][i].ids \in SUBSET IDs
      OBVIOUS
  <2>1. answer[c] \in Seq(Entry1)
      BY LocatorAssumption DEF TypeOK, Entry1
  <2>2. \A i \in 1 .. Len(answer[c]) : answer[c][i] \in Entry1
      BY <2>1
  <2>3. \A e \in Entry1 : e.ids \in SUBSET IDs
      BY DEF Entry1
  <2> QED
      BY <2>1, <2>2, <2>3
<1>1. CASE Call
    BY <1>1 DEF Call, TypeOK, setting
<1>2. CASE Dial
    BY <1>2, ClientAddr DEF Dial, TypeOK, setting
<1>3. CASE List
  <2>1. k' \in 1 .. MaxContainers + 1 /\ j' \in 1 .. Len(answer[k']) + 1
      BY <1>3, <1>0, LocatorAssumption DEF List, Ks
  <2>2. /\ pc' \in {"scan", "failed"} /\ err' \in BOOLEAN /\ broken' \in BOOLEAN
        /\ deviceIds' = {}
        /\ UNCHANGED <<held, answer, request, perDevice, serving, addr, result>>
      BY <1>3 DEF List, TypeOK, setting
  <2> QED
      BY <2>1, <2>2 DEF TypeOK
<1>4. CASE Return
  <2>1. k' \in 1 .. MaxContainers + 1 /\ j' \in 1 .. Len(answer[k']) + 1
      BY <1>4, <1>0, LocatorAssumption DEF Return, Ks
  <2> QED
      BY <1>4, <2>1, LocatorAssumption DEF Return, TypeOK, setting
<1>5. CASE Entry
  <2>1. /\ k \in Ks /\ j \in 1 .. Len(answer[k]) /\ k' = k /\ answer' = answer
        /\ \/ j' = j /\ deviceIds' = deviceIds /\ result' = k /\ pc' = "done"
           \/ /\ j' = j + 1 /\ result' = result /\ pc' = pc
              /\ \/ deviceIds' = deviceIds
                 \/ deviceIds' = deviceIds \cup answer[k][j].ids
      BY <1>5, <1>0, LocatorAssumption DEF Entry, Located, TypeOK, setting, Ks
  <2>2. deviceIds' \in SUBSET IDs
      BY <1>0, <2>1 DEF TypeOK
  <2>3. j' \in 1 .. Len(answer[k]) + 1
      BY <1>0, <2>1
  <2> QED
      BY <1>5, <2>1, <2>2, <2>3, LocatorAssumption DEF Entry, TypeOK, setting, Ks
<1>6. CASE EndOfContainer
  <2>1. /\ k \in Ks /\ answer' = answer
        /\ \/ UNCHANGED <<k, j, deviceIds>> /\ result' = k /\ pc' = "done"
           \/ k' = k + 1 /\ j' = 1 /\ deviceIds' = {} /\ UNCHANGED <<result, pc>>
      BY <1>6, LocatorAssumption DEF EndOfContainer, Located, NextContainer, TypeOK, setting, Ks
  <2>2. k' <= MaxContainers => j' \in 1 .. Len(answer[k']) + 1
      BY <1>0, <2>1, LocatorAssumption DEF TypeOK, Ks
  <2> QED
      BY <1>6, <2>1, <2>2, LocatorAssumption DEF EndOfContainer, TypeOK, setting, Ks
<1>7. CASE NotFound
    BY <1>7, LocatorAssumption DEF NotFound, TypeOK, setting
<1>8. CASE KubeletRestarts
    BY <1>8 DEF KubeletRestarts, TypeOK, setting
<1>9. CASE UNCHANGED vars
    BY <1>9 DEF vars, setting, TypeOK
<1> QED
    BY <1>1, <1>2, <1>3, <1>4, <1>5, <1>6, <1>7, <1>8, <1>9 DEF Next, Locate

(***************************************************************************)
(* Type correctness of Locate: its loop variables stay within the answer   *)
(* and the address is never one other than the kubelet's (pkg/kube         *)
(* NewKubeletDeviceLocator and the second GetClient in Locate).            *)
(***************************************************************************)
THEOREM LocatorTyped == Spec => []TypeOK
BY InitTyped, NextTyped, PTL DEF Spec
=============================================================================
