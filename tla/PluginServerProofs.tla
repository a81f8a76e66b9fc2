------------------------- MODULE PluginServerProofs -------------------------
(***************************************************************************)
(* Proofs about module PluginServer, for any number of kubelet restarts.   *)
(***************************************************************************)
EXTENDS PluginServer, TLAPS

(***************************************************************************)
(* Every creation of kubelet.sock comes from one start of the kubelet, a   *)
(* start under way has not led to its creation yet.                        *)
(***************************************************************************)
Pending == IF kubelet = "starting" THEN events + 1 ELSE events

CountInv == Pending <= starts

(***************************************************************************)
(* An old listener is closed before the loop serves again.                 *)
(***************************************************************************)
ClosingInv == closing => pc \in {"sleep", "stopped"}

(***************************************************************************)
(* From Register on the socket file can only be missing because a starting *)
(* kubelet removed it, and then an event is to come or has come.           *)
(***************************************************************************)
SocketInv ==
    pc \in {"register", "send", "select"}
    => sock = "current" \/ kubelet = "starting" \/ events > 0

(***************************************************************************)
(* In the select, a kubelet that is up is connected or has a registration  *)
(* to act on, or the loop has something to receive.                        *)
(***************************************************************************)
SelectInv ==
    /\ accepted => kubelet = "up"
    /\ pc = "select" => \/ errs > 0
                        \/ events > 0
                        \/ kubelet # "up"
                        \/ accepted
                        \/ connected = "current"

ServerInv == TypeOK /\ CountInv /\ ClosingInv /\ SocketInv /\ SelectInv

LEMMA InitServer == Init => ServerInv
<1> SUFFICES ASSUME Init PROVE ServerInv
    OBVIOUS
<1>1. 0 \in 0 .. ErrChanSize /\ 0 \in 0 .. MaxKubeletStarts
    BY StartsAssumption DEF ErrChanSize
<1>2. TypeOK
    BY <1>1 DEF Init, TypeOK, Servers
<1>3. CountInv
    BY DEF Init, CountInv, Pending
<1>4. ClosingInv /\ SocketInv /\ SelectInv
    BY DEF Init, ClosingInv, SocketInv, SelectInv
<1> QED
    BY <1>2, <1>3, <1>4 DEF ServerInv

LEMMA LoopServer ==
    ASSUME ServerInv, Run \/ Stop
    PROVE  ServerInv'
<1> USE StartsAssumption
    DEF ServerInv, CountInv, Pending, ClosingInv, SocketInv, SelectInv, kubeletVars,
        ErrChanSize, Servers, Aged
<1>1. CASE Watch
    BY <1>1 DEF Watch, TypeOK
<1>2. CASE StopOldServer
    BY <1>2 DEF StopOldServer, TypeOK
<1>3. CASE Serve
    BY <1>3 DEF Serve, TypeOK
<1>4. CASE Wait
    BY <1>4 DEF Wait, Restart, TypeOK
<1>5. CASE Register
    BY <1>5 DEF Register, TypeOK
<1>6. CASE SendError
    BY <1>6 DEF SendError, TypeOK
<1>7. CASE ReceiveError
    BY <1>7 DEF ReceiveError, Restart, TypeOK
<1>8. CASE ReceiveKubeletSocket
    BY <1>8 DEF ReceiveKubeletSocket, Restart, TypeOK
<1>9. CASE Stop
    BY <1>9 DEF Stop, TypeOK
<1>10. CASE ListenFails
    BY <1>10 DEF ListenFails, TypeOK
<1> QED
    BY <1>1, <1>2, <1>3, <1>4, <1>5, <1>6, <1>7, <1>8, <1>9, <1>10 DEF Run

LEMMA KubeletServer ==
    ASSUME ServerInv,
           KubeletStop \/ KubeletStart \/ KubeletListen \/ KubeletConnect \/ ListAndWatch
    PROVE  ServerInv'
<1> USE StartsAssumption
    DEF ServerInv, CountInv, Pending, ClosingInv, SocketInv, SelectInv, pluginVars,
        ErrChanSize, Servers
<1>1. CASE KubeletStop
    BY <1>1 DEF KubeletStop, TypeOK
<1>2. CASE KubeletStart
    BY <1>2 DEF KubeletStart, TypeOK
<1>3. CASE KubeletListen
    BY <1>3 DEF KubeletListen, TypeOK
<1>4. CASE KubeletConnect
    BY <1>4 DEF KubeletConnect, TypeOK
<1>5. CASE ListAndWatch
    BY <1>5 DEF ListAndWatch, TypeOK
<1> QED
    BY <1>1, <1>2, <1>3, <1>4, <1>5

LEMMA NextServer == ServerInv /\ [Next]_vars => ServerInv'
<1> SUFFICES ASSUME ServerInv, [Next]_vars PROVE ServerInv'
    OBVIOUS
<1>1. CASE UNCHANGED vars
    BY <1>1 DEF vars, pluginVars, kubeletVars, ServerInv, TypeOK, CountInv, Pending,
                ClosingInv, SocketInv, SelectInv
<1> QED
    BY <1>1, LoopServer, KubeletServer DEF Next

(***************************************************************************)
(* No lost wake-up, however often the kubelet restarts: a DevicePluginServer*)
(* that rests in its select is connected to the kubelet that is up.        *)
(***************************************************************************)
THEOREM NoLostWakeUp == Spec => []QuietMeansRegistered
<1>1. ServerInv => QuietMeansRegistered
    BY DEF ServerInv, SocketInv, SelectInv, QuietMeansRegistered
<1> QED
    BY <1>1, InitServer, NextServer, PTL DEF Spec

(***************************************************************************)
(* errChan never holds more than its one error, and no event is counted    *)
(* that no start of the kubelet caused.                                    *)
(***************************************************************************)
THEOREM ServerTypes == Spec => []TypeOK
<1>1. ServerInv => TypeOK
    BY DEF ServerInv
<1> QED
    BY <1>1, InitServer, NextServer, PTL DEF Spec
=============================================================================
