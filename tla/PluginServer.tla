---------------------------- MODULE PluginServer ----------------------------
(***************************************************************************)
(* DevicePluginServer (pkg/plugins/base.go): the loop that keeps one       *)
(* device plugin served on its socket and registered with a kubelet that   *)
(* comes and goes. Every restart of the loop makes a new gRPC server; the  *)
(* model tells the current server from all earlier ones.                   *)
(*                                                                         *)
(* The kubelet is external. When it starts it empties the directory of     *)
(* plugin sockets, then creates its own socket there, which is the event   *)
(* the loop watches for; after a registration it connects to the plugin's  *)
(* socket on its own.                                                      *)
(***************************************************************************)
EXTENDS Integers

CONSTANT
    MaxKubeletStarts    \* bound on the starts of the kubelet

VARIABLES
    pc,         \* where Run is
    errs,       \* errors waiting in errChan
    events,     \* creations of kubelet.sock not yet read from the watcher
    closing,    \* the stop goroutine has not closed the old listener yet
    sock,       \* the server the plugin's socket file leads to
    kubelet,    \* "down", "starting" (directory emptied) or "up"
    starts,     \* how often the kubelet has started
    accepted,   \* a registration the kubelet has not acted on yet
    connected,  \* the server the kubelet is connected to
    listed      \* that server has told the kubelet its devices

pluginVars == <<pc, errs, events, closing, sock>>
kubeletVars == <<kubelet, starts, accepted, connected, listed>>
vars == <<pluginVars, kubeletVars>>

ErrChanSize == 1

Servers == {"none", "old", "current"}

TypeOK ==
    /\ pc \in {"watch", "sleep", "wait", "register", "send", "select", "stopped"}
    /\ errs \in 0 .. ErrChanSize
    /\ events \in 0 .. MaxKubeletStarts
    /\ closing \in BOOLEAN
    /\ sock \in Servers
    /\ kubelet \in {"down", "starting", "up"}
    /\ starts \in 0 .. MaxKubeletStarts
    /\ accepted \in BOOLEAN
    /\ connected \in Servers
    /\ listed \in BOOLEAN

Init ==
    /\ pc = "watch"
    /\ errs = 0
    /\ events = 0
    /\ closing = FALSE
    /\ sock = "none"
    /\ kubelet = "down"
    /\ starts = 0
    /\ accepted = FALSE
    /\ connected = "none"
    /\ listed = FALSE

-----------------------------------------------------------------------------
(***************************************************************************)
(* NewFSWatcher comes first, so that no creation of kubelet.sock after the *)
(* first registration is missed; without a watcher the process ends.       *)
(***************************************************************************)
Watch ==
    /\ pc = "watch"
    /\ pc' \in {"sleep", "stopped"}
    /\ UNCHANGED <<errs, events, closing, sock, kubeletVars>>

Aged(s) == IF s = "current" THEN "old" ELSE s

(***************************************************************************)
(* The label restart: close(stoChan) wakes the stop goroutine of the       *)
(* current server, which is an old one from here on.                       *)
(***************************************************************************)
Restart ==
    /\ pc' = "sleep"
    /\ closing' = TRUE
    /\ sock' = Aged(sock)
    /\ connected' = Aged(connected)

(***************************************************************************)
(* GracefulStop closes the listener, and closing a Unix listener unlinks   *)
(* its path, whatever file is there by then. Run sleeps for a second       *)
(* before it serves again; that this is long enough is an assumption, the  *)
(* guard of Serve.                                                         *)
(***************************************************************************)
StopOldServer ==
    /\ closing
    /\ closing' = FALSE
    /\ sock' = "none"
    /\ UNCHANGED <<pc, errs, events, kubeletVars>>

Serve ==
    /\ pc = "sleep"
    /\ ~closing
    /\ pc' = "wait"
    /\ sock' = "current"
    /\ UNCHANGED <<errs, events, closing, kubeletVars>>

(***************************************************************************)
(* Serve removes the socket file first; a net.Listen that fails then is a  *)
(* panic, which ends the process and with it every connection.             *)
(***************************************************************************)
ListenFails ==
    /\ pc = "sleep"
    /\ ~closing
    /\ pc' = "stopped"
    /\ sock' = "none"
    /\ connected' = "none"
    /\ listed' = FALSE
    /\ UNCHANGED <<errs, events, closing, kubelet, starts, accepted>>

(***************************************************************************)
(* Wait dials the plugin's own socket; a failure restarts the loop.        *)
(***************************************************************************)
Wait ==
    /\ pc = "wait"
    /\ IF sock = "current"
       THEN pc' = "register" /\ UNCHANGED <<closing, sock, connected>>
       ELSE Restart
    /\ UNCHANGED <<errs, events, kubelet, starts, accepted, listed>>

Register ==
    /\ pc = "register"
    /\ IF kubelet = "up" THEN pc' = "select" /\ accepted' = TRUE
                         ELSE pc' = "send" /\ UNCHANGED accepted
    /\ UNCHANGED <<errs, events, closing, sock, kubelet, starts, connected, listed>>

(***************************************************************************)
(* errChan <- err blocks while the channel is full.                        *)
(***************************************************************************)
\* Variant: the channel has no limit.
SendUnchecked ==
    /\ pc = "send"
    /\ errs' = errs + 1
    /\ pc' = "select"
    /\ UNCHANGED <<events, closing, sock, kubeletVars>>

SendError ==
    /\ pc = "send"
    /\ errs < ErrChanSize
    /\ errs' = errs + 1
    /\ pc' = "select"
    /\ UNCHANGED <<events, closing, sock, kubeletVars>>

(***************************************************************************)
(* The cases of the select. Events other than the creation of kubelet.sock *)
(* are read and dropped.                                                   *)
(***************************************************************************)
ReceiveError ==
    /\ pc = "select"
    /\ errs > 0
    /\ errs' = errs - 1
    /\ Restart
    /\ UNCHANGED <<events, kubelet, starts, accepted, listed>>

\* Variant: the creation of kubelet.sock is read and dropped.
IgnoreKubeletSocket ==
    /\ pc = "select"
    /\ events > 0
    /\ events' = events - 1
    /\ UNCHANGED <<pc, errs, closing, sock, kubeletVars>>

ReceiveKubeletSocket ==
    /\ pc = "select"
    /\ events > 0
    /\ events' = events - 1
    /\ Restart
    /\ UNCHANGED <<errs, kubelet, starts, accepted, listed>>

Stop ==
    /\ pc = "select"
    /\ pc' = "stopped"
    /\ closing' = TRUE
    /\ sock' = Aged(sock)
    /\ connected' = Aged(connected)
    /\ UNCHANGED <<errs, events, kubelet, starts, accepted, listed>>

-----------------------------------------------------------------------------
KubeletStop ==
    /\ kubelet = "up"
    /\ kubelet' = "down"
    /\ accepted' = FALSE
    /\ connected' = "none"
    /\ listed' = FALSE
    /\ UNCHANGED <<pluginVars, starts>>

KubeletStart ==
    /\ kubelet = "down"
    /\ starts < MaxKubeletStarts
    /\ kubelet' = "starting"
    /\ starts' = starts + 1
    /\ sock' = "none"
    /\ UNCHANGED <<pc, errs, events, closing, accepted, connected, listed>>

KubeletListen ==
    /\ kubelet = "starting"
    /\ kubelet' = "up"
    /\ events' = IF pc = "watch" THEN events ELSE events + 1
    /\ UNCHANGED <<pc, errs, closing, sock, starts, accepted, connected, listed>>

(***************************************************************************)
(* The kubelet dials the socket of a registered plugin once; without       *)
(* success it forgets the registration.                                    *)
(***************************************************************************)
KubeletConnect ==
    /\ accepted
    /\ accepted' = FALSE
    /\ connected' = sock
    /\ listed' = FALSE
    /\ UNCHANGED <<pluginVars, kubelet, starts>>

(***************************************************************************)
(* ListAndWatch sends the devices once and then waits for the stream to    *)
(* end. A server that is being stopped may refuse the call, which ends the *)
(* connection.                                                             *)
(***************************************************************************)
ListAndWatch ==
    /\ connected # "none"
    /\ ~listed
    /\ \/ listed' = TRUE /\ UNCHANGED connected
       \/ connected = "old" /\ connected' = "none" /\ UNCHANGED listed
    /\ UNCHANGED <<pluginVars, kubelet, starts, accepted>>

Run ==
    \/ Watch \/ StopOldServer \/ Serve \/ ListenFails \/ Wait \/ Register \/ SendError
    \/ ReceiveError \/ ReceiveKubeletSocket

Next ==
    \/ Run \/ Stop
    \/ KubeletStop \/ KubeletStart \/ KubeletListen \/ KubeletConnect
    \/ ListAndWatch

Spec == Init /\ [][Next]_vars

(***************************************************************************)
(* The loop and the stop goroutine are scheduled, and the kubelet finishes *)
(* what it starts. Nothing makes it start, stop or stay.                   *)
(***************************************************************************)
FairSpec ==
    /\ Spec
    /\ WF_vars(Watch)
    /\ WF_vars(StopOldServer)
    /\ WF_vars(Serve \/ Wait \/ Register \/ SendError)
    /\ WF_vars(ReceiveError \/ ReceiveKubeletSocket)
    /\ WF_vars(KubeletListen)
    /\ WF_vars(KubeletConnect)
    /\ WF_vars(ListAndWatch)

-----------------------------------------------------------------------------
(***************************************************************************)
(* No lost wake-up: when Run rests in its select with nothing to receive,  *)
(* a kubelet that is up and has nothing left to do is connected to the     *)
(* current server, and the socket file is in place.                        *)
(***************************************************************************)
QuietMeansRegistered ==
    /\ pc = "select"
    /\ errs = 0
    /\ events = 0
    /\ kubelet = "up"
    /\ ~accepted
    /\ connected # "none" => listed
    => connected = "current" /\ sock = "current"

(***************************************************************************)
(* The resource gets registered: once the kubelet stays up, it is in the   *)
(* end connected to the current server for good and knows its devices (or  *)
(* the agent is told to stop).                                             *)
(***************************************************************************)
Served == connected = "current" /\ listed

EventuallyRegistered ==
    <>[](kubelet = "up") => <>[]Served \/ <>(pc = "stopped")

(***************************************************************************)
(* However often the kubelet restarts, only one thing can keep the         *)
(* resource from being registered: Run blocked on the second error it puts *)
(* into errChan.                                                           *)
(***************************************************************************)
RegisteredUnlessBlocked ==
    <>[](kubelet = "up") =>
        <>[]Served \/ <>(pc = "stopped") \/ <>[](pc = "send" /\ errs = ErrChanSize)

ASSUME StartsAssumption == MaxKubeletStarts \in Nat \ {0}
=============================================================================
