# TLA+ specification of elastic-gpu-agent

The agent runs on every GPU node of a Kubernetes cluster. It offers the
resources *gpu-core* (100 devices per card) and *gpu-memory* (one device per
MiB) to the kubelet, and turns the choice of GPUs that the scheduler wrote into
the pod's annotations into symbolic links under `/dev`, which a container
runtime hook follows to decide which GPUs the container may use. This directory
models that life cycle, checks it with TLC and proves its central properties with
TLAPS.

Run a check with `tlc -config <run>.cfg <module>` and a proof with
`tlapm <module>.tla`.

## 1. The system

| Component | State | Operations | Source |
|---|---|---|---|
| PreStartContainer of the core and memory plugin | one mutex per plugin; locals of every running handler | locate the container, read its annotation, create links, load and save the record, roll back | `pkg/plugins/gpushare.go` |
| Allocate | none | announce the link paths and the hash of a device list | `pkg/plugins/gpushare.go` |
| Link operator | the links in `/dev` | Create, Delete (Check is unused) | `pkg/operator/gpushare.go` |
| Storage | bolt database: pod -> container -> device | Save, Load, LoadOrCreate, Delete, ForEach | `pkg/storage`, `pkg/types/pod.go` |
| Device | none | NewDevice, Equals, hash | `pkg/types/device.go` |
| Sitter | informer cache of the node's pods | GetPod, GetPodFromApiServer, HasSynced | `pkg/kube/sitter.go` |
| Locator, pod-resources client | client connection, its address and the last error | Locate; from a socket path to the address dialled | `pkg/kube/locator.go`, `pkg/podresources/client.go` |
| Garbage collector | list of lines to delete, `gcChan` | wait for a deletion or the timer, scan the records, delete links and records of pods that are gone | `pkg/plugins/base.go` |
| Plugin server | gRPC server, socket file, error channel, file watcher | Run, Serve, Wait, Register, ListAndWatch | `pkg/plugins/base.go` |
| Pre-start hook | none | read `/dev`, follow the links of a hash, hand their targets to the NVIDIA toolkit | `cmd/elastic-gpu-hook` |
| Manager | the process, the lock of the database file | start-up order, delete hook, end of the process | `cmd/main.go`, `pkg/manager` |
| Device discovery | none | cards and their memory, turned into devices | `pkg/operator/base.go` |

How they interact. The kubelet calls Allocate at admission and PreStartContainer
before each container start; handlers run concurrently, also after the kubelet
has stopped waiting for them. A handler asks the kubelet's pod-resources service
(Locator) whose devices it is starting, takes the pod from the informer cache
(Sitter), and works on the links and the database. The collector works on the
same links and the same database, in a goroutine of its own and without a mutex.
The hook reads the links from outside the agent. A second agent process may be
started before the first has ended; the lock of the database file is between them.
Links and database survive a crash; everything else is lost. The two plugins share links, database and hash
values, but neither mutex nor socket.

What is hard about it: two mutexes for one database; a record read and written in
two transactions; links and record changed in separate steps, each of which can
fail or be the last before a crash; a collector that decides on a snapshot and
acts later, by name; a cache that lags; handlers that come back late; a delete
handler that blocks on a channel with one slot; errors kept or lost on the way; and
links that are identified by a hash of device IDs which the kubelet hands out again.

What makes it correct: a container uses the GPUs assumed for it and no others
(isolation); as long as it runs, its record and its links stay; what is left
behind by a pod is found and removed; one process at a time works on links and
records; all resources of the node are offered, and the plugins stay registered with
a kubelet that comes and goes.

### Not modelled

* `pkg/podresources/server.go` is a copy of the kubelet's own service that nothing
  starts, and `v1alpha1/api.pb.go` is generated; what the service answers is stated in
  `PodResources`.
* `plugins/plugin.go` is an earlier, unused copy of the plugin server;
  `plugins/nvidia.go` and `operator/nvidia.go` are commented out.
* `DumpSignal` and `DumpStacks` write a file for diagnosis; flags, texts of
  configuration and log output have no effect on the state.
* Functions without a caller: `Check`, `Close` and `List` of the locator,
  `xmountSgpuDev` and `getNVidiaDevMinorAndIndexMapping` of the hook.
* The mount tool and the installation script under `tools/`.

## 2. Modules

| Module | Models |
|---|---|
| `Device` | device lists, hashes, the numbers of links that Allocate announces and the collector removes |
| `GPUShareOperator` | links: `sym[<<hash, i>>]` is the GPU of link *i*, `ctl` the control links; one operator per system call |
| `Storage` | `db[pod][container]` |
| `Sitter` | `pod` (the newest object of a name), `api` (what the API server holds), `cache` |
| `Kubelet` | the external side: device assignment, start and end of containers; and the hook step by step: `names` are the links it has found and not followed yet, `seen` the GPUs it has found, which the container uses from then on |
| `PodResources` | what the kubelet's listing looks like before and after Kubernetes 1.21, and what Locate accepts |
| `PreStart` | PreStartContainer, one handler per member of `Handlers`; `pc[h]` is the next call that touches shared state |
| `GC` | one round of the collector |
| `Agent` | the composition, crash and restart, the faults, all properties |
| `GPUAccess` | abstract: GPUs are granted to containers, and a container uses a fixed set of granted GPUs from start to end |
| `Manager` | the life of agent processes: start-up, database lock, discovery, informer, `gcChan`, the collector's select; its rounds and the handlers, one file system call or transaction per step |
| `PluginServer` | the registration loop against a kubelet that starts and stops |
| `PodResourcesClient` | the endpoint text, how it is cleaned and parsed, and the address that results |
| `Locator` | the loop of Locate, entry by entry, with its reconnection through `PodResourcesClient` |
| `MCAgent`, `MCLocator`, `MCManager` | instances for TLC |
| `AgentProofs`, `IsolationProofs`, `AccessProofs`, `RecordProofs`, `LinkProofs` | theorems about `Agent`; each extends the one it builds on |
| `PluginServerProofs`, `LocatorProofs`, `ManagerProofs` | theorems about these modules |

`Device` is extended by `GPUShareOperator`, `Storage` and `Sitter`, these by
`Kubelet`, and so on through `PreStart` and `GC` up to `Agent`. `Manager` stands beside it: it
has several processes, which may end between any two writes, and the triggers of the
collector in all detail. Handlers and rounds have the steps of `PreStart` and `GC`, with
less data: a pod has one container, whose hash nobody else has, links exist or do not
(`sym`, `ctl`) and have no target, there is one handler per pod at a time (those of
different pods may overlap), and no lookup or link call fails but on a link that is not
there. Save and Storage.Delete may fail (`save`, `drop`). `OneAgent` is what
entitles `Agent` to speak of one process. A module keeps
the names of the code. A definition introduced as *Variant* is a plausible
mistake in the definition after it; it is used only to show that a property
notices the mistake.

How the data are abstracted. A device list is the set of its IDs: the code sorts a
copy before it hashes or compares, and the kubelet does not repeat IDs. The hash
is any function of the list; that it ignores the resource is kept. An annotation
is a sequence of GPU indexes per container, with `Bad` for text that is not a
number and `<<>>` for a missing annotation. Pods are numbers, in the order of
their database keys. 100 is the constant `Percent`.

How the control is kept. Each action is the code between two accesses to shared
state: the stat, the two symlink calls and the two removals are separate steps,
as are loading and saving the record and the collector's question to the cache
and to the API server. The mutex of a plugin is held where some handler's `pc` is
in `Critical`. The order of early returns, the rollback that runs when Save fails
and the success that is answered nevertheless, the `break` and the `continue` of
the collector are the code's. The hook reads the directory in one step and every link
in a step of its own; a link that is gone by then ends it. One pair of calls is one
step: the stat and the symlink of a control link, so that a control link which appears
between them shows only as the failure `link` of the symlink. In `PluginServer` the server is not served again before its last
instance has closed (`~closing` in Serve): the code sleeps a second in place of waiting
for it. A Listen that fails panics and ends the process (`ListenFails`).

Refinement. `Agent!ImplementsGPUAccess` is the specification of `GPUAccess` under the
mapping *granted* = the indexes assumed in the annotations, *use* = `seen` of running
containers. It says more than `NoForeignGPU`: the set a container uses never changes
while it runs, whatever happens to the links, and no grant is replaced under it.

Faults. `Faults` selects what may go wrong in a behaviour (list at the top of
`Agent`). Most are failures; the last four describe when the kubelet may hand out
a device list again: while records (`leftover`), links (`leaked`), handlers
(`late`) or another owner (`collide`) with its hash are around. The kubelet knows
nothing of hashes, so all of these can happen; each run and theorem says which
ones it excludes.

## 3. Runs

| Run | Shows |
|---|---|
| `agent_faults` | two pods, one list, all failures: `NoForeignGPU`; the refinement of `GPUAccess` (`ImplementsGPUAccess`); and the collector drops only records of pods that are gone at that moment (`RecordRemovalJustified`) |
| `agent_restart` | two containers of one pod, crashes, late handlers, failing links, lookups and hooks, faulty annotations: no running container loses its entry in the shared record (`RunningRecorded`) |
| `agent_both` | a pod with a container that has both resources and one that has cores, next to another pod, crashes and failing saves: `NoForeignGPU`, `RunningLinked`, `RunningRecorded` |
| `agent_calm` | two pods, one with two links, no faults: all the assumed GPUs are seen (`SeesAllAssumed`) and no link is out of the collector's reach (`LinksAccounted`); under fairness containers start (`ContainerStarts`), records (`GoneCollected`) and links (`AllLinksRemoved`) of pods that are gone disappear |
| `plugin_server` | up to four kubelet starts: Run never rests unregistered in its select (`QuietMeansRegistered`), and only its own full error channel can keep it from being registered and listed when the kubelet stays (`RegisteredUnlessBlocked`) |
| `locator` | Locate against its definition, for every distribution of three devices over two containers, both kinds of listing and every order (`LocateCorrect`); and failures end once the kubelet stays up (`LocatorRecovers`) |
| `manager` | two processes, two pods, two cards, records that are not written or not removed: one process, with its collector and its handlers, works at a time (`OneAgent`), and all resources are offered (`AllResourcesOffered`) |
| `manager_collects` | a process that may end at any step and be started again, pods with two links and with one, records that are not removed: every deletion that is seen leads to the removal of the record without the timer (`EventsSuffice`), and with the timer the records of all deleted pods go (`CollectedUnlessHeadless`), unless a record whose link 0 is missing is in the way |
| `stale_link` | *violated*, see below |
| `hash_collision` | *violated*, see below |
| `register_blocked` | *violated*, see below |
| `discovery_errors` | *violated*, see below |

Bounds. Two handlers are enough for every pair of overlapping calls; more only
wait for the same mutexes. Two pods compete for a list, and the
collector works on one while the other starts. `MaxLinks` = 2 with `Percent` = 2
covers the boundary between one link and several. `agent_faults` has one list for
two pods so that it must be reused. Names are used once in all runs. The plugin
server's only unbounded quantity is the number of kubelet starts. In `manager` and
`manager_collects` two
deletions are enough to fill `gcChan` and have a delete handler wait behind it.
`manager_collects` has one process, restarted any number of times: by `OneAgent` a second
one that overlaps with it only waits for the lock. The pod with two links comes first in
the order of keys, so that the `break`, the `continue` and the obstruction of the record behind
it all occur. In `manager` the
cards have 4 and 11 bytes with 1024 replaced by `Kilo` = 2, so that both divisions leave a
remainder on one and none on the other.

Deadlock is not checked for the agent, the manager and the plugin server: a node
without further pods, or a plugin whose kubelet is gone, rightly stops.

Fairness (`Agent!Fairness`, `PluginServer!FairSpec`, `Manager!FairSpec`,
`Locator!Spec`). Goroutines are scheduled, and
Go's mutexes hand over to waiters, so handlers get strong fairness; the
collector's timer fires every minute, the informer delivers, and the kubelet
retries container starts. Nothing makes pods come, stop or be deleted, and nothing
makes a kubelet start or stay; `EventuallyRegistered`, `RegisteredUnlessBlocked` and
`LocatorRecovers` have its staying as a premise. In `Manager` the timer is not among the
fair actions, so that `EventsSuffice` cannot lean on it; `CollectedUnlessHeadless` has its
fairness, and an agent that stays up, as premises. A locator that is called keeps being
called: the kubelet retries.

### Disagreements between code and documentation

* `stale_link`. A record has one device per container, but a container with cores
  and memory has two device lists. The second PreStartContainer overwrites the
  entry of the first, whose links are then known to no record and stay for ever.
  When the kubelet hands out the same device IDs again, Create finds the link and
  keeps it, and the new container uses the GPU of the old one. No failure is
  needed.
* `hash_collision`. Both resources use IDs of the same form and the hash does not
  cover the resource: a pod with cores and a pod with memory can share a link, and
  the second uses the GPU of the first.
* `register_blocked`. Run sends a registration error into a channel with one slot
  that only itself reads. If it takes the kubelet's restart first and registration
  fails again, the second send blocks for good. `RegisteredUnlessBlocked` shows that
  this is the only way to stay unregistered.
* `discovery_errors`. `Devices` assigns the error of a failed query inside a callback,
  and the call the callback runs in assigns nil to the same variable when it returns. The
  card is listed with no memory, and the agent serves without it.

### What holds only within limits

* `NoForeignGPU` where the kubelet hands out a device list while something with its hash is
  left over, or a name is used again. Nothing in the agent or the kubelet prevents it;
  `Admit` keeps to the other cases unless `Faults` says otherwise. Besides the two findings
  above, TLC violates the property within seconds in these instances (constants as in
  `agent_faults`, but for those given):
  - `Faults = {"crash", "leaked"}`: links are made before the record is saved. A process
    that ends in between leaves links no record knows; Create keeps them, and the next
    container with the devices uses the GPU of the old one.
  - `Faults = {"timeout", "late"}`: a handler the kubelet no longer waits for goes on after
    its pod is gone, and makes its links when the devices belong to another pod.
  - `Faults = {"recreate"}`, `Pods = {1}`, `Claims <- OnePod`, `Annotations <- Moved`: a pod
    is replaced by one of its name on another GPU, the cache still has the old object,
    and the links are made from the old annotation.

* `RunningRecorded` where handlers outlive their callers. Across the two plugins a late
  memory handler can write back a record it read before a core handler saved another
  container's entry; with one entry per device in the kubelet's listing a late Locate can
  match another pod, whose entry the handler then overwrites. `agent_restart` has one
  plugin where handlers are late, and the theorem excludes late ones.
* `RunningRecorded` when Save fails and the links do not go or come back: the removal
  fails too, or a late handler makes them again. The container starts unrecorded,
  because the failure of Save is not answered.
* `RunningLinked` when a late handler's Save fails: it removes the links of the
  container that a later call has started.
* `LinksAccounted` with two containers per pod: the collector's snapshot can be
  older than the second container's entry, which goes with the record. And with a crash
  or a failing symlink: the links made so far are in no record.
* `SeesAllAssumed` when the hook fails, when the annotation and the number of devices
  disagree, or when a pod is force-deleted and its links go under a starting container.
* `GoneCollected` when a record is left whose link 0 is missing: every later round ends at
  this record, and those behind it in the order of keys stay too. It takes a process that
  ends, or a Storage.Delete that fails, after the removal of link 0, or a handler that
  saves after the collector has removed its links. `CollectedUnlessHeadless` shows that
  nothing else keeps a record, and `EventsSuffice` has the same exception.
* Everything else about a pod whose name is used again: cache and records go by name.
* `EventsSuffice` for a pod whose handler is still at work when its deletion is seen:
  the record it saves is left to the timer.
* `EventsSuffice` relies on a mistake in the collector's favour: the test that would send
  it back to its select asserts the type `v1.Pod`, while the informer passes pointers, so
  that it never applies. Were it to apply, a deleted pod without the annotation would be
  skipped, which is what the test means to do.

## 4. Proofs

`AgentProofs` proves `TypeCorrect`: `Spec => []TypeOK`, for all constants that
satisfy the assumptions in the modules (device lists are finite and not empty,
`Nil` is not a GPU, device or container, annotations fit `MaxLinks`, claims are
well formed). `TypeOK` is not inductive. `TypeInv` adds what depends on control:
a running handler has a request, a handler in the loops has located a container
and its position is inside an annotation of parsed indexes, and the collector has
a line in hand while it deletes.

`IsolationProofs` proves `Isolation`: `Spec => []NoForeignGPU`, if `Faults`
contains none of `leaked`, `late`, `collide` and `recreate`. All other faults may
happen, and the numbers of pods, containers, devices and handlers are arbitrary.
Each of the four is needed: `stale_link` refutes the statement with `leaked`,
`hash_collision` with `collide`, and the instances of section 3 with `late` and
`recreate`. The inductive invariant:

* `CacheInv` - the cache lacks a pod or has its current object;
* `AssignInv` - lists of one resource are disjoint, and lists of one hash belong to
  one container;
* `LinkInv` - links with the hash of an assigned list point to GPUs assumed for
  its container;
* `FlightInv` - a running handler whose hash is assigned works for the container
  that has it, and what it read is that container's annotation;
* `KubeletInv` - claims that are being answered, are ready or belong to an
  existing container hold devices of a live pod;
* `SeenInv` - what a container sees was assumed for it.

`LinkInv` is what isolation needs at the moment of the hook. It is kept by a
handler's symlink only because of `FlightInv`; that holds across Locate because of
`AssignInv` (no other claim of the resource has any device of a list that is still
assigned, so even a match on a single entry is the right one), across the reading of
the annotation because of `CacheInv`, and across a new assignment because the hash
is out of use then.

`IsolationProofs` also has `NamesInv`: links a hook has found and not followed yet carry
a hash assigned to its container, so that following them later is as good as at once.

`AccessProofs` proves `Implementation`: under the same assumptions
`Spec => ImplementsGPUAccess`. Initial states map to initial states; a new pod is `Grant`,
the toolkit step of the hook `BeginUse`, the exit of a container or the end of a pod
`EndUse`, and all steps of handlers, collector, informer and process leave the mapped
variables alone. `IsolationInv` gives what `BeginUse` and `Grant` need.

`RecordProofs` proves `RemovalJustified`: `Spec => RecordRemovalJustified`, whatever
fails, if names are not used again. `RecordInv` says that devices, handlers and
records are of pods that exist or existed (`OriginInv`), that no handler saves an empty
record (`SaverInv`), and that pods on the collector's list are gone (`DoomedInv`). A pod
that is gone stays so, which is why the age of the API server's answer does not matter.

`PluginServerProofs` proves `NoLostWakeUp`, `Spec => []QuietMeansRegistered`, and
`ServerTypes`, for any number of kubelet starts. `ServerInv` ties every missing socket
file or registration to something the loop is yet to receive: `SocketInv` (a socket file
that is missing after Register was removed by a starting kubelet, whose event is on its
way), `SelectInv`, `ClosingInv`, and `CountInv`, which bounds the events by the starts.

`RecordProofs` also proves `RunningIsRecorded`: `Spec => []RunningRecorded`, if `Faults`
has neither `timeout` nor `recreate` and, where saves fail, neither `unlink` nor
`collide` (`SavesRecover`). Crashes, reused hashes, failing links, lookups and hooks and
force-deleted pods are all allowed. The invariant has two halves. `LiveInv` is about
control: an active handler is awaited, works for a claim of a live pod and for the
container the locator found, and is alone with its pod. `StoredInv` is about the database:
what a handler is about to save is the stored record but for its own entry, so no other
handler's entry is lost between load and save; an answered container has its record or,
after a failed Save, is without link 0 (`Unlinked`) and therefore cannot be created.
That the undoing starts with link 0 is needed here, and so is that its removal works.

`LinkProofs` proves three theorems about the links.

* `RunningIsLinked`, `Spec => []RunningLinked`, without `timeout`, `collide`, `leftover`
  and `recreate`. `OwnInv`: entries of a live pod, stored or about to be saved, are of its
  own claims. `LineInv`: any line, stored, in the collector's snapshot, on its list or in
  hand, whose hash a live claim has is of that claim's pod. Together with `DoomedInv` the
  collector's removals are of links no live container has, and `LiveInv` gives the same for
  a handler's undoing.
* `RunningSeesAll`, `Spec => []SeesAllAssumed`, without the `Orderly` faults (reused
  hashes, `timeout`, `recreate`, `force`, `mismatch`, `leftover`) and without `hook`.
  `PlacesInv`: a link with the hash of an assigned list is numbered inside the
  container's annotation and points to the GPU of its number. `ViewInv`: what the hook
  has seen and the links it has still to follow are, together, all that was assumed.
  The arithmetic of Allocate and of the collector meets in `AnnouncedLinks`.
* `AllLinksAccounted`, `Spec => []LinksAccounted`, for one claim per pod (`OneClaim`) and
  without the `Orderly` faults, `crash` and `link`, with `SavesRecover` (`Unbroken`).
  `AccountInv` adds to all of the above: a handler that does not have a record yet has
  only the links its loop has made, or those its undoing has not come to (`MadeInv`); the
  links of the collector's line go in order and all are gone when the record's turn comes
  (`ClearedInv`); its lines are stored ones (`QueueInv`); a control link without its
  device link is in the middle of a Delete (`PairedInv`); and every link is covered by a
  stored line or by an active handler (`CoverInv`), which is more than the property asks.

The hypotheses of these theorems are the limits of section 3: for each excluded fault
that section says what goes wrong, except that `leftover` is excluded from `RunningIsLinked`
because a collector that still has an old line of the hash in hand removes the new links.
The runs `agent_both` and `agent_calm` are instances of them.

`LocatorProofs` proves `LocateIsCorrect`, `Spec => []LocateCorrect`, for any containers,
devices and entries, and `LocatorTyped`. `ScanInv` is the loop invariant: containers before
`k` do not match, entries of `k` before `j` are not the list, and `deviceIds` is their
union. That a container which holds exactly the list is preferred follows from the
exclusiveness of devices.

`ManagerProofs` proves `OneAgentServes`, `Spec => []OneAgent`: a process past
`NewStorage` has the lock (`LockInv`), and collector and handlers run in no other. It also
proves `ManagerTyped`, `Spec => []TypeOK`, by `TypeInv`, a conjunction of parts for the
process, the node, the informer, the round and the handlers; that the collector's
position is inside the links of the first pod of its list needs that a set of pods, being
numbers, has a first (`FirstIn`, from the well-ordering of the naturals). And, if no query about a card fails, `ServingOffersAll`,
`Spec => []AllResourcesOffered`: from the phase in which a plugin is made its devices are
those of all cards (`OfferInv`), and dividing twice by `Kilo` counts the whole MiB.
With failing queries it is refuted by `discovery_errors`.

What the proofs assume of the constants is in the named `ASSUME`s of the modules, which
TLC evaluates in the runs; among them, that `Nil` is no line of the database
(`LinesAssumption`).

Only model-checked: liveness under fairness (`GoneCollected`, `AllLinksRemoved`,
`ContainerStarts`, `RegisteredUnlessBlocked`, `LocatorRecovers`, `EventsSuffice`,
`CollectedUnlessHeadless`), which is out of the prover's reach, as is `ENABLED`; and
`RunningRecorded` with late handlers of one plugin (`agent_restart`).

## 5. Plan

Done: links, records, PreStartContainer, collector with its triggers, hook, composition
with kubelet and API server, the life of the process, discovery, plugin server, locator
and its client; the abstract specification of GPU use and its refinement; eight modules
of proofs, which state every safety property of the runs.

Next, in this order:

1. Pod names that are used again: a history of the pod a record was written for, and the
   properties that survive.
2. Proofs: `RunningRecorded` with late handlers, for one plugin and one entry per
   container in the listing, where `agent_restart` finds no violation.
3. Two processes in `Agent` itself, in place of the argument through `OneAgent`.
