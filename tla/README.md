# Verification of the sandbox device plugin

TLA+ modules, TLC runs and TLAPS proofs for the program in `pkg/device_plugin`:
a Kubernetes device plugin that finds the NVIDIA GPUs and NVSwitches bound to
`vfio-pci`, advertises them to the kubelet, reports their health, hands their
device nodes to containers, and optionally labels the node with a GFD pod.

## The system

| component | state it keeps | operations |
|---|---|---|
| discovery (`device_plugin.go` 153-272) | `iommuMap`, `deviceMap`, `nvSwitchDeviceIDs` | `createIommuDeviceMap`, `getDeviceNameForID` |
| CDI writer (`cdi.go`) | the spec files on disk | `GenerateCDISpec`, `generateCDISpecForClass` |
| entry point (`cmd/main.go`) | none; it sets both aliases and `EnableGFD` | `main` |
| controller (`device_plugin.go` 81-150) | the list of started plugins | `createDevicePlugins`: one `Start` per device ID |
| generic device plugin (`generic_device_plugin.go`) | server, socket file, channels `term`, `healthy`, `unhealthy`, health of each device | `Start`, `Stop`, `restart`, `Register`, `ListAndWatch`, `Allocate`, `healthCheck` |
| GFD job (`gfd.go`) | one pod in the cluster | `runGFD`, create with retries, wait for the runtime class, reap the pod |
| kubelet, inotify, gRPC, API server (external) | registrations, streams, watches, pods | modelled from how the code uses them |

They interact through shared maps (written once by discovery, read by the CDI
writer, the controller and every `Allocate`), gRPC calls with the kubelet in both
directions (the plugin registers; the kubelet dials back and reads a stream),
files (the socket, which the kubelet deletes when it restarts, and the device
nodes), and Go channels between `healthCheck` and the `ListAndWatch` handlers.

What is hard here:

* three kinds of goroutine per plugin (the one in `Start`, `healthCheck`, one
  `ListAndWatch` handler per stream) share channels that outlive each server;
* the kubelet may go down, empty the directory and come back between any two
  steps, and what it deletes is the only sign of it;
* sends on unbuffered or full channels block without a timeout;
* an error anywhere in `healthCheck` ends health reports and restart detection;
* the host may change between discovery, CDI generation and `Allocate`, and between
  one process and the next, while pods hold devices under the keys of the old one;
* two handlers write and read `devs[i].Health` without a lock;
* retries of the GFD job are bounded by the library's back-off rules and not only
  by the number of steps written in the code.

## What makes each component correct

* **Generic device plugin.** Servers, socket file, streams and handlers belong
  together through every restart; a restart happens for a kubelet restart and for
  nothing else; health changes reach the kubelet; after the last restart the plugin
  is registered and lists its devices.
* **Controller.** Each plugin is started and served whatever the others do.
* **Discovery, CDI, Allocate.** Each suitable device is advertised once, under one
  key; the nodes handed out for a key are those of its devices and so are the nodes
  watched for it; CDI specs and allocations agree; no device is in two containers,
  also if the process restarts in between.
* **GFD job.** Only the job's own pod is reaped, and only when it has succeeded; the
  goroutine always ends, and no error makes a backoff start over; the runtime class follows
  the labels.

## The modules

| module | models | state | actions |
|---|---|---|---|
| `GenericDevicePlugin` | one plugin, `generic_device_plugin.go`, in full detail | where the goroutines are (`pc`), `dpi.server`, `dpi.term`, `devs[i].Health`, each `ListAndWatch` handler, the fsnotify queue, socket file, nodes, kubelet | `Start` as `StartCleanup`, `Listen`, `RegisterOK`/`RegisterFail`; `healthCheck` as `Setup`, `AddDev`, `DeviceEvent`, `SocketRemoved`; `Stop` as `StopTerm`, `StopServer`, `StopClear`; `ListAndWatch` as `LWSend`, `LWReceive`, `LWTakeTerm`, `LWPark`; the environment |
| `GenericDevicePluginProofs` | its theorems | | |
| `PluginController` | `createDevicePlugins` and the plugins in one directory; also the abstract specification of a plugin | the loop over `deviceMap` (`main`, `todo`), a stage, a server, a token and the handlers of each plugin, the file at each path, what the kubelet lists for each | `StartNext`; the plugin's steps without devices, but with `DeviceEvent`, `Deliver` and `Signal`, its sends to a handler, and `TakeToken`; kubelet and process restarts |
| `PluginControllerProofs` | its theorems | | |
| `DevicePluginRefinement` | the refinement mapping from `GenericDevicePlugin` to `PluginController`, of steps and of fairness | | |
| `DevicePluginRefinementProofs` | its theorem | | |
| `DeviceDiscovery` | `main`'s aliases, `createIommuDeviceMap`, `GenerateCDISpec`, the creation of plugins, the paths of `healthCheck`, `getGPUDeviceName`, `Allocate` | the three shared maps, CDI files, plugins, watched paths, the last reply | `ScanStart`, `Scan`, `ScanDone`, `WriteSpec`, `CdiStage`, `CreatePlugins`, `WatchNodes`, `Allocate`, `LoadIommufd`, `Fault` |
| `DeviceDiscoveryProofs`, `CdiSpecProofs` | its theorems: the maps and what is made of them; the spec files | | |
| `PodAllocation` | `DeviceDiscovery` together with the kubelet's device manager and restarts of the process | in addition, what running containers hold | `InitiateDevicePlugin` as above, `PodStart` (with `Allocate`), `PodEnd`, `Restart` |
| `PodAllocationProofs` | its theorems | | |
| `GfdJob` | `ENABLE_GFD`, `runGFD`, `WaitForKataRuntime`, `createGFDPod`, `LaunchPodWithRetries`, `CheckAndDeleteCompletedPod` | the call the job is at, its backoff, the pod in the cluster | one action for each call of the API server; the cluster |
| `GfdJobProofs` | its theorems | | |
| `MC…` | constants for TLC | | |

Operators named `<Name>_<Word>` and marked `MUTANT` are versions of `<Name>` with a
plausible mistake. They are in no behaviour; each shows that a property notices the
mistake.

### Where steps are cut

A step is what the code does between two points at which another goroutine, the
kubelet or the file system can interfere: each system call on the shared directory, each
channel operation, each gRPC call. `cleanup`, `net.Listen` and `Register` are three
steps because the kubelet may empty the directory between them. `WriteSpec` covers a
whole `generateCDISpecForClass`, `Scan` one device.

### What is assumed of code outside the repository

These parts are marked external in the map.

* **inotify.** A watch of the directory reports creation and removal of the socket's
  path. A watch of a device node reports the node's removal and is then dropped with
  the inode. Queues do not overflow.
* **gRPC.** `server.Stop` closes the listener, which removes the file at its path, and
  the connections; it does not wait for handlers. A handler that ignores its context
  and the errors of `Send`, as `ListAndWatch` does, runs on.
* **kubelet.** It empties the plugin directory when it starts, forgets registrations
  when it dies, answers `Register` and dials the endpoint later. It dials a server only
  if that server is the one that registered. It does not open a stream again that has
  ended: the plugin has to register anew.
  Its device manager gives an ID of a resource to one container at a time, asks the
  plugin for it, and keeps what is given in a checkpoint that outlives the plugin.
* **Drivers.** A device is bound to another driver, or gets another fd, only between two
  processes of the plugin, and only if no container holds it or its group. No two devices
  have one fd (`FdsAssumption`): the kernel numbers the nodes under `/dev/vfio/devices`.
* **API server.** Any call may fail, before it took effect or after.
* **Go channels.** A receiver that is blocked in the select gets a value at once; which
  one of several is left open.

`healthCheck` appears as one thread: a restart runs in the old `healthCheck`, which
returns as soon as `Start` has spawned the next. `dpi.stop` and the shutdown after
`<-stop` are left out: nothing outside the tests sends on these channels or closes them.

## The runs

| run | module, cfg | shows | bounds |
|---|---|---|---|
| `safety` | `MCGenericDevicePlugin`, `Safety.cfg` | types, restarts, path, guards, handlers, justified health, and the refinement of steps and of fairness, in 359 974 states | 2 devices, 2 kubelet restarts, 1 process restart, each node removed once, 1 failing system call, a kubelet that may stay away |
| `calm` | `Calm.cfg` | `Recovery`, `ViewCatchesUp`, `OneWriter`, `WatchedRemovalReported`, `TermEndsOldStreams`, in 118 420 states | 2 devices, each removed twice, 2 restarts of each kind |
| `controller` | `MCPluginController`, `Controller.cfg` | `NotDisturbed`, `EachTypeIsServed`, in 926 502 states | 2 plugins with paths of their own, 2 kubelet restarts and 1 process restart |
| `discovery` | `MCDeviceDiscovery`, `Discovery.cfg` | keys, watched and allocated nodes, specs and the resource of the GFD pod fit, in 1.6 million states | buses of up to 3 devices, 8 environments, one of whose aliases is the name of another device, `/dev/iommu` appearing once, 1 failing call |
| `pods` | `MCPodAllocation`, `Pods.cfg` | `NoDeviceTwice`, `SpecsAreFresh`, in 696 270 states | 2 devices, with and without fds, 2 environments, 2 restarts of the process between which drivers and fds change |
| `gfd` | `MCGfdJob`, `Gfd.cfg` | reaping, runtime class, calls that run out, end of the job, in 54 000 states | 3 values of `ENABLE_GFD`, 2 failing calls, 1 process restart |
| `recreated_device`, `stale_token`, `blocked_send`, `shared_alias`, `no_device_fds`, `gfd_tries` | their own cfg | one disagreement each, see below | the smallest that show it |

Why the bounds are enough:

* Two devices tell the marked device from the others, and let one event queue behind
  another. Handlers interfere in pairs, an old one and its successor. Two kubelet
  restarts give three servers, so that a token or a handler may survive one server and
  meet the one after next; the process restart adds a leftover socket file.
* `MaxGen` only sizes arrays. It is at least `1 + MaxRestarts + MaxCrashes`, and
  `NoSpuriousRestart`, proved for all values, says that `Listen` never reaches it.
* Two plugins are enough for one to see the other's files. Two kubelet restarts, each before
  the kubelet dials, are the fewest that block a plugin in `dpi.term <- true`; the process
  restart may come before, between or after them, so that a blocked plugin may also get away.
* Three devices can share a group, have different IDs and stand in either order. The
  numbers of groups and fds overlap on purpose, as they do on a host.
* Two devices are enough for one to be given away under the number of the other, and one
  restart for numbers and files to be left over; it may find any other binding. The second
  lets a device come back whose place another one had in between.
* Two failing calls are the fewest that make a loop fail and a later call fail too.
  The backoffs have their real parameters.

Deadlock is not checked: each of these programs may come to a rightful end. A plugin
whose kubelet and nodes do nothing more waits for events, and the disturbances are
bounded; `runGFD` returns; `DeviceDiscovery` stops if there is nothing to serve. That a
plugin does not stop too early is what the liveness properties say.

### Fairness

Weak fairness of each goroutine (`Start`, `healthCheck`, each handler) is what the Go
scheduler gives. It is asked of steps that can be taken: a send without a receiver and
a full channel is not one, and a plugin that waits in it (lines 161, 386) is owed nothing.
The handlers' part in `PluginController` needs no fairness of its own there: a handler that
runs receives, which is `Deliver` and `Signal` of the plugin's goroutine, and whether it ever
takes a token that waits (`TakeToken`) is left open. `SocketRemoved` is strongly fair in
`PluginController`: each time `healthCheck` goes to hand over a device's ID the step is
disabled, but the events queue up in order, so that the removal of the socket comes up after
finitely many of them. `ImplementsFairness` shows that in `GenericDevicePlugin` this follows
from the queue, the handlers and weak fairness alone.

Weak fairness of the kubelet's steps says that a kubelet which went down comes back, empties
the directory, serves, and dials what registered. `runGFD` is
fair because each API call has a deadline or returns. Nothing is owed by crashes,
removals or creations of nodes, failing calls, or the cluster: a node that is gone may
stay away, a pod may never run.

### Calm

The properties of run `calm` are stated for a plugin whose restarts are left in peace.
The kubelet dies only when the last disturbance is dealt with: the stream is open, its
handler waits in its select, the event queue is empty and `healthCheck` is in its loop
(`Settled`). A node is removed only while a stream is open and `healthCheck` reads or
hands over events (`Attended`), so that several removals may be under way at once. A
process restart is less demanding and needs a kubelet only. Without
`Calm` the code does not have these properties. The ways it loses them:

* `stale_token` below;
* a handler of a stopped server, not waiting when the token was sent, receives the event
  meant for its successor (line 212), sends the list into a dead stream, and writes
  `dpi.devs` while the successor reads it (`OneWriter`);
* the kubelet empties the directory between `Listen` and the watch of the directory
  (line 343): nobody sees the removal;
* a second restart finds the first one's token still in `dpi.term` and blocks (line 161);
* a kubelet which serves only after `connectionTimeout` makes `restart` fail, and nothing
  tries again (line 172).

Failing calls and a slow kubelet are not among these: run `calm` leaves them out for the
sake of `Recovery`, but the proofs of `ViewCatchesUp`, `OneWriter` and `TermEndsOldStreams`
allow them. The properties of run `safety`, the balance of handlers and the refinement among
them, and `ImplementsFairness` need no calm.

## Disagreements found

Each is a run that must fail, with the line it contradicts in `PROJECT.json`.

* `stale_token`: a token that no handler of the old server took ends the first stream of
  the new one.
* `blocked_send`: without a handler `healthCheck` waits for ever to hand over a device ID
  and never reads the removal of the socket.
* `recreated_device`: a node that is removed and comes back leaves its device unhealthy.
* `shared_alias`: two GPU types under the default alias `pgpu` share a socket path, remove
  each other's file and restart each other.
* `no_device_fds`: the Features of the repository's README say that GPUs are exposed "as
  devices available to be attached", but a device without an fd is advertised under its group
  and every request for it is refused. The refusal is meant (a test at
  generic_device_plugin_test.go:173 asks for it); the advertisement is what does not fit.
* `gfd_tries`: the three backoffs give up after 9 tries, not 50 or 30.

Others are visible in the models but have no run: one missing node ends `healthCheck`
for all devices; devices of one group get equal CDI names, which the library refuses
(cdi.go:188); device IDs of equal names, or NVSwitches whose
own name is the alias of the GPUs, overwrite each other's spec (cdi.go:221);
`/dev/iommu` appearing after discovery makes `healthCheck` watch paths that do not exist
or, if it appears before `createDevicePlugins`, those of other devices
(generic_device_plugin.go:360, the exception of `WatchesItsDevices`); a restart that
finds `/dev/iommu` where its predecessor did not numbers the keys anew, and the kubelet, whose
checkpoint has the old numbers, gives a device away twice (device_plugin.go:187, the
condition of `NoDeviceTwice`); the spec file of a class that is no longer served stays
(cdi.go:221); the comment at generic_device_plugin.go:137, that the error of
`waitForGrpcServer` is returned at the end, is not so: `Register` overwrites it; a failed call yields an empty image or the wrong runtime
class (gfd.go:104, 225); a GFD pod that fails, or does not succeed in some 150 seconds,
is never deleted.

## Abstract and detailed plugin

`PluginController` is both the composition of several plugins and the promise of each:
devices, their health and what a handler does with its stream are gone. What is left is what
others can see, its socket file, its registrations and its restarts, and what may stop it:
the sends to a handler (stages `send` and `term`), the token of `dpi.term` and the set of
handlers that run. `DevicePluginRefinement` maps the detailed plugin to a controller with this
plugin alone. `pc` becomes one stage, the event queue becomes the question whether it holds
the removal of the socket (`told`), and generations become servers.

There are two parts to it.

* `ImplementsController`, the steps: checked by run `safety` with all its disturbances and
  proved for all constants (`PluginRefines`). The safety of plugins that share a directory
  (`NotDisturbed`) is thereby said of the plugin in the code.
* `ImplementsFairness`, the liveness: the fair detailed plugin satisfies what `Fairness` of
  `PluginController` asks of one plugin. It is model-checked by run `safety` and not proved.
  `Diligence` states it with the enabling conditions (`CanGoOn`, `KubeletCan`) written out,
  since `ENABLED` does not pass through a refinement mapping.

`EachTypeIsServed` claims that a plugin is listed in the end, whatever happens to the others,
except in four cases that the code does have, each with a name: its `Start` or `healthCheck`
failed (`dead`); the kubelet emptied the directory between `Listen` and the watch (`Missed`);
it waits in the send of line 161 or 386 with no handler to receive (`Blocked`); or the first
handler of its server took the token of an earlier `Stop` (`Robbed`). In `Blocked` the plugin
waits for as long as no new handler comes, which without a restart of the process is for ever,
unless the kubelet still has a registration to dial.

## What is proved

`tlapm` checks these for every number of devices, plugins, restarts and failures.

`GenericDevicePluginProofs` proves the inductive invariant `IInv` and from it
`TypeOK`, `NoSpuriousRestart`, `RestartNeverRefused`, `PathIsOwn`, `StreamIsCurrent`,
`HandlerBalance` and `UnhealthyIsJustified`. None of them is inductive alone. The parts:

* `WatcherInv`: the watcher is open exactly while its `healthCheck` reads it, so the
  removals by `Stop` and `Start` reach nobody.
* `ServerInv`: which goroutine may be where, when a server exists, when the path is free.
* `BudgetInv`: servers created plus servers owed (`Owed`: the path is free, the process
  starts, or the kubelet is about to empty the directory) stay within one per process
  start and one per kubelet restart.
* `StreamInv`: once a server is stopped no stream of it is read.
* `RemovalInv`: each removal in the queue or on its way to a handler has happened.
* `HandlerInv`: handlers that run are at most the tokens in `dpi.term`, plus one when the
  current server's stream was opened (`Expected`); a handler starts once per registration.

Under `Calm` it proves `ViewCatchesUp`, `OneWriter` and `TermEndsOldStreams` as well, from
`IInv` and `CalmInv`, whose core is that no token is ever left in `dpi.term`. It holds because
the one handler there is waits in its select from the end of a kubelet until `Stop` sends the
token (`SocketGone`), which in turn holds because meanwhile no event of a device may be in the
queue to wake it. Without a token `HandlerInv` leaves one handler at most.

`PluginControllerProofs` proves `TypeOK` for any plugins and paths, and `NotDisturbed`
under the assumption `OwnPaths`, that no two plugins have one path; `shared_alias` shows
that the assumption is needed. The invariant is again a budget: a plugin that is `Due` to
create a server, plus what a kubelet that is down will still cost, is its `Debt`; only
the kubelet adds to it, because the plugin that removes the file at a path does not watch
at that time and nobody else heeds that path.

`DevicePluginRefinementProofs` proves that the detailed plugin implements the controller's:
`Spec => ImplementsController`. It needs `IInv` (no server at `StartCleanup`, a free path
at `Listen`, a server at `SocketRemoved`, a stream of the current server) and one more
invariant, that a server is the latest that was created. There is a lemma for each action;
most map to the action of their name, also the sends and the end of a handler; what a handler
does with its stream, events of other files and those of the nodes map to a stutter.

`DeviceDiscoveryProofs` proves `TypeOK`, `KeysArePartitioned`, `NodesAreTheDevices`,
`WatchesItsDevices`, `CdiAgreesWithAllocate` and `GfdAsksForAGpu` for any bus, any set of
environments and any bounds. Its invariant is `Core`, which holds in every process that starts
from `Blank` variables whatever files it finds, and `Files`, which needs a node without any:

* `Placed` and `Advertised` describe the maps in the middle of the scan: each position that
  was passed and qualifies is under one key, each key that is known is once in `deviceMap`.
  Only `Scan` disturbs them (`EntryPlaced`, `EntryAdvertised`).
* `Numbers` says what the number of a key is. Without `/dev/iommu` it is that of the group,
  because the module that provides it is never unloaded; with it from the start it is the
  fd. This is what makes the group's node of `Allocate` and the node `healthCheck` watches
  those of the key's own devices.
* `Created`, `Files` and `Answers` keep for plugins, spec files and the last reply what was
  true when they came to be; `Stages` says what is still empty.
* `Named`: each device ID that was found has a plugin of its `DeviceName` with its keys.

`GfdAsksForAGpu` compares two operators, `DeviceName` for createDevicePlugins and `GfdName` for
getGPUDeviceName, as the code has two functions. It asks for one plugin of the resource that
serves GPUs; that an NVSwitch with the same name or alias shares the resource is not excluded.

`CdiSpecProofs` proves `PlainHostHasSpecs`. Until the first failing call every device ID has
either an up-to-date file of its name or a spec that is `Due`, in this stage or in the next
(`Written`). A spec that is due has all keys of its name (`JobsAreWhole`, `StageJobs`), so that
the file which replaces another one lacks nothing. For this `PlainHost` must exclude names
that GPUs and NVSwitches share: an attempt with a weaker `PlainHost` failed at `StageJobs`, and
TLC showed the alias of the GPUs being the name of an NVSwitch, whose file then replaces theirs.

`PodAllocationProofs` proves `NoDeviceTwice` and `SpecsAreFresh` for any hosts and any number of
restarts, from `Core`, `Named` and `Written`, which a restart establishes anew (`BlankStarts`),
and what lasts:

* `Taken`: containers of one resource have different IDs. The rest shows that two containers
  with a node of one device would have an ID of one resource in common.
* `HeldInFirst`, for the first process: their IDs are keys of its plugins, and a node leads back
  to a key, which is in one plugin by `Advertised`. `/dev/iommu` may appear at any time.
* `HeldInMode`, as long as it does not: a node is that of one fd, or of a group, and this number
  and the `LastingName` of the device, or of the first one of the group (`LeadsGroup`), are
  the ID and the resource. `Restart` keeps it because what is held is not rebound and
  nothing comes before it in its group; a pod that starts satisfies it because the
  key counts for the device ID of its first device (`Ranked`).

`FreshSpecs` is `Written` again, which never needs to know the files that were there. `EveryProcess`
repeats the theorems of `DeviceDiscoveryProofs` that rest on `Core` for all processes of a node.

`GfdJobProofs` proves `TypeOK`, `ReapsItsOwn`, `DoneIsReaped`, `OwnPodIsNotKilled`,
`ClassFollowsLabels` and `CallsRunOut` for any number of failing calls and crashes:

* `LoopInv`: steps left and tries made come to no more than the steps a backoff began with,
  and its delay is within its cap (`RetryBounds` is the arithmetic of `Retry`).
* `PodInv`: until it comes to create its pod the job has none of its own; while it reaps, the
  pod of the name is its own or gone; it deletes one that has succeeded only.
* `ClassInv`: what the job has found of the labels so far is right if no call has failed.
* `CallsLeft` bounds the calls that are left: it falls with every one of them, since a try
  costs its backoff a step (`RetryUsesUp`), also when the deletion of a completed pod failed
  and the pod is looked at again. It starts at 167. This is the part of `JobEnds` that needs
  no fairness; and it says more than `JobEnds` does on the run, where the 2 failing calls
  would not keep a loop alive that starts over after each error.

The proofs rest on the named assumptions of the constants, which TLC evaluates in the
runs, and on the library's facts about cardinalities.

Only model-checked: liveness (`Recovery`, `WatchedRemovalReported`, `EachTypeIsServed`,
`ImplementsFairness`, `JobEnds`), which needs fairness and `ENABLED` and is out of the prover's reach. Every
invariant and every other action property of the passing runs is a theorem.

## Not modelled

* The shutdown: the receives from `stop` and `dpi.stop`. Only the tests send on these
  channels or close them, and after `restart` the plugin waits on a channel of its own that
  nobody else has (line 179), so that the program takes none of these branches.
* Devices that are bound to another driver, or a kernel that changes fds, while one process
  of the plugin runs: the program looks at the bus once.
* How a name is cleaned (`formatDeviceName`) and how paths are put together: names and
  paths are members of small sets; that different devices may get one name, or one CDI
  does not accept, is kept.
* The fields of the GFD pod other than its runtime class.
* `GetDevicePluginOptions`, `GetPreferredAllocation` and `PreStartContainer`, which
  answer without looking at or changing any state.
* Vendored packages, build scripts and manifests.

## Plan

What is left: several plugins and the maps they share in one module, `PluginController` with
keys of `DeviceDiscovery`, so that what is listed is related to what is on the bus, and the
theorem that a key which the kubelet lists for a resource is allocated by the plugin of that
resource.
