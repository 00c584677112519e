# SRAT in TLA+

SRAT administers Samba and NFS on a Home Assistant host. Its backend
(`src/backend/src`, Go) stores shares, users and settings in SQLite, renders
`smb.conf` and `/etc/exports` from them and reloads the services, keeps a picture
of the disks, reports problems to Home Assistant and pushes every change to its
web interface and to a Home Assistant integration over a web socket.

This directory holds TLA+ models of the parts of the backend where several
goroutines, timers or processes meet, the TLC configurations that check them on
small instances, and proofs that TLAPS checks. `PROJECT.json` maps every
definition to the lines it models and lists the runs, the mutants, the findings,
the hazards and the theorems.

    tlc -workers 2 -config DirtyRestart_order.cfg DirtyRestart.tla
    tlapm DirtyRestartProofs.tla

The document goes through the system's parts, the modules one by one with their runs,
the findings, the fairness assumed, the proofs, and what is left out.

## Inventory of the system

Paths are under `src/backend/src`. "Listener" means a handler on the event bus:
the bus is synchronous, so a listener runs in the goroutine that emits.

| Part | State | Operations | Talks to | What makes it hard | What makes it correct |
|---|---|---|---|---|---|
| Dirty-data tracker `service/dirty_data_service.go` | flags per kind of data, one timer, `timerMutex` | mark and arm on share, user, setting and config events; callback; wipe on CLEAN | emits DIRTY, RESTART | a callback that has fired cannot be stopped; CLEAN stops the timer without the mutex | no change is forgotten before the services run it |
| Server processes `service/server_process_service.go`, `api/samba.go` | `smb.conf`, exports, `serviceConfigMap`, process status | render, write, testparm, export, restart or reload, CLEAN | reads the database, runs commands | two runs at once (`/samba/apply`), failure of a step, services that die | only tested configurations are loaded; CLEAN means loaded |
| Health loop `api/health.go` | last readings | tick | tracker, broadcaster | the only retry of a failed run | a failed run is retried |
| Command runner `internal/commandexec/runner.go` | snapshots with the last lines | start, two scanners, wait | emits START, UPDATE, STOP, ERROR | process, pipes, three goroutines, cancellation | the end event comes last; a success is complete; it ends |
| Problem store `service/problem_service.go` | table, cache | upsert, dismiss, fix, get, prune | emits ADD, UPDATE, REMOVE | table and cache change in two steps; restarts | the cache is the table |
| Problem bridge `service/problem_ha_bridge.go` | queue | route, enqueue, flush | Home Assistant's notifications | Home Assistant comes and goes; calls fail | what is open is shown, what is fixed is not |
| Web socket `api/ws.go` | the component's registration | connect, HELO, ping, close | broadcaster, event bus | three goroutines per connection, peers that hang | nobody who has left is remembered, who is there is known |
| Broadcaster `service/broadcaster_service.go` | two relays, listeners, hash of the last tracker | broadcast, pump | every event | bounded buffers, slow peers | guaranteed messages arrive |
| mDNS announcer `service/mdns_service.go` | - | announce on HELO and CLEAN | broadcaster | reads, then queues | the component has the last settings |
| Settings, shares `service/{setting,share}_service.go` | tables | create, update, delete, verify | event bus | soft delete and revival, partial failure | every stored change is announced |
| Users `service/user_service.go`, `unixsamba` | table, accounts of the system and of Samba | create, update, delete, replay at start | commands, event bus | several commands a request, each may fail | who is stored can log in, nobody else can |
| Volumes `service/volume_service.go`, `volume_mount_manager.go`, `dto/disk_map.go` | disk cache, refresh version, mount-point table | refresh, partition and mount-point events, mount, unmount, udev, patch | hardware, kernel mounts, event bus | one unsynchronised map, nested events, a sweep by version | the cache is what is mounted; what should be mounted is |
| Hardware `service/hardware_service.go` | 30-minute cache | read, invalidate | supervisor API | an answer takes long, and may be older than an invalidation | the map never goes back to older hardware |
| Supervisor mounts `service/supervisor_service.go` | the supervisor's mount list | create, replace, remove, retry | supervisor API | list then create; remove on 400 | one mount per share, of its kind |
| Event bus `events/event_bus.go` | listeners | emit, on | everybody | stops at the first error | every listener learns |
| Self update `service/upgrade_service.go` | seen files, debounce timer | check, download, install, watch | file system, process supervisor | overlapping installs | one install of the last files |
| Filesystem tasks `service/filesystem_service.go`, `service/filesystem/*` | running tasks | format, check, label | command runner | cancellation, progress | one task per device, its end is the last word |
| Filesystem adapters `service/filesystem/*_adapter.go` | cache of answers, 30 minutes | format, check, label, state | command runner | words and exit codes of twelve tools; answers kept | an answer is true of the device |
| Custom component in Home Assistant `service/homeassistant_component_service.go` | a directory, two problems | install, remove, status | Home Assistant, problem store | two requests share the directory; it is loaded at a restart only | what is not loaded is asked for |
| Spin-down `service/hdidle_service.go` | per-disk timers | start, stop, poll | block devices | restart while polling | an idle disk spins down once |
| Disk statistics `service/disk_stats_service.go` | readings, a cache of which disk has S.M.A.R.T. | tick, switch events | disks, event bus | an answer that an event has overtaken | no old reading is shown for ever |
| S.M.A.R.T. `service/smart_service.go` | `mutex` | switch, self-test | disks, event bus | a test is followed by a library's goroutine | who watches learns that it is over |
| Add-on watcher `service/addon_config_watcher_service.go` | watched files | change | database | as self update | the database follows the file |
| Home Assistant socket `homeassistant/websocket/client.go` | connection, subscriptions, pending calls | connect, call, subscribe | Home Assistant | reconnect with calls pending | every call ends, every subscription survives |

Smaller parts (telemetry, issue reports, readings of the host, converters, start-up,
generated clients, the web interface and the integration) are listed with the
reason they are left out in `PROJECT.json`, and so are all hazards, each at its line.

## The modules

Twelve runs check seventeen models, two of them against abstract specifications. Where several
small systems share nothing, one run checks them side by side: the `MC` module declares the variables of all of them, a
variable `world` is chosen in the first state, and only that system moves while the others
keep their initial values, so the run has as many states as they have together. The
constants of all of them get their values in the one `.cfg`, so that the proofs, which extend
the `MC` module, are about any values.

| Run | Module | Systems | Distinct states |
|---|---|---|---|
| `restart_order` | DirtyRestart | without failures | 72,453 |
| `restart_fail` | DirtyRestart | with failures | 2,564,822 |
| `restart_retry` | DirtyRestart | with failures and an apply | 131,501 |
| `command` | MCCommands | CommandExec, UserAccounts | 523,708 |
| `reports` | MCReports | WsSessions twice, DiskStats | 207,667 |
| `stores` | MCStores | Volumes, Problems twice, CustomComponent, Hardware, FilesystemTools | 1,679,807 |
| `shares` | MCShareMounts | ShareMounts | 353,523 |
| `jobs` | MCJobs | FilesystemTasks, Upgrade | 328,710 |
| `monitors` | MCMonitors | HDIdle, HaSocket, ConfigWatcher | 466,544 |
| `warning_lost` | Problems | a finding | until the counterexample |
| `upgrade_dynamic` | Upgrade | a finding | until the counterexample |
| `smart_told` | SmartTests | a finding | until the counterexample |

Each module states more properties than the runs check. Those that the code does not
have are kept with a configuration that shows the counterexample, where one is named below;
others are kept as a description of what the code would have to do.

### DirtyRestart: from a stored change to the restarted services

`DirtyRestart.tla` follows a change of the shares, users or settings through three
components. Stored data is a version number per kind.

| Model | Code |
|---|---|
| `db`, `Store`, `StoreUnannounced`, `AnnounceDelete`, `Delete` | the services that write and emit; `DeleteShare` emits first |
| `dirty`, `Mark`, `ResetFlags` | the tracker; `resetDirtyStatus` wipes it whole |
| `timer`, `tstate`, `StartTimer`, `Fire`, `Enter`, `Leave`, `StopTimer`, `ForgetTimer` | `p.timer`, the timers alive, `time.AfterFunc` and its callback; a timer in state "running" holds `timerMutex` |
| `HealthTick`, `HealthArm` | `GetDirtyDataTracker` called by the health loop |
| `rpc`, `mask`, `rendered`, `Render` ... `Restarted` | one run of `writeConfigsAndRestartServers`, by a callback or by `Apply` |
| `smbconf`, `exports`, `vetted`, `loaded` | the files, what testparm last accepted, what each process runs |
| `up`, `status`, `Die`, `Respawn` | the processes and the status the health loop reports |

A goroutine's steps are split where another can see or change what is shared: the
store and its event, the mark and the arming, each step of a run, the wipe of the
flags, the stop of the timer and the clearing of its reference. `Timers` is a pool
of identities: `StartTimer` takes a free one, and a timer is free once stopped or
done, so the pool bounds only how many are alive at once.

* `restart_order` (two writers of two kinds, two timers, no failures): a stored
  change that is not in `smb.conf` is always awaited by somebody
  (`StaleFileIsPending`) and it, or a later one, gets there (`ChangesReachTheFile`);
  at most one timer is armed, the one `p.timer` references (`ArmedIsReferenced`);
  neither the file nor a service goes back to older data (`NeverGoesBack`, which is the
  specification of `ConfigPipeline` under a refinement mapping).
* `restart_fail` (a writer, a deleter, two timers; every step may fail and services
  die): a service loads only what the test of its own run accepted (`ReloadsVetted`), and
  when CLEAN wipes a flag, every live service on `smb.conf` has taken the data of that
  kind which the run rendered (`CleanReported`).
* `restart_retry` (a writer, one timer, a call of `/samba/apply` that stops the timer
  and wipes flags beside the callback, every step may fail): `DirtyIsRetried`, however
  often runs fail. Only the health loop arms the timer after a failure.

Two configurations have a counterexample. `DirtyRestart_lostflag.cfg`
(`CleanMeansLoaded`): a flag set while a run is in progress is wiped by that run's CLEAN,
after which everything is clean and quiet while smbd runs the old configuration. The file
is rewritten all the same, by the run of the timer that is still armed, but with an empty
mask, so nobody reloads it. `DirtyRestart_delete.cfg` (`CleanMeansWritten`): `DeleteShare`
emits first, and the run that the deletion announced may render the share that is still
there. Two more properties are stated and not checked: `ArmedIsReported` (a callback that
fired before its timer was stopped clears the reference to its successor) and
`ReportedIsUp` (a service that has died keeps the status of the last refresh).

Bounds: two writers are enough to have one change arrive while the other's run is in
progress; two timers let one be armed while another has fired or runs (the proofs below
cover any number); two versions of two kinds distinguish "this change" from "an
earlier one" and masks that meet from masks that do not. The kinds used include one
that reloads (Shares) and one that restarts (Settings). One service is enough, since
the properties speak of each service by itself.

`ConfigPipeline.tla` is the abstract specification: kinds have a stored version, a file
and what each service runs; the file takes data the database has had, a service takes data
the file has had, and nothing goes back. DirtyRestart implements it without
`/samba/apply`: there two runs overlap, and the later write may hold older data.

### CommandExec: one execution of a command

`CommandExec.tla` models one execution: the starting goroutine (`Store`,
`AnnounceStart`, `Spawn`, `SpawnFails`, `ReportFailure`), the caller of `Execute` that
polls, the process writing to two bounded pipes, the two scanners (`ScanLine` under the
mutex, then `EmitLine`), the waiter (`Finish`, then `AnnounceExitCode` and
`AnnounceEnd`), cancellation and the kill that follows it. `sent` is the history of
emitted events. A line is its channel and its number.

* `command` (first system): the snapshot shows the newest lines of each channel without
  a gap, every line that has left it was announced, and a success has announced every
  line the process wrote (`SnapshotIsTrue`); the events are those of `CommandLog`
  (`KeepsTheLog`); a command finishes unless an overlong line has made a scanner give up
  and nobody cancels (`FinishesOrBlocked`): the process is then blocked on a full pipe.

`CommandLog.tla` is what a listener may rely on: a START, each line once and in the order
of its channel, the result, one end, and nothing after it. The mapping takes the log
from `sent` and the progress of the channels from `taken`. The log promises nothing about
polling: a client that polls can see the finished snapshot before the end event
(`FinishedIsAnnounced`, stated and not checked, does not hold).

Bounds: three lines, a buffer of three and a pipe of one force trimming, blocking and
both orders of the scanners.

### Problems: the problem table, its cache and the notifications

`Problems.tla` runs any number of actors (request goroutines and listeners) through
`Upsert`, `Dismiss`, `Fix` and `Get`, each as `Find`, `Write` (the table statement),
`Cache` (under the mutex) and the listener of its event: the bridge, which routes to the
component or to Home Assistant, enqueues when Home Assistant is not ready, or takes the
queue under the lock and sends it outside (`todo` is what an actor still has to send).
`shown` is what Home Assistant shows. `Restart` loses cache, queue, tracker and every
operation in progress, and reloads the cache.

* `stores`, as system `two` (two actors, two keys, failing calls and a restart between
  any two steps): the cache is the table for every key nobody is working on
  (`CacheIsStore`). The overlap of two operations on one key is excluded here, because it
  breaks that.
* `stores`, as system `one` (one actor, two keys, two severities, a queue of four; Home
  Assistant starts, the component comes and goes and the day changes between any two steps;
  Home Assistant stops between two calls only, since the rest of a batch is lost when it stops
  within one): of a problem that is fixed, no notification stays or is left queued behind
  its dismissal (`FixedIsSilent`). Calls do not fail here: a call that fails drops the rest
  of its batch.
* `warning_lost` is a finding (two actors at work on different keys, nothing fails): an open
  warning whose call is over need not be shown nor be left to be created
  (`WarningIsAnnounced`), as two senders may send one key's actions in either order.

Configurations with a counterexample: `Problems_rows.cfg` (`OneRowPerKey`: two reports of a new
key both find nothing before either inserts, and no index stops the second: the tag of
`ProblemKey` has a comma where GORM wants a semicolon before `uniqueIndex`),
`Problems_ghost.cfg` (`ListedIsStored`: an upsert that overlaps a dismissal of its key leaves a
problem in the cache that the table has not) and `Problems_ready.cfg` (`ReadyFlushes`: what was
queued while Home Assistant was away stays queued when it is back, until some problem changes).
`DismissedIsSilent` is stated only: REMOVE carries the problem as it was read, so dismissing an
open problem is routed like one to be shown and creates its notification.

### WsSessions: connections, the component and the announcements

`WsSessions.tla` has for each connection the three goroutines `HandleWebSocket` (`serve`),
`readInboundMessages` (`reader`) and `ProcessWebSocketChannel` (`pump`), the sender's mutex, and
for the process the registration of the component (`component`, `connected`) and the two relays
with their listeners' buffers. The relay library is modelled from its use: both relays are
broadcast to without waiting and drop what does not fit in a listener's buffer; what makes one
"guaranteed" is a larger buffer. The peer may leave, stop reading, or hang; the component
reconnects. The announcer reads the settings and queues its message in two steps, on HELO in the
reader's goroutine and on CLEAN in the restart's. The settings change at any moment of either.

* `reports`, as system `helo` (a session of the component and a browser that may stop
  reading or hang in any step): the HELO of a component whose pump listens is answered
  (`HeloIsAnswered`).
* `reports`, as system `settings` (a session of the component, two changes of the settings, at
  every interleaving of handler, reader, pump and announcers): a component that listens gets
  the stored settings after every change whose CLEAN is still to come (`SettingsAreAnnounced`),
  since each CLEAN is one more announcement, and it reads the settings after the change.
* In both, once every handler has ended nobody is remembered (`NobodyIsRemembered`), as long as
  writes do not fail. Sessions that overlap are covered by the theorem `NothingIsLeft`.

Configurations with a counterexample: `WsSessions_stale.cfg` (`ViewBecomesCurrent`: an
announcement that has read the settings is overtaken by a change and its CLEAN, and is queued
last, so that the component keeps the old settings; the comment at `mdns_service.go:77-78` says that settings
changes are re-broadcast to the connected component), `WsSessions_ghost.cfg`
(`NobodyIsRemembered`: a ping fails while the HELO is handled, and the component is registered
after its clean-up), `WsSessions_known.cfg` (`ComponentIsKnown`: a browser that leaves clears
the component's registration) and `WsSessions_stuck.cfg` (`StuckIsDropped`: a ping to a peer
that has stopped reading blocks the goroutine that should notice). `EveryHeloIsAnswered` is
stated only: pump and reader start as two goroutines, and a HELO that is handled before the
pump listens is announced to nobody. So is `ClientsAreCounted`: pumps outlive their connections
and keep being counted.

Bounds: the ordinary buffer has room for one message, where the code has 5, so that it
overflows; the guaranteed one has room for the three messages the run can queue (a HELO and
two CLEANs), where the code has 100, so that it does not fill up.

Not in the module: shutdown, the copy of each message to Home Assistant's event API,
message numbers, and the CLEAN of a `PUT /samba/apply` beside that of a callback: the announcer
hears one CLEAN at a time.

### Volumes: disks, mount points and the kernel

`Volumes.tla` follows what is plugged in and what the kernel has mounted into the disk
map and the table of mount points, and mounts what should be mounted.

| Model | Code |
|---|---|
| `present`, `mounted`, `queue`, `Plug`, `Unplug` | the host: device nodes and the supervisor's answer, the mount table, udev events not yet taken |
| `known`, `cache`, `Put`, `Replace` | `dto.DiskMap`: the partitions in it and their mount points by path |
| `flight`, `RefreshBegin` ... `RefreshEnd` | `getVolumesData` in its singleflight group |
| `LoadRows` ... `SweptAll` | `handlePartitionEvent`: rows, `procfs`, the sweep of what was not seen |
| `Event` | `handleMountPointEvent`: store the mount point, mount it if it should be |
| `AlreadyMounted`, `MountFails`, `MountPartition`, `Mounted` | `MountVolume` and the manager's `Mount` |
| `UnmountFails`, `UnmountPartition`, `Unmounted` | the manager's `Unmount`: event first, map after |
| `RequestMount`, `RequestUnmount`, `RequestPatch`, `Patched` | the requests |
| `UdevAddDisk` ... `ReleasedAll` | the udev loop with its handlers |
| `shown` | failure notifications, by what their id is made of: a path when created, a device when dismissed |

The event bus calls its listeners within the emit, so an event is handled inside the
step that emits it: `back` is where the emitter goes on. A step ends at each access to
the database, the kernel and the map. The code compares refresh versions for equality
only, and so the model keeps one bit per entry, whether its version is the current one,
which `RefreshBegin` clears everywhere.

* `stores`, as system `volumes` (two partitions of one disk, a path for each, one actor, up
  to three udev events waiting; mounts and unmounts may fail): when every event and request
  has been handled, the entry of a plugged partition marks exactly what the kernel has
  mounted (`MapIsKernel`), a plugged volume that is to be mounted at startup is mounted or
  its failure was shown (`StartupIsMountedOrShown`), and no event has stored an older
  automount setting over the last one (`StartupIsKept`). Deadlock is checked there:
  a behaviour of a system that has nothing left to do stutters (`Rests`).

One actor means that requests, the udev loop and refreshes are handled one at a time,
in any order, while the hardware changes between any two steps of a handler. Three
events waiting are enough for a disk to be replugged while its removal is handled. One
disk and one actor are the limits of what holds. With two disks a sweep files a mount
point of one disk under a partition of the other, which breaks `OwnMountPoints`,
`StartupIsKept` and, after a swap of disks, `RightDevice`: the new disk's partition is
mounted at the old one's path (`Volumes_device.cfg`). With two actors a refresh joined
in the singleflight group misses a partition plugged after it read the hardware, and
`MapIsKernel` fails. `FailureIsDismissed` needs neither to fail: the notification of a
failed automount is created under an id made from the path and dismissed under one made
from the device. `HandlersEnd` is stated only.

Assumed: the supervisor answers and `procfs` can be read; each partition has a device
path; the id that the udev loop computes for a removed disk is the map's key; the
hardware cache is invalid whenever a refresh starts; each path has one partition that
users mount there. Not modelled: shares, SMART and power in the map, mount flags,
protected mode, mounts made by other programs. A mount that finds its partition gone
from the map ends its handler, as the nil dereference there does.

### ShareMounts: shares and Home Assistant's network mounts

`ShareMounts.tla` follows the shares into the mounts that Home Assistant's supervisor keeps
of them.

| Model | Code |
|---|---|
| `row`, `vol`, `nfs` | the table of shares with its soft delete, the mounted volumes, `HAUseNFS` |
| `CreateShare` ... `DeleteShare`, `VolumeChanges`, `SettingsChange` | the requests and mount-point events, each a store and its event |
| `Mark`, `MustUnmount`, `UnmountLooks`, `UnmountErases`, `Arm` | the event's listeners in the order of subscription: tracker, supervisor service |
| `Fire`, `RunFails`, `Clean`, `HealthArm`, `AppConfigChanges` | the tracker in short: a run succeeds with a CLEAN or fails |
| `HomeAssistantStarts`, `HomeAssistantStops`, `CheckClean` | the web socket's events and `IsClean` |
| `ListShares` ... `EraseLost` | one pass of `mountHaStorage` over all shares, call by call |

`shares` (one share of two usages, two editors, two changes, configuration runs that fail):
whenever Home Assistant stays up, its mounts come to be what the shares say, and stay so
(`MountsFollow`). Two editors put a change between any two calls of a pass.

Simplifications and limits. `Prompt` assumes that the timer's five seconds outlast what is
left of a request. `Faults` names what may fail: with "call", "update" or "clean"
`MountsFollow` is violated, because after a failed call of the supervisor nothing retries
until the next change or start of Home Assistant. `MountsFollowAnyhow` (with the AppConfig
flag set, which starts no run) is stated only, and so is `SettledFollows`. `mounts`
abstracts the address: `UpdateMount` sends an NFS path without the `/mnt/` prefix handling
that `CreateMount` has (`supervisor_service.go:319` and `:269`).

### FilesystemTasks: formatting, checking and labelling a device

`FilesystemTasks.tla` has a goroutine per task (`StartOperation`, `Announce`, `Launch`, `Poll`,
`Report`, `AdapterEnds`, `Flush`, `FinalEvent`, `FinishOperation`), its tool (`Writes`,
`Exits`), the requests that abort (`AbortLooks`, `AbortCancels`) and the readers of states
with the cache of answers (`Query`, `Cache`). `active` is `activeOperationInfo`, `told` the
last event about a device.

`jobs`, as system `tasks` (one device, two tasks of any kind, one abort, one reader, a tool of
one line): two tools never work on a device at once, except a cancelled check whose tool is
still dying (`ToolsExclude`); the last event about a free device is the end of its last
task, and about a busy one it is of the task in progress (`LastWordIsFinal`); an abort never
cancels another task than the check it looked up (`AbortHitsItsCheck`).

`FilesystemTasks_abort.cfg` has a counterexample (`OneToolPerDevice` without the exception).
Stated only: `AllIsShown` (with more lines than the runner's buffer holds, the polled index
points past those that it has dropped), `CacheIsCurrent` (a query
that began before a flush stores its answer after it, with `Overlap`), `AbortedEnds`. Seen on
the way: a task announces its end twice, by the adapter and by the service; setting a label
takes no operation lock; the two goroutines that drain a command's output append to one
slice without a lock.

### FilesystemTools: what the adapters make of their tools

`FilesystemTools.tla` has one device with one of twelve filesystems, `damage` that may be
fixable or lasting, a label, and callers that format, check, label and ask. `Outcomes` is
what the tool of a call may answer, as the adapters' comments describe it (external);
`TaskResult`, `LabelAccess` and `StateOf` are what each adapter makes of exit codes and
words; `cache` keeps answers by command line (`Remember`, `Keep`, `Flush`, `Expire`).

`stores`, as system `tools` (all filesystems, two callers, three calls, damage that appears
in use): an answer served from the cache was true at some moment since the last change
that somebody was told of (`AnswersAreTrue`); what a check says is how its tool left the
device (`ChecksAreTrue`).

Limits: a flush does not overlap an unanswered question (`Overlap`, which breaks
`AnswersAreTrue`); only the tools of `Failing` (exfat) fail for other reasons; states are
judged for `Trusted`, all but ext4, whose "not clean" contains "clean", and apfs. The
device keeps its type when formatted; btrfs's two state commands are one; the mounted flag
matters for NTFS only, whose state is then the last unmounted one or assumed clean. Facts met
and modelled: the check of hfsplus has no AutoFix switch; f2fs and hfsplus ask for a state
with a command that may repair, and ignore its failure; vfat and xfs take an operational
failure for errors of the filesystem; failed answers are kept half an hour like others.

### Upgrade: the server replaces itself

`Upgrade.tla` has the jobs that install: the loop's `AutoUpdate`, a goroutine of each
`PUT /update` (`UpdateHandler`), the develop watcher (`Deploy`, `Debounced`). A package is
extracted to one shared directory and verified with one shared verifier (`ExtractLoads`,
`ExtractApplies`), then each file is compared, and refused or replaced (`Check`, `Apply`),
the link is set (`UpdateServerSymlink`) and the process asks for its end (`Shutdown`); `Stops`
and `Start` are s6.

`jobs`, as system `updates` (two jobs, three files, three versions, two troubles: requests,
copies, failed steps, restarts): a server goes down for an update only when the whole
package is in (`RestartIsWhole`), what an update puts in place is newer than the process, or on
the develop channel than what it replaces (`InstallsAreNewer`), and
on a host whose link names the static build every release gets to run (`StaticArrives`).

`upgrade_dynamic` is a finding: on a host whose link names a dynamic build no release
completes (`ReleaseArrives`). Limits: `FilesNeverGoBack` is stated only, since of two updates
at once the older one may put its variant over that of a newer one that has failed (it
compares with the target of the link); two callbacks of the develop watcher at a time break
`RestartIsWhole`, as each restarts its own 500 ms timer (`upgrade_service.go:272`), and
`Callbacks` has one; `RestartIsForward` is stated only; `selfupdate.Apply` is one step; s6 is assumed to
start the server. `seenModTimes` of the develop watcher is read and written without a lock
(`upgrade_service.go:262` and `:295`), which is not modelled.

### HaSocket, ConfigWatcher and HDIdle

`HaSocket.tla` is the web socket to Home Assistant: `Dial`, `HelloSucceeds`, `Lost`, `Ended`
are `connectLoop`, `Read` and `ReadFails` the reader, `Register` ... `Abandoned` one request,
`OnHaConnected` and `OnHaDisconnected` the listeners of `HaWsService`. `monitors`, as system
`socket` (three subscriptions, two connections, a request written into a handshake): once
the client is closed nobody waits for an answer (`NobodyWaits`). Stated only, and most of
them not so in the code: `HandlersAreSubscribed` (a new connection subscribes nothing),
`DialsAgain` (a reading error closes for good), `EventsAreHandled`, `AnswersArrive`,
`ReadyIsConnected`. Left out: the context timeouts of requests, the Retrying events,
`doRequest`; `writeJSON` takes a read lock, so that two writers may write at once.

`ConfigWatcher.tla` has the three paths that notice a change of the add-on's options
(`SupervisorEvent`, `FileEvent` with `Debounced`, `Tick`), `Hash` and `MaybeNotify`. `monitors`, as
system `watcher` (a change and the change back, missed events, one failing reading): the
content announced last is, in the end, the content (`LastIsAnnounced`).
`NothingOldIsAnnounced` is stated only: a reading that was overtaken is announced, and the
ticker puts it right.

`HDIdle.tla` has the requests that save a disk's setting and restart the monitor
(`SaveDeviceConfig`, `Stop`, `ConvertConfig`, `Install`) and the monitors
(`ObserveDiskActivity`, `LoopEnds`); `Minute` and `Sleep` are time. `monitors`, as system `disks`
(one disk, two callers, idle times 0, 1 and 2, two changes, one sleep): every monitor but
the one that `stopChan` names has been told to end (`StartedOnce`), a disk is sent down only
after its idle time (`OnlyIdleDisksSpinDown`), and one that rests is sent down
(`IdleDisksSpinDown`). One disk, because disks only meet in the interval; the minute is the
unit, and times are told apart up to one above the longest idle time. `IgnoreSpinDown` is
the constant false it is in the code. `RunsTheRows` and `DownIsDown` are stated only.

### DiskStats and SmartTests

`DiskStats.tla` is the S.M.A.R.T. part of the disk statistics: `run()` (`Tick`, `AskForData`,
`ReadStatus`, `AskForInfo`, `ReadInfo`), the requests that switch a disk (`Check`, `Switch`,
`OnSmart`) and the setting (`PutSetting`, `OnSetting`). `reports`, as system `readings` (one
request, two changes, one failure): no reading is older than six ticks
(`ReadingsAreFresh`), and the readings come to say what disk and setting say
(`ReadingsFollowHere`). `CacheIsTrue` is stated only: an answer from before an event is
remembered after it. "Suspend" is never sent, since server events are always CLEAN, and is
left out.

`SmartTests.tla` has the self-tests: `StartSelfTest`, `EmitFinal`, `AbortSelfTest` under the
service's mutex and a goroutine per test (`TellStarted`, `Poll`, `Over`). `smart_told` is a
finding: the last event of a test that is over says that it runs (`ToldWhenOver`).
`PollersEnd` and `OneFollows` are stated only.

### UserAccounts, CustomComponent and Hardware

`UserAccounts.tla`: a user is a row, an account of the system and an entry of Samba
(`row`, `unix`, `samba`); a request is `CreateUser`, `ReadUser` (for an update) or `DeleteUser`
followed by one command a step, and holds the one database connection (`db`) where the code
has a transaction open. `Start` replays the rows. `command`, as system `users` (three names,
two callers, three requests, one failure, two starts): whoever no failure has touched
logs in with the row's password and nobody else does (`LoginsWork`); every request ends and
gives the connection back (`RequestsEnd`). Requests about one user do not overlap
(`Overlap`). Left out: events, the user `_ha_mount_user_`, shares of users, several
administrators; `CheckSambaUser` is folded into the commands; names that become one account
without their spaces (`Aliases`) are a constant the run sets to none.

`CustomComponent.tla`: a request resolves a version, removes the directory and extracts file
by file (`Resolve`, `RemoveAll`, `MakeDir`, `OpenFile`, `CopyFile`) or only removes; then the
problem that asks for a restart is opened (`Ask`) and later dismissed. `stores`, as system
`component` (two callers, three requests, one failure, crashes): the last request to have
removed the directory has what it reported (`LastRemoverGets`), and whatever Home Assistant
has not loaded is asked for (`RestartIsAsked`). Limits: an installation beside a removal
(`Overlap`) breaks the first; the add-on's own restart (operation "addon") dismisses the
question without restarting Home Assistant, which breaks the second; a develop version below
the embedded one lets an installation beside another downgrade, and one older than what is
installed lets two installations extract different archives into one directory, which breaks
the first again. A manifest cut short makes
every status fail (`StatusAnswers`, stated only).

`Hardware.tla`: the cache of the supervisor's answer (`LookIntoCache`, `AskSupervisor`,
`StoreAnswer`, `InvalidateHardwareInfo`, `Expire`), the refreshes of volumes that join one
another (`GetVolumesData`) and a reader beside them (`Read`). The hardware is a version.
`stores`, as system `hardware` (two versions, two calls, failing answers): the disk map is
never filled from older hardware than before (`MapNeverGoesBack`). It is not always filled
from the newest (`MapIsHardware`, stated only), and a caller may get an answer older than an
invalidation before its call (`NextCallIsFresh`, `Hardware_stale.cfg` with a counterexample).

### The event bus in the modules

The bus has no state but its listeners. A delivery is synchronous, in the order of
subscription, and ends at the first listener that fails; a panic counts as success, and
nothing is delivered once the application's context is cancelled. Each module models the
listeners it is about inside the step, or the sequence of steps, that emits.

## Findings

* `upgrade_dynamic`: each server variant of a package is compared with the file that the link
  names. Once the package has replaced that file, every later variant is "same version" and
  the package ends with an error: the link stays and no restart is asked for, against
  `docs/AUTO_UPDATE_SYSTEM.md:78-80`.
* `warning_lost`: `flushQueue` takes the queue under its lock and sends outside it. While Home
  Assistant is away a problem is reported and fixed, which queues a creation and a dismissal;
  then a call about another problem takes that queue, the first problem comes back and its
  notification is created at once, and the dismissal of before arrives after it. The problem is
  open and has no notification until it is reported again, against
  `problem_ha_bridge.go:101-102`.
* `smart_told`: the event with Running=false that, by its comment (`smart_service.go:379`),
  comes after the test finishes comes when the test has been started, and every later one
  says Running=true.

## Deadlock and fairness

Deadlock is checked in the DirtyRestart runs and in `stores`. It is not where a bounded system
really stops: the clients have left, the command is over, the requests and changes are used up.

The goroutines of the service go on (weak fairness per goroutine). Where a goroutine
waits for a mutex that others take again and again, or a `select` has a case that is
ready again and again, fairness is strong: `sync.Mutex` hands itself to a waiter that has
starved for a millisecond, and `select` chooses at random. Nothing is assumed of users, peers,
Home Assistant, failures or cancellation. By module:

* DirtyRestart, ShareMounts: timers expire, the health loop ticks, waiters get the mutex; in
  ShareMounts not every run fails.
* CommandExec: a killed process ends; nothing else is assumed of the process. UserAccounts:
  commands end.
* WsSessions: progress of the goroutines of the component's session and of the one that
  announces on CLEAN, none of the browser's, so that what is shown holds whatever that does.
* DiskStats: `run()` goes on, so CLEAN events do not restart its ten seconds for ever; a
  cache entry that says no expires, since looking it up does not renew it (one that says yes
  is renewed). SmartTests: the following goroutines go on; the disk need not end its test.
* HaSocket: a handshake need not succeed. ConfigWatcher: only the ticker is counted on.
* HDIdle: requests are served, monitors run, minutes pass. FilesystemTasks: nothing of the tool.
* Upgrade: the loop looks again, s6 starts the server.
* `stores` checks safety only and assumes nothing.

## Proofs

TLAPS proves the following for every value of the constants that the named assumptions of the
modules allow; a further hypothesis of a theorem is named with it. The runs check the same
properties on small instances.

`DirtyRestartProofs.tla` (any set of writers, deleters, timers and services, any bound):

* `TypeCorrect`: `Spec => []TypeOK`, by `TypeInv`, which adds the kind that a writer
  between its two steps carries (`KindKnown`).
* `OnlyVettedIsLoaded`: if nobody calls `/samba/apply`, whatever fails, `ReloadsVetted`.
  The property is not inductive: it needs that a run in progress belongs to a callback
  holding the mutex, so that two runs never overlap (`Exclusion`), and that what is in the
  file past the test is what was tested. `LockInv` is the conjunction.
* `ChangesArePending` and `OneTimerArmed`: without failures, deletes and applies
  (`Unfailing`), `StaleFileIsPending` and `ArmedIsReferenced`. `PendingInv` says of each
  kind who accounts for it: a writer that has not armed yet, a run that has not
  rendered, a run that has rendered this version, the file itself, or, while no callback
  runs, a live timer or a flag. The qualification "while no callback runs" is the heart
  of it: a timer armed during a run is stopped by that run's CLEAN, and is needed only
  for changes made after the run rendered, which by then have their own writer or flag.
* `ImplementsPipeline`: without applies, `Spec => NeverGoesBack`, the refinement of
  `ConfigPipeline`. Initial states map to initial states; of the steps, a store is `Change`, a
  write `Publish`, a restart or reload `Take`, and the others stutter. It rests on `LockInv` and
  `PipeInv`: the file is never ahead of the database, and what a run is about to write is
  between the two.
* `CleanIsDeserved`: without applies, `CleanReported`, whatever fails or dies. `CleanInv` says
  that a run which has written still finds its own file (`OwnFile`), and that the services it
  has behind it have taken from the file what its flags ask for (`VisitedTook`); a service that
  has a process is in the status when its turn comes, so its turn is not skipped.

`CommandsProofs.tla` (any channels, lines, buffer and pipe; any names, passwords and requests):

* `TypeCorrect`; `EndComesLast` (`TerminalIsLast`); `FinishedStays` (`FinishedIsFinal`).
* `ImplementsLog`: `Spec => KeepsTheLog`, the refinement of `CommandLog`.
* `ShownIsTrue` (`SnapshotIsTrue`). `ShownInv` adds to the tail of the buffer
  (`BufferIsTail`) that each line a scanner has taken was announced, in order, but for the
  one it is about to announce (`AllAnnounced`), and that a scanner ends at the end of what
  was written unless it was cancelled or overrun, the waiter calling it a success then only
  (`Drained`).
  The property speaks of positions in the buffer: a definition that selects a channel's lines
  into a sequence of their own needs induction over the sequence.
* `UsersLogIn` (`LoginsWork`), for any usernames, passwords, requests, failures and starts.
  `UsersInv` says of a request at each of its commands what it has done to the user it is about
  and what it has left to do (`Halfway`), that whoever no request is about logs in as the row
  says (`OthersAreRight`), and that an open transaction is the one of the request that is in
  one and holds back no other row (`HolderUpdates`). Hypotheses: requests at a time are about
  different users and a username keeps an account of its own (`Separate`), as in the run;
  `None` is apart from rows, requests and passwords (`UsersAssumption`).

`ReportsProofs.tla`:

* `NothingIsLeft`: if writes do not fail, `NobodyIsRemembered`, for every number of
  sessions. The invariant adds that a handler outlives its reader
  (`HandlerOutlivesReader`), which is what a failing ping breaks, and that whatever has
  set the component is matched by a handler that has still to clear it (`Witnessed`).
* `Fresh` (`ReadingsAreFresh`), for any requests, changes and failures. A reading, and one that
  the update in progress may take over, is younger than the round of ticks that began with the
  last heavy one (`OfThisRound`).

`JobsProofs.tla` (any devices, tasks, aborts, readers, lines and buffer; any jobs and releases):

* `TypeCorrect`, `ToolsAreExclusive` (`ToolsExclude`), `LastWordStands` (`LastWordIsFinal`),
  `AbortsHitChecks` (`AbortHitsItsCheck`). The invariant says which stages a registered
  task may be in and that no other task of the device is in one of them, when a tool
  outlives its task, whom an abort has looked up, and which event was the last.
* `PackageIsWhole` (`RestartIsWhole`) and `NothingOldIsInstalled` (`InstallsAreNewer`), for any
  number of updates that share the directory and the verifier. On the release channels
  (`ReleaseAhead`) whatever a signature was loaded for is newer than the process, and so is what
  a job wants and what it has put in, though it need not be the release the job began with; on
  the develop channel (`CopiesAhead`) a file is at most what was copied last and at least what
  the one callback wants. Hypotheses (`UpdatesAssumption`): the image has the static build, the
  loop is a job, `None` is no opened file, and two callbacks of the watcher do not run at once.

`HDIdleProofs.tla` (any disks, callers, idle times): `TypeCorrect`; `EveryMonitorStops`
(`StartedOnce`), by `Numbered`: the monitors are numbered in the order of their starts, and
`stopChan` names one of them; `OnlyIdle` (`OnlyIdleDisksSpinDown`), by `Known`: a monitor has
counted no longer rest than the disk has had, unless the counters have changed since, and
compares it with the idle time of the running configuration, since each start forgets what
was known of the disks.

`ProblemsProofs.tla`:

* `ListedIsTrue` (`CacheIsStore`): when two calls are never about one key at once, whatever
  write fails and whenever the program restarts, for any actors, keys and severities. `StoreInv` says of each call between its steps what it has
  found, written and still to put into the cache. The hypothesis is what `Problems_rows.cfg`
  and `Problems_ghost.cfg` show to be necessary.
* `FixedStaysSilent` (`FixedIsSilent`): for one caller without failures and restarts, Home
  Assistant stopping between calls only, for any number of keys and a queue of any length.
  `NoteInv` says of each key whose row is fixed that the last action queued or in the batch
  dismisses, or that there is none and nothing is shown (`Silences`), unless a call is between
  the row and the routing of its change (`Unrouted`). One caller is a real limit: the property
  speaks of one queue, and what two senders may do to one key is in the finding `warning_lost`.

`VolumesProofs.tla`, for one disk and one goroutine (`Setting`: `Actors = {Udev}`, and
`\A c, d \in Disks : c = d`), any number of partitions and mount points:

* `StartupStays` (`StartupIsKept`). The invariant `StartupInv` says that rows, mounts and entries are of their
  own partitions (`RowsAreHome`, `MountsAreHome`, `EntriesAreHome`), that an entry has the
  setting stored last unless the step that brings it is still to come (`EntriesAreAsked`), and
  what the goroutine holds at each place of a mount, a patch and a refresh (`Holding`,
  `Mounting`, `Patching`, `Refreshing`). The events nest, so `Loops` says where each handler
  returns to. The hypotheses are not for convenience: with two disks a sweep files
  rows under another partition, and TLC violates `StartupIsKept`.
* `MapStaysTrue` (`MapIsKernel`) rests on two more parts. `KernelInv` ties the map to the
  kernel: what is marked is mounted but for an unmount whose event is being told (`NoGhost`);
  what is mounted is marked but for what the goroutine has yet to mark (`NoMiss`, `Marks`); a
  look at the mount table stays true while its mounts are told (`Looking`), and what a refresh
  sweeps was never mounted (`Sweeping`). `QueueInv` ties what is plugged in to the map: a
  partition that the map lacks is one that a waiting event, the refresh under way or the one
  that its handler ends in will find (`PluggedIsComing`, `Coming`); a removed disk that is back
  has its event behind that of the removal (`BackIsTold`), and so has a partition that the
  refresh under way read the hardware without (`HardwareIsTold`).
* `StartupIsTried` (`StartupIsMountedOrShown`) adds `StartsInv`: a volume that is to be mounted
  at startup and is in the map is mounted, shown, or still to be tried, and `Starts` lists
  by whom. Its one hypothesis beyond `Setting` is that no path is the name of a device
  (`PathsAreNotDevices`): `MountVolume` dismisses by an id made from the device, and would
  otherwise take away the failure shown of another volume.

`StoresProofs.tla`, for the systems of the run `stores` beside the volumes:

* `LastRemoverHasIt` (`LastRemoverGets`) and `RestartStaysAsked` (`RestartIsAsked`), for any
  requests, failures and files of the component. `ComponentInv` is over what the directory holds
  and who is in it: a file is nothing, cut, what was there first, or of the one version that
  every installation extracts; what was there first is gone once somebody has removed the
  directory, and a file that the remover has written is whole or has another request writing
  it now (`Installed`, `Written`); a file that a request writes is in the directory
  (`LinkedIsThere`). As long as nothing has failed, a directory or manifest that is missing is
  about to be made again (`DirIsMade`, `ManifestIsMade`), and what is not loaded has somebody
  who will ask (`Settled`). Hypotheses (`ComponentAssumption`): those of the run (no removal
  beside an installation, no restart of the add-on), and that no installed version is newer than
  the developer's archive. Without the last TLC violates `LastRemoverGets`: of two
  installations at once the first finds the newer version and takes the embedded archive, the
  second finds the directory removed and takes the developer's, and their files mix.
* `CacheFollowsTable` (`CacheIsStore`) and `FixedIsNotSpokenOf` (`FixedIsSilent`): the theorems of `ProblemsProofs` for the two
  instances of `Problems` that the run has, step by step (`TwoSteps`, `OneSteps`).
* `MapGoesOn` (`MapNeverGoesBack`), for any callers, udev events and failing answers. One refresh
  runs, and only it asks and stores (`AskerInv`); what the map was filled from is not newer than
  anything it can be filled from next, the cache or an answer under way (`MapIsOldest`).
  Hypothesis: no reader beside the refresh, which is what `Hardware_stale.cfg` is about.
* `ToolAnswersAreTrue` (`AnswersAreTrue`) and `ToolChecksAreTrue` (`ChecksAreTrue`), for any
  callers, labels and calls. `ExitsAre` says what a tool that looks or repairs may answer
  (`Sound`, `Mended`, `Found`), `CheckIsTruthful` and `StateIsTruthful` that each of the twelve
  adapters reads that answer as it was meant, a tool that fails included. `ToolInv` adds that
  an answer which will be kept was true when the tool gave it and is until a change is over.
  Hypotheses (`ToolAssumption`): no flush between a question and its answer (`Overlap`), and the
  states judged are not those of ext4 and apfs, nor of an adapter that takes a failure of its
  tool for an error of the filesystem, where that tool may fail.
* `StoresKeepTheirPromises`: the specification that the run checks has all seven, since a step
  of it is a step of one system and of no other (`StoresAreApart`).

What the prover cannot do, and TLC checks instead: liveness under fairness and ENABLED
(`ChangesReachTheFile`, `DirtyIsRetried`, `FinishesOrBlocked`, `RequestsEnd`,
`SettingsAreAnnounced`, `HeloIsAnswered`, `ReadingsFollowHere`, `MountsFollow`,
`StaticArrives`, `IdleDisksSpinDown`, `NobodyWaits`, `LastIsAnnounced`), and induction over
data. Every safety property that a run expects to hold is a theorem, with the hypotheses
above where it does not hold for all constants.

## What is not modelled

* Home Assistant's REST services, issue reports, telemetry, the readings of host and network:
  calls and readings without a state that two actors meet in.
* Repairs: nothing creates or enqueues one at this commit; Problems treats the routing to them
  as a sink.
* Start-up and shutdown: dependency wiring; every module starts from the state they leave.
* The database: its tables are state of the modules; only UserAccounts needs the one
  connection (`SetMaxOpenConns(1)`).
* Converters, data types, HTTP routing, generated clients: field by field copies. They are a
  large part of the 53,636 lines of the implementation; the generated clients and enumerations
  alone are about 20,000. The map covers the services that keep state.
* The web interface and the integration, which are clients of what is modelled.
* In the modelled parts: the text of configuration files, command lines, mount flags, log
  messages, and what each section above names.
