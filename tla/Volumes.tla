------------------------------ MODULE Volumes ------------------------------
(***************************************************************************)
(* The volume service (service/volume_service.go) with its mount manager   *)
(* (volume_mount_manager.go), its udev loop and the disk map they share    *)
(* (dto/disk_map.go): how the map of disks, partitions and mount points    *)
(* follows the hardware, the kernel's mount table and the rows of the      *)
(* database, and how volumes are mounted when they should be.              *)
(*                                                                         *)
(* The event bus is synchronous: a mount-point event is handled inside the *)
(* step that emits it, and its handler may mount, which emits again. An    *)
(* actor is a goroutine that runs one handler or request at a time; steps  *)
(* are split at each access to the database, the kernel and the map, which *)
(* no mutex protects. A refresh compares versions for equality only: an    *)
(* entry is "fresh" when its RefreshVersion is the current one.            *)
(***************************************************************************)
EXTENDS Naturals, Sequences

CONSTANTS
    Disks, Partitions, Paths,
    DiskOf,         \* the disk of each partition
    Home,           \* the partition that the user mounts at each path
    Actors,         \* goroutines that run handlers and requests
    Udev,           \* the one that takes the udev events
    MountMayFail,   \* may the kernel refuse a mount of a present device?
    UnmountMayFail, \* may it refuse to unmount what is mounted?
    MaxEvents,      \* bound on the udev events not yet handled
    None

ASSUME VolumesAssumption ==
    /\ DiskOf \in [Partitions -> Disks] /\ Home \in [Paths -> Partitions]
    /\ Udev \in Actors
    /\ MountMayFail \in BOOLEAN /\ UnmountMayFail \in BOOLEAN
    /\ MaxEvents \in Nat \ {0, 1}
    /\ None \notin Partitions

VARIABLES
    present,    \* partitions that are plugged in: device nodes, supervisor's answer
    mounted,    \* the kernel: the partition mounted at each path, or None
    queue,      \* udev events not yet handled
    rows,       \* the mount_point_paths table
    shown,      \* failure notifications, by what their id is computed from
    known,      \* the partitions in the disk map
    cache,      \* their MountPointData, by path
    flight,     \* the actor running getVolumesData in the singleflight group
    act,        \* what each actor is doing
    asked       \* history: the last automount setting stored for each path

hostVars == <<present, mounted, queue>>
mapVars == <<known, cache>>
vars == <<hostVars, rows, shown, mapVars, flight, act, asked>>

PartsOf(d) == {p \in Partitions : DiskOf[p] = d}

\* MountPointData: its path, the partition it refers to, its flags.
MountPoint == [path : Paths, part : Partitions \cup {None},
               startup : BOOLEAN, mounted : BOOLEAN, fresh : BOOLEAN]

NewMountPoint(x, p, startup, isMounted, fresh) ==
    [path |-> x, part |-> p, startup |-> startup, mounted |-> isMounted, fresh |-> fresh]

NoMountPoints == [x \in Paths |-> None]

\* The paths listed in the entry of partition p.
Listed(p) == {x \in Paths : cache[p][x] # None}

\* An actor that is doing nothing.
Resting == [pc |-> "idle", job |-> "none", on |-> None, md |-> None, patch |-> None, auto |-> FALSE,
            back |-> "idle", handled |-> FALSE, hw |-> {}, disks |-> {}, parts |-> {},
            seen |-> [x \in Paths |-> None], left |-> {}, stale |-> {}]

\* The Home Assistant start event finds an empty map, any table and any mounts.
Init ==
    /\ present \in SUBSET Partitions
    /\ mounted \in {m \in [Paths -> Partitions \cup {None}] :
                        \A x \in Paths : m[x] = None \/ (m[x] = Home[x] /\ m[x] \in present)}
    /\ queue = <<>>
    /\ rows \in {r \in [Paths -> [part : Partitions, startup : BOOLEAN] \cup {None}] :
                     \A x \in Paths : r[x] = None \/ r[x].part = Home[x]}
    /\ shown = {}
    /\ known = {} /\ cache = [p \in Partitions |-> NoMountPoints]
    /\ flight = None
    /\ act = [a \in Actors |->
                 IF a = Udev THEN [Resting EXCEPT !.pc = "refresh", !.job = "start"] ELSE Resting]
    /\ asked = [x \in Paths |-> rows[x] # None /\ rows[x].startup]

-----------------------------------------------------------------------------
(* The host *)

\* A partition appears; its disk with it when it is the first one.
Plug(p) ==
    /\ p \notin present /\ Len(queue) + 2 <= MaxEvents
    /\ present' = present \cup {p}
    /\ queue' = queue \o (IF present \cap PartsOf(DiskOf[p]) = {}
                          THEN <<[kind |-> "addDisk", part |-> p]>> ELSE <<>>)
                      \o <<[kind |-> "add", part |-> p]>>
    /\ UNCHANGED <<mounted, rows, shown, mapVars, flight, act, asked>>

\* A partition disappears without being unmounted.
Unplug(p) ==
    /\ p \in present /\ Len(queue) + 2 <= MaxEvents
    /\ present' = present \ {p}
    /\ queue' = queue \o <<[kind |-> "remove", part |-> p]>>
                      \o (IF present \cap PartsOf(DiskOf[p]) = {p}
                          THEN <<[kind |-> "removeDisk", part |-> p]>> ELSE <<>>)
    /\ UNCHANGED <<mounted, rows, shown, mapVars, flight, act, asked>>

-----------------------------------------------------------------------------
(* The disk map *)

\* AddOrUpdateMountPoint, which does nothing when the partition is not known.
Put(p, mp) ==
    cache' = IF p \in known THEN [cache EXCEPT ![p][mp.path] = mp] ELSE cache

\* The map when the partitions in gone leave it and those in come enter it
\* without mount points.
Replace(gone, come) ==
    /\ known' = (known \ gone) \cup come
    /\ cache' = [p \in Partitions |-> IF p \in gone \cup come THEN NoMountPoints ELSE cache[p]]

-----------------------------------------------------------------------------
(* Control *)

At(a, pc) == act[a].pc = pc

\* The actor goes to pc, or rests.
Go(a, pc) == act' = [act EXCEPT ![a] = IF pc = "idle" THEN Resting ELSE [@ EXCEPT !.pc = pc]]

\* The actor emits a mount-point event of md; what follows it is at back.
Emit(a, md, back) ==
    act' = [act EXCEPT ![a].pc = "event", ![a].md = md, ![a].back = back]

-----------------------------------------------------------------------------
(* getVolumesData *)

\* Where a caller of getVolumesData goes on.
AfterRefresh(r) == IF r.job = "patch" THEN [r EXCEPT !.pc = "patched"] ELSE Resting

AgeOf(mp) == IF mp = None THEN None ELSE [mp EXCEPT !.fresh = FALSE]

\* A new version makes every entry stale; the hardware service asks the
\* supervisor, its cache having been invalidated. A caller that finds a
\* refresh in progress waits for its end.
RefreshBegin(a) ==
    /\ At(a, "refresh")
    /\ IF flight # None
       THEN Go(a, "join") /\ UNCHANGED <<flight, cache>>
       ELSE /\ flight' = a
            /\ cache' = [p \in Partitions |-> [x \in Paths |-> AgeOf(cache[p][x])]]
            /\ act' = [b \in Actors |->
                  IF b = a THEN [act[a] EXCEPT !.pc = "disk", !.hw = present,
                                               !.disks = {DiskOf[p] : p \in present}]
                           ELSE [act[b] EXCEPT !.md = AgeOf(@)]]
    /\ UNCHANGED <<hostVars, rows, shown, known, asked>>

\* The next disk of the hardware replaces the one in the map.
RefreshDisk(a) ==
    /\ At(a, "disk")
    /\ \E d \in act[a].disks :
          /\ Replace(PartsOf(d), act[a].hw \cap PartsOf(d))
          /\ act' = [act EXCEPT ![a].pc = "part", ![a].disks = @ \ {d},
                                ![a].parts = act[a].hw \cap PartsOf(d)]
    /\ UNCHANGED <<hostVars, rows, shown, flight, asked>>

\* The refresh ends for its caller and for those that joined it.
RefreshEnd(a) ==
    /\ At(a, "disk") /\ act[a].disks = {}
    /\ flight' = None
    /\ act' = [b \in Actors |-> IF b = a \/ At(b, "join") THEN AfterRefresh(act[b]) ELSE act[b]]
    /\ UNCHANGED <<hostVars, rows, shown, mapVars, asked>>

-----------------------------------------------------------------------------
(* handlePartitionEvent *)

\* The rows of the partition enter the map, marked by a look at the kernel.
LoadRows(a) ==
    /\ At(a, "part")
    /\ \E p \in act[a].parts :
          /\ cache' = [cache EXCEPT ![p] = [x \in Paths |->
                 IF p \in known /\ rows[x] # None /\ rows[x].part = p
                 THEN NewMountPoint(x, p, rows[x].startup, mounted[x] # None, FALSE)
                 ELSE @[x]]]
          /\ act' = [act EXCEPT ![a].pc = "procfs", ![a].on = p, ![a].parts = @ \ {p}]
    /\ UNCHANGED <<hostVars, rows, shown, known, flight, asked>>

NextDisk(a) ==
    /\ At(a, "part") /\ act[a].parts = {}
    /\ Go(a, "disk")
    /\ UNCHANGED <<hostVars, rows, shown, mapVars, flight, asked>>

ReadMounts(a) ==
    /\ At(a, "procfs")
    /\ act' = [act EXCEPT ![a].pc = "seen", ![a].seen = mounted,
                          ![a].left = {x \in Paths : mounted[x] # None}]
    /\ UNCHANGED <<hostVars, rows, shown, mapVars, flight, asked>>

\* A mount that the entry lists by its path, or else one of its device.
SeeMount(a) ==
    /\ At(a, "seen")
    /\ \E x \in act[a].left :
          LET p == act[a].on
              old == cache[p][x]
              found == p \in known /\ old # None
              ours == act[a].seen[x] = p
              mp == IF found THEN [old EXCEPT !.mounted = TRUE, !.fresh = TRUE]
                             ELSE NewMountPoint(x, p, FALSE, TRUE, TRUE)
              rest == [act EXCEPT ![a].left = @ \ {x}]
          IN /\ IF found \/ ours THEN Put(p, mp) ELSE UNCHANGED cache
             /\ act' = IF p \in known /\ (IF found THEN ~old.mounted ELSE ours)
                       THEN [rest EXCEPT ![a].pc = "event", ![a].md = mp, ![a].back = "seen"]
                       ELSE rest
    /\ UNCHANGED <<hostVars, rows, shown, known, flight, asked>>

\* GetAllMountPoints: of every partition, those the refresh has not seen and
\* that are marked as mounted or to be mounted.
SeenAll(a) ==
    /\ At(a, "seen") /\ act[a].left = {}
    /\ act' = [act EXCEPT ![a].pc = "sweep", ![a].stale =
          {s \in known \X MountPoint :
              /\ cache[s[1]][s[2].path] = s[2]
              /\ ~s[2].fresh /\ (s[2].mounted \/ s[2].startup)}]
    /\ UNCHANGED <<hostVars, rows, shown, mapVars, flight, asked>>

\* Mutant of Sweep: the entry is updated and nobody is told.
SweepSilently(a) ==
    /\ At(a, "sweep")
    /\ \E s \in act[a].stale :
          /\ Put(act[a].on, [s[2] EXCEPT !.mounted = FALSE, !.fresh = TRUE])
          /\ act' = [act EXCEPT ![a].stale = @ \ {s}]
    /\ UNCHANGED <<hostVars, rows, shown, known, flight, asked>>

\* Each is marked as not mounted, in the entry of the event's partition.
Sweep(a) ==
    /\ At(a, "sweep")
    /\ \E s \in act[a].stale :
          LET mp == [s[2] EXCEPT !.mounted = FALSE, !.fresh = TRUE]
              rest == [act EXCEPT ![a].stale = @ \ {s}]
          IN /\ Put(act[a].on, mp)
             /\ act' = IF act[a].on \in known
                       THEN [rest EXCEPT ![a].pc = "event", ![a].md = mp, ![a].back = "sweep"]
                       ELSE rest
    /\ UNCHANGED <<hostVars, rows, shown, known, flight, asked>>

SweptAll(a) ==
    /\ At(a, "sweep") /\ act[a].stale = {}
    /\ Go(a, "part")
    /\ UNCHANGED <<hostVars, rows, shown, mapVars, flight, asked>>

-----------------------------------------------------------------------------
(* handleMountPointEvent and MountVolume *)

\* The mount point is stored as it is in the event, then mounted if it should be.
Event(a) ==
    LET md == act[a].md IN
    /\ At(a, "event")
    /\ rows' = [rows EXCEPT ![md.path] = [part |-> md.part, startup |-> md.startup]]
    /\ asked' = IF act[a].job = "mount" THEN [asked EXCEPT ![md.path] = md.startup] ELSE asked
    /\ IF md.startup /\ ~md.mounted
       THEN act' = [act EXCEPT ![a].pc = "mount", ![a].auto = TRUE]
       ELSE Go(a, act[a].back)
    /\ UNCHANGED <<hostVars, shown, mapVars, flight>>

\* A mount point whose partition was not found has no device.
HasDevice(a) ==
    /\ act[a].md.part \in present
    /\ act[a].job = "patch" => act[a].md.part \in known

\* The path is in use: an error that an automatic mount ignores.
AlreadyMounted(a) ==
    /\ At(a, "mount") /\ mounted[act[a].md.path] # None
    /\ Go(a, act[a].back)
    /\ UNCHANGED <<hostVars, rows, shown, mapVars, flight, asked>>

\* createAutomountFailureNotification computes its id from the path.
MountFails(a) ==
    /\ At(a, "mount") /\ mounted[act[a].md.path] = None
    /\ ~HasDevice(a) \/ MountMayFail
    /\ shown' = IF act[a].auto THEN shown \cup {act[a].md.path} ELSE shown
    /\ Go(a, act[a].back)
    /\ UNCHANGED <<hostVars, rows, mapVars, flight, asked>>

MountPartition(a) ==
    /\ At(a, "mount") /\ mounted[act[a].md.path] = None /\ HasDevice(a)
    /\ mounted' = [mounted EXCEPT ![act[a].md.path] = act[a].md.part]
    /\ Go(a, "mounted")
    /\ UNCHANGED <<present, queue, rows, shown, mapVars, flight, asked>>

\* The map learns of the mount and the event is emitted; the notifications
\* dismissed are those whose id is computed from the device. A partition that
\* has left the map ends the handler with a nil dereference, which the event
\* bus and the web server recover from.
Mounted(a) ==
    LET md == [act[a].md EXCEPT !.mounted = TRUE] IN
    /\ At(a, "mounted")
    /\ Put(md.part, md)
    /\ IF md.part \in known
       THEN /\ shown' = shown \ {md.part}
            /\ act' = [act EXCEPT ![a].pc = "event", ![a].handled = TRUE, ![a].md = md]
       ELSE UNCHANGED shown /\ Go(a, act[a].back)
    /\ UNCHANGED <<hostVars, rows, known, flight, asked>>

-----------------------------------------------------------------------------
(* Unmount *)

AfterUnmount(a) == IF act[a].job = "remove" THEN "remove" ELSE "idle"

UnmountFails(a) ==
    /\ At(a, "unmount")
    /\ UnmountMayFail \/ mounted[act[a].md.path] = None
    /\ Go(a, AfterUnmount(a))
    /\ UNCHANGED <<hostVars, rows, shown, mapVars, flight, asked>>

\* The event goes out before the map is updated.
UnmountPartition(a) ==
    /\ At(a, "unmount") /\ mounted[act[a].md.path] # None
    /\ mounted' = [mounted EXCEPT ![act[a].md.path] = None]
    /\ IF act[a].md.part # None
       THEN Emit(a, [act[a].md EXCEPT !.mounted = FALSE], "unmounted")
       ELSE Go(a, AfterUnmount(a))
    /\ UNCHANGED <<present, queue, rows, shown, mapVars, flight, asked>>

\* Mutant of Unmounted: the map is not updated.
UnmountedForgotten(a) ==
    /\ At(a, "unmounted")
    /\ Go(a, AfterUnmount(a))
    /\ UNCHANGED <<hostVars, rows, shown, mapVars, flight, asked>>

Unmounted(a) ==
    /\ At(a, "unmounted")
    /\ Put(act[a].md.part, act[a].md)
    /\ Go(a, AfterUnmount(a))
    /\ UNCHANGED <<hostVars, rows, shown, known, flight, asked>>

-----------------------------------------------------------------------------
(* Requests *)

\* A mount by hand: a partition that is not known is refused at once.
RequestMount(a) ==
    /\ At(a, "idle")
    /\ \E x \in Paths, startup \in BOOLEAN :
          /\ Home[x] \in known
          /\ act' = [act EXCEPT ![a] = [Resting EXCEPT !.pc = "mount", !.job = "mount",
                        !.md = NewMountPoint(x, Home[x], startup, FALSE, FALSE)]]
    /\ UNCHANGED <<hostVars, rows, shown, mapVars, flight, asked>>

\* UnmountVolume takes the first entry that GetMountPointByPath finds.
RequestUnmount(a) ==
    /\ At(a, "idle")
    /\ \E x \in Paths :
          LET entries == {cache[q][x] : q \in {q \in known : x \in Listed(q)}} IN
          \E md \in IF entries = {} THEN {NewMountPoint(x, None, FALSE, FALSE, FALSE)} ELSE entries :
             act' = [act EXCEPT ![a] = [Resting EXCEPT !.pc = "unmount", !.job = "unmount", !.md = md]]
    /\ UNCHANGED <<hostVars, rows, shown, mapVars, flight, asked>>

\* PatchMountPointSettings stores the setting, then asks for the volumes, which
\* refreshes an empty map.
RequestPatch(a) ==
    /\ At(a, "idle")
    /\ \E x \in Paths, startup \in BOOLEAN :
          /\ rows[x] # None
          /\ rows' = [rows EXCEPT ![x].startup = startup]
          /\ asked' = [asked EXCEPT ![x] = startup]
          /\ act' = [act EXCEPT ![a] = [Resting EXCEPT !.job = "patch",
                        !.pc = IF known = {} THEN "refresh" ELSE "patched",
                        !.patch = NewMountPoint(x, rows[x].part, startup, FALSE, FALSE)]]
    /\ UNCHANGED <<hostVars, shown, mapVars, flight>>

\* Mutant of Patched: the entry in the map keeps its old setting.
PatchedInTheTableOnly(a) ==
    /\ At(a, "patched")
    /\ Emit(a, [act[a].patch EXCEPT !.mounted = mounted[act[a].patch.path] # None], "idle")
    /\ UNCHANGED <<hostVars, rows, shown, mapVars, flight, asked>>

\* The setting reaches the map, by the partition or else by the path.
Patched(a) ==
    LET x == act[a].patch.path
        p == act[a].patch.part
        md == [act[a].patch EXCEPT !.mounted = mounted[x] # None]
    IN /\ At(a, "patched")
       /\ IF p \in known \/ {q \in known : x \in Listed(q)} = {}
          THEN Put(p, md)
          ELSE \E q \in {q \in known : x \in Listed(q)} :
                   Put(cache[q][x].part, [cache[q][x] EXCEPT !.startup = md.startup])
       /\ Emit(a, md, "idle")
       /\ UNCHANGED <<hostVars, rows, shown, known, flight, asked>>

-----------------------------------------------------------------------------
(* The udev loop, and the other events that refresh *)

\* Home Assistant has started, or a volume has been formatted.
Refresh(a) ==
    /\ At(a, "idle")
    /\ act' = [act EXCEPT ![a] = [Resting EXCEPT !.pc = "refresh", !.job = "start"]]
    /\ UNCHANGED <<hostVars, rows, shown, mapVars, flight, asked>>

Take(kind, p) ==
    /\ At(Udev, "idle")
    /\ queue # <<>> /\ Head(queue) = [kind |-> kind, part |-> p]
    /\ queue' = Tail(queue)
    /\ UNCHANGED <<present, mounted, rows, shown, flight, asked>>

UdevAddDisk(p) ==
    /\ Take("addDisk", p)
    /\ act' = [act EXCEPT ![Udev] = [Resting EXCEPT !.pc = "refresh", !.job = "start"]]
    /\ UNCHANGED mapVars

UdevRemoveDisk(p) ==
    /\ Take("removeDisk", p)
    /\ Replace(PartsOf(DiskOf[p]), {})
    /\ UNCHANGED act

UdevAdd(p) ==
    /\ Take("add", p)
    /\ act' = [act EXCEPT ![Udev] = [Resting EXCEPT !.pc = "add", !.job = "add", !.on = p,
                  !.left = IF p \in known THEN Listed(p) ELSE {}]]
    /\ UNCHANGED mapVars

UdevRemove(p) ==
    /\ Take("remove", p)
    /\ act' = [act EXCEPT ![Udev] = [Resting EXCEPT !.job = "remove", !.on = p,
                  !.pc = IF p \in known THEN "remove" ELSE "refresh",
                  !.left = IF p \in known THEN Listed(p) ELSE {}]]
    /\ UNCHANGED mapVars

\* A known partition: what should be mounted is retried, with this partition's
\* device and without a notification.
RetryMount ==
    /\ At(Udev, "add")
    /\ \E x \in act[Udev].left :
          LET p == act[Udev].on
              mp == cache[p][x]
              rest == [act EXCEPT ![Udev].left = @ \ {x}]
          IN act' = IF mp # None /\ mp.startup /\ ~mp.mounted
                    THEN [rest EXCEPT ![Udev].pc = "mount", ![Udev].auto = FALSE,
                             ![Udev].back = "add", ![Udev].md = [mp EXCEPT !.part = p]]
                    ELSE rest
    /\ UNCHANGED <<hostVars, rows, shown, mapVars, flight, asked>>

\* One successful retry is enough; without any, the hardware is read again.
RetriedAll ==
    /\ At(Udev, "add") /\ act[Udev].left = {}
    /\ Go(Udev, IF act[Udev].handled THEN "idle" ELSE "refresh")
    /\ UNCHANGED <<hostVars, rows, shown, mapVars, flight, asked>>

\* What is mounted of a removed partition is unmounted by force.
ReleaseMount ==
    /\ At(Udev, "remove")
    /\ \E x \in act[Udev].left :
          LET mp == cache[act[Udev].on][x]
              rest == [act EXCEPT ![Udev].left = @ \ {x}]
          IN act' = IF mp # None /\ mp.mounted
                    THEN [rest EXCEPT ![Udev].pc = "unmount", ![Udev].md = mp]
                    ELSE rest
    /\ UNCHANGED <<hostVars, rows, shown, mapVars, flight, asked>>

\* Then the partition leaves the map and the hardware is read again.
ReleasedAll ==
    /\ At(Udev, "remove") /\ act[Udev].left = {}
    /\ Replace({act[Udev].on}, {})
    /\ Go(Udev, "refresh")
    /\ UNCHANGED <<hostVars, rows, shown, flight, asked>>

-----------------------------------------------------------------------------

\* The steps that an actor takes once it has something to do.
Work(a) ==
    \/ RefreshBegin(a) \/ RefreshDisk(a) \/ RefreshEnd(a)
    \/ LoadRows(a) \/ NextDisk(a) \/ ReadMounts(a)
    \/ SeeMount(a) \/ SeenAll(a) \/ Sweep(a) \/ SweptAll(a)
    \/ Event(a) \/ AlreadyMounted(a) \/ MountFails(a) \/ MountPartition(a) \/ Mounted(a)
    \/ UnmountFails(a) \/ UnmountPartition(a) \/ Unmounted(a)
    \/ Patched(a)

UdevStep ==
    \/ \E p \in Partitions : UdevAddDisk(p) \/ UdevRemoveDisk(p) \/ UdevAdd(p) \/ UdevRemove(p)
    \/ RetryMount \/ RetriedAll \/ ReleaseMount \/ ReleasedAll

Request(a) == RequestMount(a) \/ RequestUnmount(a) \/ RequestPatch(a) \/ Refresh(a)

Next ==
    \/ \E p \in Partitions : Plug(p) \/ Unplug(p)
    \/ \E a \in Actors : Work(a) \/ Request(a)
    \/ UdevStep

Spec == Init /\ [][Next]_vars

\* The goroutines go on with what they have begun.
FairSpec == Spec /\ \A a \in Actors : WF_vars(Work(a)) /\ WF_vars(UdevStep)

-----------------------------------------------------------------------------
(* Properties *)

TypeOK ==
    /\ present \subseteq Partitions
    /\ mounted \in [Paths -> Partitions \cup {None}]
    /\ \A i \in 1 .. Len(queue) :
          queue[i] \in [kind : {"add", "remove", "addDisk", "removeDisk"}, part : Partitions]
    /\ Len(queue) <= MaxEvents
    /\ rows \in [Paths -> [part : Partitions, startup : BOOLEAN] \cup {None}]
    /\ shown \subseteq Paths \cup Partitions
    /\ known \subseteq Partitions
    /\ \A p \in Partitions, x \in Paths :
          cache[p][x] # None => p \in known /\ cache[p][x] \in MountPoint /\ cache[p][x].path = x
    /\ flight \in Actors \cup {None}
    /\ \A a \in Actors : {act[a].md, act[a].patch} \subseteq MountPoint \cup {None}
    /\ asked \in [Paths -> BOOLEAN]

\* Every event has been handled and every request answered.
Quiet == queue = <<>> /\ \A a \in Actors : At(a, "idle")

\* When everything is handled, the entry of a plugged partition marks as
\* mounted exactly the paths where the kernel has it mounted, whatever was
\* plugged, unplugged, refused or mounted on the way (volume_service.go
\* handlePartitionEvent, the mount manager, the udev handlers).
MapIsKernel ==
    Quiet => \A x \in Paths : Home[x] \in present =>
        (x \in Listed(Home[x]) /\ cache[Home[x]][x].mounted <=> mounted[x] = Home[x])

\* When everything is handled, a plugged volume that is to be mounted at
\* startup is mounted, or its failure has been shown (handlePartitionEvent's
\* sweep, handleMountPointEvent).
StartupIsMountedOrShown ==
    Quiet => \A x \in Paths :
        rows[x] # None /\ rows[x].startup /\ rows[x].part \in present
            => mounted[x] # None \/ x \in shown

\* No refresh, event or request loses the automount setting that was stored
\* last: each event stores the whole mount point as its emitter had it
\* (handleMountPointEvent, persistMountPoint).
StartupIsKept ==
    Quiet => \A x \in Paths : rows[x] # None => rows[x].startup = asked[x]

\* A path is only ever the mount point of the partition that the user mounts
\* there (volume_service.go handlePartitionUdevAddEvent).
RightDevice == \A x \in Paths : mounted[x] \in {None, Home[x]}

\* The entry of a partition lists its own mount points only
\* (volume_service.go handlePartitionEvent).
OwnMountPoints ==
    \A p \in known : \A x \in Listed(p) : cache[p][x].part = p

\* A failure is not shown any more once the volume has been mounted
\* (volume_service.go MountVolume, dismissAutomountNotification).
FailureIsDismissed == Quiet => \A x \in shown : x \in Paths => mounted[x] = None

\* Every handler and request ends, although events mount and mounts emit
\* events (volume_service.go, volume_mount_manager.go).
HandlersEnd == \A a \in Actors : act[a].pc # "idle" ~> act[a].pc = "idle"
============================================================================
