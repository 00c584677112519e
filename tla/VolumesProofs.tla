--------------------------- MODULE VolumesProofs ---------------------------
(***************************************************************************)
(* The map, the table and the mounts of one disk, whatever its partitions  *)
(* and mount points, with one goroutine that takes the udev events and     *)
(* answers the requests.  With two disks the sweep of one partition writes *)
(* entries of another, and the theorems are false.                         *)
(*                                                                         *)
(* StartupInv is the part of the invariant that ties the map and what the  *)
(* goroutine holds to the table; KernelInv ties the map to the kernel,     *)
(* QueueInv what is plugged in to the udev events that are still to be     *)
(* handled, and StartsInv what is to be mounted to what will try it.       *)
(***************************************************************************)
EXTENDS Volumes, TLAPS

OneActor == Actors = {Udev}
OneDisk  == \A c, d \in Disks : c = d

RowType == [part : Partitions, startup : BOOLEAN]
NoneIsApart == None \notin RowType /\ None \notin MountPoint /\ None \notin Partitions

Setting == OneActor /\ OneDisk /\ NoneIsApart

-----------------------------------------------------------------------------
(* Types *)

Places ==
    {"idle", "refresh", "join", "disk", "part", "procfs", "seen", "sweep", "event", "mount", "mounted",
     "unmount", "unmounted", "patched", "add", "remove"}
Backs == {"idle", "seen", "sweep", "unmounted", "add"}

Acting ==
    [pc : Places, job : {"none", "start", "mount", "unmount", "patch", "add", "remove"},
     on : Partitions \cup {None}, md : MountPoint \cup {None}, patch : MountPoint \cup {None},
     auto : BOOLEAN, back : Backs, handled : BOOLEAN, hw : SUBSET Partitions, disks : SUBSET Disks,
     parts : SUBSET Partitions, seen : [Paths -> Partitions \cup {None}], left : SUBSET Paths,
     stale : SUBSET (Partitions \X MountPoint)]

Typed ==
    /\ present \subseteq Partitions /\ known \subseteq Partitions
    /\ mounted \in [Paths -> Partitions \cup {None}]
    /\ rows \in [Paths -> RowType \cup {None}]
    /\ cache \in [Partitions -> [Paths -> MountPoint \cup {None}]]
    /\ act \in [Actors -> Acting]
    /\ asked \in [Paths -> BOOLEAN]

-----------------------------------------------------------------------------
(* The table, the mounts and the map *)

RowsAreHome ==
    \A x \in Paths : IF rows[x] = None THEN ~asked[x]
                     ELSE rows[x].part = Home[x] /\ rows[x].startup = asked[x]

MountsAreHome == \A x \in Paths : mounted[x] \in {None, Home[x]}

EntriesAreHome ==
    \A p \in Partitions, x \in Paths : cache[p][x] # None =>
        p \in known /\ p = Home[x] /\ cache[p][x].path = x /\ cache[p][x].part = p

Me == act[Udev]

(* The entry of x waits for its new setting: that of a mount by hand is     *)
(* not yet in the table, that of a request not yet in the map.             *)
Waits(x) ==
    \/ Me.job = "mount" /\ Me.pc = "event" /\ Me.md.path = x
    \/ Me.job = "patch" /\ Me.pc = "patched" /\ Me.patch.path = x

EntriesAreAsked ==
    \A p \in Partitions, x \in Paths :
        cache[p][x] # None => cache[p][x].startup = asked[x] \/ Waits(x)

-----------------------------------------------------------------------------
(* What the goroutine holds *)

Emitting == {"event", "mount", "mounted"}

OfHome(mp) == mp.part = Home[mp.path]

(* The mount point of an event or a call.                                  *)
Holding ==
    Me.pc \in Emitting \cup {"unmount", "unmounted"} =>
        /\ Me.md # None
        /\ \/ OfHome(Me.md) /\ (Me.job = "mount" \/ Me.md.startup = asked[Me.md.path])
           \/ Me.pc = "unmount" /\ Me.md.part = None

Mounting ==
    Me.job = "mount" =>
        /\ Me.pc \in Emitting /\ Me.back = "idle"
        /\ Me.pc = "event" => cache[Me.md.part][Me.md.path] = Me.md

Patching ==
    /\ Me.pc = "patched" => Me.job = "patch"
    /\ Me.job = "patch" => Me.patch # None /\ OfHome(Me.patch) /\ Me.patch.startup = asked[Me.patch.path]

-----------------------------------------------------------------------------
(* A refresh *)

(* At one of the places, or in an event that returns to one.               *)
Within(places) == Me.pc \in places \/ (Me.pc \in Emitting /\ Me.back \in places)

Settled(mp) == mp.fresh \/ (~mp.mounted /\ ~mp.startup)

(* Only the partition being handled has entries that the sweep would take.  *)
Scanned ==
    Within({"part", "procfs", "seen", "sweep"}) =>
        \A p \in Partitions, x \in Paths :
            cache[p][x] # None => Settled(cache[p][x]) \/ (Me.pc # "part" /\ p = Me.on)

(* The rows of the partition are in its entry.                             *)
Loaded ==
    Within({"procfs", "seen"}) =>
        /\ Me.on \in Partitions
        /\ \A x \in Paths : rows[x] # None /\ Home[x] = Me.on /\ Me.on \in known => cache[Me.on][x] # None

Seen == Within({"seen"}) => \A x \in Paths : Me.seen[x] \in {None, Home[x]}

Swept ==
    Within({"sweep"}) =>
        /\ Me.on \in Partitions
        /\ \A s \in Me.stale : OfHome(s[2]) /\ s[2].part = Me.on /\ s[2].startup = asked[s[2].path]
        /\ \A x \in Paths :
              cache[Me.on][x] # None /\ ~Settled(cache[Me.on][x]) => <<Me.on, cache[Me.on][x]>> \in Me.stale

(* The events of a refresh are of the partition that is being handled.     *)
Told ==
    Me.pc \in Emitting /\ Me.back \in {"seen", "sweep"} =>
        Me.md.fresh /\ Me.md.part = Me.on /\ cache[Me.on][Me.md.path] # None

Refreshing == Scanned /\ Loaded /\ Seen /\ Swept /\ Told

StartupInv ==
    /\ Typed /\ RowsAreHome /\ MountsAreHome /\ EntriesAreHome /\ EntriesAreAsked
    /\ Holding /\ Mounting /\ Patching /\ Refreshing

-----------------------------------------------------------------------------
(* How the goroutine's record changes *)

LEMMA GoesOn ==
    ASSUME Setting, Typed, NEW place \in Places \ {"idle"}, Go(Udev, place)
    PROVE  /\ act' \in [Actors -> Acting] /\ Me'.pc = place
           /\ Me'.job = Me.job /\ Me'.on = Me.on /\ Me'.md = Me.md /\ Me'.patch = Me.patch
           /\ Me'.back = Me.back /\ Me'.seen = Me.seen /\ Me'.left = Me.left /\ Me'.stale = Me.stale
BY DEF Setting, OneActor, Typed, Go, Me, Acting

LEMMA RestingIsTyped == Resting \in Acting
BY DEF Resting, Acting, Places, Backs

LEMMA GoesIdle ==
    ASSUME Setting, Typed, Go(Udev, "idle")
    PROVE  act' \in [Actors -> Acting] /\ Me' = Resting
BY RestingIsTyped DEF Setting, OneActor, Typed, Go, Me

LEMMA GoesBack ==
    ASSUME Setting, Typed, Go(Udev, Me.back)
    PROVE  /\ act' \in [Actors -> Acting]
           /\ IF Me.back = "idle" THEN Me' = Resting ELSE
              /\ Me'.pc = Me.back /\ Me'.job = Me.job /\ Me'.on = Me.on /\ Me'.md = Me.md
              /\ Me'.patch = Me.patch /\ Me'.back = Me.back /\ Me'.seen = Me.seen
              /\ Me'.left = Me.left /\ Me'.stale = Me.stale
<1>. Me.back \in Backs
  BY DEF Setting, OneActor, Typed, Me, Acting
<1>. QED
  BY GoesOn, GoesIdle DEF Backs, Places

LEMMA Emits ==
    ASSUME Setting, Typed, NEW md \in MountPoint, NEW back \in Backs, Emit(Udev, md, back)
    PROVE  /\ act' \in [Actors -> Acting] /\ Me'.pc = "event" /\ Me'.md = md /\ Me'.back = back
           /\ Me'.job = Me.job /\ Me'.on = Me.on /\ Me'.patch = Me.patch
           /\ Me'.seen = Me.seen /\ Me'.left = Me.left /\ Me'.stale = Me.stale
<1>1. "event" \in Places
  BY DEF Places
<1>2. act[Udev] \in Acting /\ Udev \in Actors /\ act \in [Actors -> Acting]
  BY DEF Setting, OneActor, Typed
<1>. DEFINE r == [Me EXCEPT !.pc = "event", !.md = md, !.back = back]
<1>3. act' = [act EXCEPT ![Udev] = r]
  BY <1>2 DEF Emit, Me
<1>4. r \in Acting
  BY <1>1, <1>2 DEF Acting, Me
<1>5. /\ r.pc = "event" /\ r.md = md /\ r.back = back
      /\ r.job = Me.job /\ r.on = Me.on /\ r.patch = Me.patch
      /\ r.seen = Me.seen /\ r.left = Me.left /\ r.stale = Me.stale
  BY <1>2 DEF Acting, Me
<1>. HIDE DEF r
<1>. QED
  BY <1>2, <1>3, <1>4, <1>5 DEF Me

LEMMA ActTyped ==
    ASSUME Setting, Typed
    PROVE  act \in [Actors -> Acting] /\ Udev \in Actors /\ act[Udev] \in Acting /\ Me \in Acting
BY DEF Setting, OneActor, Typed, Me

LEMMA Begins ==
    ASSUME Setting, Typed, NEW r \in Acting, act' = [act EXCEPT ![Udev] = r]
    PROVE  act' \in [Actors -> Acting] /\ Me' = r
BY DEF Setting, OneActor, Typed, Me

-----------------------------------------------------------------------------
(* What holds of data that a step leaves alone *)

Outer == {"idle", "refresh", "join", "disk", "add", "remove"}

LEMMA SameData ==
    ASSUME StartupInv, UNCHANGED <<rows, mounted, known, cache, asked>>
    PROVE  RowsAreHome' /\ MountsAreHome' /\ EntriesAreHome'
BY DEF StartupInv, RowsAreHome, MountsAreHome, EntriesAreHome

(* No setting waits.                                                       *)
LEMMA SameAsked ==
    ASSUME StartupInv, UNCHANGED <<cache, asked>>, \A x \in Paths : Waits(x) => Waits(x)'
    PROVE  EntriesAreAsked'
BY DEF StartupInv, EntriesAreAsked

(* Outside of events, calls and the handling of a partition.               *)
LEMMA OuterHolds ==
    ASSUME Me'.pc \in Outer, Me'.job # "mount"
    PROVE  Holding' /\ Mounting' /\ Refreshing' /\ \A x \in Paths : ~Waits(x)'
BY DEF Outer, Holding, Mounting, Refreshing, Scanned, Loaded, Seen, Swept, Told, Within, Emitting, Waits

LEMMA SamePatch ==
    ASSUME StartupInv, Me'.job = "patch" => Me.job = "patch" /\ Me'.patch = Me.patch, asked' = asked,
           Me'.pc = "patched" => Me'.job = "patch"
    PROVE  Patching'
BY DEF StartupInv, Patching

(* A step to such a place.                                                 *)
LEMMA OuterKeepsInv ==
    ASSUME Setting, StartupInv, UNCHANGED <<rows, known, cache, asked>>, present' \subseteq Partitions,
           mounted' \in [Paths -> Partitions \cup {None}], MountsAreHome',
           act' \in [Actors -> Acting], \A x \in Paths : ~Waits(x),
           Me'.pc \in Outer, Me'.job # "mount",
           Me'.job = "patch" => Me.job = "patch" /\ Me'.patch = Me.patch
    PROVE  StartupInv'
<1>1. Typed'
  BY DEF StartupInv, Typed
<1>2. EntriesAreAsked'
  BY SameAsked
<1>3. RowsAreHome' /\ EntriesAreHome'
  BY DEF StartupInv, RowsAreHome, EntriesAreHome
<1>4. Patching'
  BY SamePatch DEF Outer
<1>. QED
  BY <1>1, <1>2, <1>3, <1>4, OuterHolds DEF StartupInv

(* An event or an automatic mount is over.                                 *)
LEMMA ReturnHolds ==
    ASSUME Setting, StartupInv, Me.pc \in Emitting, Go(Udev, Me.back),
           UNCHANGED <<known, cache>>, asked' = asked \/ Me.job = "mount",
           \A x \in Paths : rows'[x] # None => rows[x] # None \/ x = Me.md.path
    PROVE  /\ act' \in [Actors -> Acting] /\ Holding' /\ Mounting' /\ Patching' /\ Refreshing'
           /\ \A x \in Paths : ~Waits(x)'
<1>1. Typed /\ Me.back \in Backs
  BY DEF StartupInv, Typed, Setting, OneActor, Me, Acting
<1>2. act' \in [Actors -> Acting]
  BY <1>1, GoesBack
<1>3. CASE Me.back = "idle"
  <2>1. Me'.pc = "idle" /\ Me'.job = "none"
    BY <1>1, <1>3, GoesBack DEF Resting
  <2>2. Patching'
    BY <2>1 DEF Patching
  <2>. QED
    BY <1>2, <2>1, <2>2, OuterHolds DEF Outer
<1>4. CASE Me.back # "idle"
  <2>1. /\ Me'.pc = Me.back /\ Me'.job = Me.job /\ Me'.on = Me.on /\ Me'.md = Me.md
        /\ Me'.patch = Me.patch /\ Me'.back = Me.back /\ Me'.seen = Me.seen /\ Me'.stale = Me.stale
    BY <1>1, <1>4, GoesBack
  <2>2. Me.job # "mount" /\ asked' = asked
    BY <1>4 DEF StartupInv, Mounting
  <2>3. Patching'
    BY <1>1, <2>1, <2>2, SamePatch DEF Backs
  <2>4. CASE Me.back = "add"
    BY <1>2, <2>1, <2>2, <2>3, <2>4, OuterHolds DEF Outer
  <2>5. CASE Me.back = "unmounted"
    <3>1. Holding'
      BY <2>1, <2>2, <2>5 DEF StartupInv, Holding, Emitting
    <3>2. Refreshing' /\ Mounting' /\ \A x \in Paths : ~Waits(x)'
      BY <2>1, <2>2, <2>5
         DEF Refreshing, Scanned, Loaded, Seen, Swept, Told, Within, Emitting, Mounting, Waits
    <3>. QED
      BY <1>2, <2>3, <3>1, <3>2
  <2>6. CASE Me.back \in {"seen", "sweep"}
    <3>1. Holding' /\ Mounting' /\ \A x \in Paths : ~Waits(x)'
      BY <2>1, <2>2, <2>6 DEF Holding, Emitting, Mounting, Waits
    <3>2. Scanned' /\ Told'
      BY <2>1, <2>6 DEF StartupInv, Refreshing, Scanned, Told, Within, Emitting
    <3>3. Loaded'
      BY <2>1, <2>6 DEF StartupInv, Refreshing, Loaded, Told, Within, Emitting
    <3>4. Seen' /\ Swept'
      BY <2>1, <2>2, <2>6 DEF StartupInv, Refreshing, Seen, Swept, Within, Emitting
    <3>. QED
      BY <1>2, <2>3, <3>1, <3>2, <3>3, <3>4 DEF Refreshing
  <2>. QED
    BY <1>1, <1>4, <2>4, <2>5, <2>6 DEF Backs
<1>. QED
  BY <1>3, <1>4

LEMMA HostKeepsInv ==
    ASSUME StartupInv, UNCHANGED <<mounted, rows, known, cache, asked, act>>, present' \subseteq Partitions
    PROVE  StartupInv'
<1>1. Typed' /\ Me' = Me
  BY DEF StartupInv, Typed, Me
<1>2. \A x \in Paths : Waits(x)' <=> Waits(x)
  BY <1>1 DEF Waits
<1>3. EntriesAreAsked' /\ Patching'
  BY <1>1, <1>2, SameAsked DEF StartupInv, Patching
<1>4. Holding' /\ Mounting'
  BY <1>1 DEF StartupInv, Holding, Mounting
<1>5. Refreshing'
  BY <1>1 DEF StartupInv, Refreshing, Scanned, Loaded, Seen, Swept, Told, Within
<1>. QED
  BY <1>1, <1>3, <1>4, <1>5, SameData DEF StartupInv

LEMMA MountEndsKeepInv ==
    ASSUME Setting, StartupInv, AlreadyMounted(Udev) \/ MountFails(Udev)
    PROVE  StartupInv'
<1>1. Me.pc = "mount" /\ Go(Udev, Me.back) /\ UNCHANGED <<present, mounted, rows, known, cache, asked>>
  BY DEF AlreadyMounted, MountFails, At, Me, hostVars, mapVars
<1>2. /\ act' \in [Actors -> Acting] /\ Holding' /\ Mounting' /\ Patching' /\ Refreshing'
      /\ \A x \in Paths : ~Waits(x)
  BY <1>1, ReturnHolds DEF Emitting, Waits
<1>3. Typed'
  BY <1>1, <1>2 DEF StartupInv, Typed
<1>. QED
  BY <1>1, <1>2, <1>3, SameData, SameAsked DEF StartupInv

(* The row takes the mount point as it is in the event.                    *)
LEMMA EventKeepsInv == ASSUME Setting, StartupInv, Event(Udev) PROVE StartupInv'
<1>. DEFINE md == Me.md
            x == Me.md.path
<1>1. /\ Me.pc = "event" /\ Typed /\ Me \in Acting
      /\ rows' = [rows EXCEPT ![x] = [part |-> md.part, startup |-> md.startup]]
      /\ asked' = IF Me.job = "mount" THEN [asked EXCEPT ![x] = md.startup] ELSE asked
      /\ UNCHANGED <<present, mounted, known, cache>>
      /\ IF md.startup /\ ~md.mounted
         THEN act' = [act EXCEPT ![Udev].pc = "mount", ![Udev].auto = TRUE]
         ELSE Go(Udev, Me.back)
  BY DEF Event, At, Me, hostVars, mapVars, StartupInv, Typed, Setting, OneActor
<1>2. md \in MountPoint /\ x \in Paths /\ md.part = Home[x] /\ md.part \in Partitions /\ md.startup \in BOOLEAN
  <2>1. md # None /\ OfHome(md) /\ md \in MountPoint \cup {None}
    BY <1>1 DEF StartupInv, Holding, Emitting, Acting
  <2>. QED
    BY <2>1, VolumesAssumption DEF OfHome, MountPoint
<1>3. rows'[x].startup = asked'[x] /\ rows'[x] # None
  <2>1. rows'[x] = [part |-> md.part, startup |-> md.startup] /\ rows'[x] \in RowType
    BY <1>1, <1>2 DEF Typed, RowType
  <2>2. asked'[x] = md.startup
    BY <1>1, <1>2 DEF StartupInv, Typed, Holding, Emitting
  <2>. QED
    BY <2>1, <2>2 DEF Setting, NoneIsApart
<1>4. RowsAreHome' /\ MountsAreHome' /\ EntriesAreHome'
  <2>1. \A y \in Paths \ {x} : rows'[y] = rows[y] /\ asked'[y] = asked[y]
    BY <1>1, <1>2 DEF Typed
  <2>2. rows'[x].part = Home[x]
    BY <1>1, <1>2 DEF Typed
  <2>. HIDE DEF x
  <2>. QED
    BY <1>1, <1>3, <2>1, <2>2 DEF StartupInv, RowsAreHome, MountsAreHome, EntriesAreHome
<1>5. \A y \in Paths : rows'[y] # None => rows[y] # None \/ y = Me.md.path
  BY <1>1, <1>2 DEF Typed
<1>6. ASSUME NEW p \in Partitions, NEW y \in Paths, cache[p][y] # None PROVE cache[p][y].startup = asked'[y]
  <2>1. CASE Me.job = "mount" /\ y = x
    <3>1. cache[md.part][x] = md
      BY <1>1, <2>1 DEF StartupInv, Mounting
    <3>2. p = md.part
      BY <1>2, <1>6, <2>1 DEF StartupInv, EntriesAreHome
    <3>. QED
      BY <1>1, <1>2, <2>1, <3>1, <3>2 DEF Typed
  <2>2. CASE ~(Me.job = "mount" /\ y = x)
    <3>1. ~Waits(y) /\ asked'[y] = asked[y]
      BY <1>1, <1>2, <2>2 DEF Waits, Typed
    <3>. QED
      BY <1>6, <3>1 DEF StartupInv, EntriesAreAsked
  <2>. QED
    BY <2>1, <2>2
<1>7. EntriesAreAsked'
  BY <1>1, <1>6 DEF EntriesAreAsked
<1>8. rows' \in [Paths -> RowType \cup {None}] /\ asked' \in [Paths -> BOOLEAN]
  BY <1>1, <1>2 DEF Typed, RowType
<1>9. CASE ~(md.startup /\ ~md.mounted)
  <2>1. /\ act' \in [Actors -> Acting] /\ Holding' /\ Mounting' /\ Patching' /\ Refreshing'
    BY <1>1, <1>5, <1>9, ReturnHolds DEF Emitting
  <2>2. Typed'
    BY <1>1, <1>8, <2>1 DEF Typed
  <2>. QED
    BY <1>4, <1>7, <2>1, <2>2 DEF StartupInv
<1>10. CASE md.startup /\ ~md.mounted
  <2>. DEFINE r == [Me EXCEPT !.pc = "mount", !.auto = TRUE]
  <2>1. act' = [act EXCEPT ![Udev] = r]
    BY <1>1, <1>10 DEF Typed, Setting, OneActor, Me
  <2>2. r \in Acting
    BY <1>1 DEF Acting, Places
  <2>3. /\ r.pc = "mount" /\ r.job = Me.job /\ r.on = Me.on /\ r.md = Me.md
        /\ r.patch = Me.patch /\ r.back = Me.back /\ r.seen = Me.seen /\ r.stale = Me.stale
    BY <1>1 DEF Acting
  <2>. HIDE DEF r
  <2>4. act' \in [Actors -> Acting] /\ Me' = r
    BY <1>1, <2>1, <2>2, Begins
  <2>5. Typed'
    BY <1>1, <1>8, <2>4 DEF Typed
  <2>6. Holding' /\ Mounting'
    BY <1>1, <1>2, <2>3, <2>4 DEF StartupInv, Holding, Mounting, Emitting
  <2>7. Me.job = "mount" => Me.back = "idle"
    BY DEF StartupInv, Mounting
  <2>8. Patching'
    BY <1>1, <2>3, <2>4 DEF StartupInv, Patching
  <2>9. Scanned' /\ Loaded' /\ Seen' /\ Told'
    <3>1. Scanned'
      BY <1>1, <2>3, <2>4 DEF StartupInv, Refreshing, Scanned, Within, Emitting
    <3>2. Told'
      BY <1>1, <2>3, <2>4 DEF StartupInv, Refreshing, Told, Emitting
    <3>3. Loaded'
      <4>. SUFFICES ASSUME Within({"procfs", "seen"})'
                    PROVE  /\ Me.on \in Partitions
                           /\ \A y \in Paths : rows'[y] # None /\ Home[y] = Me.on /\ Me.on \in known
                                                 => cache[Me.on][y] # None
        BY <1>1, <2>3, <2>4 DEF Loaded
      <4>1. Me.back = "seen"
        BY <1>1, <2>3, <2>4, <2>2 DEF Within, Acting, Backs
      <4>2. cache[Me.on][Me.md.path] # None
        BY <1>1, <4>1 DEF StartupInv, Refreshing, Told, Emitting
      <4>3. /\ Me.on \in Partitions
            /\ \A y \in Paths : rows[y] # None /\ Home[y] = Me.on /\ Me.on \in known => cache[Me.on][y] # None
        BY <1>1, <4>1 DEF StartupInv, Refreshing, Loaded, Within, Emitting
      <4>. QED
        BY <1>5, <4>2, <4>3
    <3>4. Seen'
      BY <1>1, <2>3, <2>4 DEF StartupInv, Refreshing, Seen, Within, Emitting
    <3>. QED
      BY <3>1, <3>2, <3>3, <3>4
  <2>10. Swept'
    BY <1>1, <2>3, <2>4, <2>7 DEF StartupInv, Refreshing, Swept, Within, Emitting
  <2>. QED
    BY <1>4, <1>7, <2>5, <2>6, <2>8, <2>9, <2>10 DEF StartupInv, Refreshing
<1>. QED
  BY <1>9, <1>10

(* AddOrUpdateMountPoint changes one entry, of a known partition.          *)
LEMMA PutEntry ==
    ASSUME Typed, NEW p \in Partitions, NEW mp \in MountPoint, Put(p, mp)
    PROVE  /\ cache' \in [Partitions -> [Paths -> MountPoint \cup {None}]]
           /\ \A q \in Partitions, y \in Paths :
                 cache'[q][y] = IF p \in known /\ q = p /\ y = mp.path THEN mp ELSE cache[q][y]
BY DEF Typed, Put, MountPoint

LEMMA PutHome ==
    ASSUME StartupInv, NEW p \in Partitions, NEW mp \in MountPoint, Put(p, mp), known' = known,
           mp.part = p, OfHome(mp)
    PROVE  EntriesAreHome'
<1>1. \A q \in Partitions, y \in Paths :
         cache'[q][y] = IF p \in known /\ q = p /\ y = mp.path THEN mp ELSE cache[q][y]
  BY PutEntry DEF StartupInv
<1>. QED
  BY <1>1 DEF StartupInv, EntriesAreHome, OfHome

LEMMA MountKeepsInv == ASSUME Setting, StartupInv, MountPartition(Udev) PROVE StartupInv'
<1>1. /\ Me.pc = "mount" /\ Go(Udev, "mounted") /\ mounted' = [mounted EXCEPT ![Me.md.path] = Me.md.part]
      /\ UNCHANGED <<present, rows, known, cache, asked>> /\ Typed
  BY DEF MountPartition, At, Me, mapVars, StartupInv
<1>2. /\ act' \in [Actors -> Acting] /\ Me'.pc = "mounted"
      /\ Me'.job = Me.job /\ Me'.on = Me.on /\ Me'.md = Me.md /\ Me'.patch = Me.patch
      /\ Me'.back = Me.back /\ Me'.seen = Me.seen /\ Me'.stale = Me.stale
  BY <1>1, GoesOn DEF Places
<1>3. Me.md.path \in Paths /\ Me.md.part = Home[Me.md.path] /\ Me.md.part \in Partitions
  <2>1. Me.md # None /\ OfHome(Me.md)
    BY <1>1 DEF StartupInv, Holding, Emitting
  <2>2. Me.md \in MountPoint
    BY <1>1, <2>1 DEF Setting, OneActor, Typed, Me, Acting
  <2>. QED
    BY <2>1, <2>2, VolumesAssumption DEF OfHome, MountPoint
<1>4. Typed' /\ MountsAreHome'
  BY <1>1, <1>2, <1>3 DEF StartupInv, Typed, MountsAreHome
<1>5. RowsAreHome' /\ EntriesAreHome'
  BY <1>1 DEF StartupInv, RowsAreHome, EntriesAreHome
<1>6. EntriesAreAsked' /\ Patching'
  BY <1>1, <1>2, SameAsked, SamePatch DEF Waits
<1>7. Holding' /\ Mounting'
  BY <1>1, <1>2 DEF StartupInv, Holding, Mounting, Emitting
<1>8. Scanned' /\ Seen' /\ Told'
  BY <1>1, <1>2 DEF StartupInv, Refreshing, Scanned, Seen, Told, Within, Emitting
<1>9. Loaded' /\ Swept'
  BY <1>1, <1>2 DEF StartupInv, Refreshing, Loaded, Swept, Within, Emitting
<1>. QED
  BY <1>4, <1>5, <1>6, <1>7, <1>8, <1>9 DEF StartupInv, Refreshing

(* The map learns of the mount.                                            *)
LEMMA MountedKeepsInv == ASSUME Setting, StartupInv, Mounted(Udev) PROVE StartupInv'
<1>. DEFINE md == [Me.md EXCEPT !.mounted = TRUE]
            p == Me.md.part
            r == [Me EXCEPT !.pc = "event", !.handled = TRUE, !.md = md]
<1>1. /\ Me.pc = "mounted" /\ Typed /\ Me \in Acting /\ Put(p, md)
      /\ UNCHANGED <<present, mounted, rows, known, asked>>
  BY DEF Mounted, At, Me, hostVars, StartupInv, Typed, Setting, OneActor
<1>2. /\ Me.md \in MountPoint /\ OfHome(Me.md) /\ p \in Partitions /\ Me.md.path \in Paths
      /\ Me.job = "mount" \/ Me.md.startup = asked[Me.md.path]
  <2>1. /\ Me.md # None /\ OfHome(Me.md) /\ Me.md \in MountPoint \cup {None}
        /\ Me.job = "mount" \/ Me.md.startup = asked[Me.md.path]
    BY <1>1 DEF StartupInv, Holding, Emitting, Acting
  <2>. QED
    BY <2>1, VolumesAssumption DEF OfHome, MountPoint
<1>3. /\ md \in MountPoint /\ md.path = Me.md.path /\ md.part = p /\ md.startup = Me.md.startup
      /\ md.fresh = Me.md.fresh /\ OfHome(md)
  BY <1>2 DEF MountPoint, OfHome
<1>4. CASE p \notin known
  <2>1. cache' = cache /\ Go(Udev, Me.back)
    BY <1>1, <1>4 DEF Put, Mounted, Me
  <2>2. /\ act' \in [Actors -> Acting] /\ Holding' /\ Mounting' /\ Patching' /\ Refreshing'
    BY <1>1, <2>1, ReturnHolds DEF Emitting
  <2>3. Typed'
    BY <1>1, <2>1, <2>2 DEF Typed
  <2>4. EntriesAreAsked'
    BY <1>1, <2>1, SameAsked DEF Waits
  <2>. QED
    BY <1>1, <2>1, <2>2, <2>3, <2>4, SameData DEF StartupInv
<1>5. CASE p \in known
  <2>1. act' = [act EXCEPT ![Udev] = r]
    <3>1. act' = [act EXCEPT ![Udev].pc = "event", ![Udev].handled = TRUE, ![Udev].md = md]
      BY <1>5 DEF Mounted, Me
    <3>. HIDE DEF md
    <3>. QED
      BY <1>1, <3>1, ActTyped DEF Me
  <2>2. r \in Acting
    BY <1>1, <1>3 DEF Acting, Places
  <2>3. /\ r.pc = "event" /\ r.job = Me.job /\ r.on = Me.on /\ r.md = md
        /\ r.patch = Me.patch /\ r.back = Me.back /\ r.seen = Me.seen /\ r.stale = Me.stale
    BY <1>1 DEF Acting
  <2>4. /\ cache' \in [Partitions -> [Paths -> MountPoint \cup {None}]]
        /\ \A q \in Partitions, y \in Paths :
              cache'[q][y] = IF q = p /\ y = Me.md.path THEN md ELSE cache[q][y]
        /\ EntriesAreHome'
    <3>. HIDE DEF md, p
    <3>1. EntriesAreHome'
      BY <1>1, <1>2, <1>3, PutHome
    <3>2. /\ cache' \in [Partitions -> [Paths -> MountPoint \cup {None}]]
          /\ \A q \in Partitions, y \in Paths :
                cache'[q][y] = IF p \in known /\ q = p /\ y = md.path THEN md ELSE cache[q][y]
      BY <1>1, <1>2, <1>3, PutEntry
    <3>. QED
      BY <1>3, <1>5, <3>1, <3>2
  <2>. HIDE DEF r, md, p
  <2>5. act' \in [Actors -> Acting] /\ Me' = r
    BY <1>1, <2>1, <2>2, Begins
  <2>6. Typed' /\ RowsAreHome' /\ MountsAreHome'
    BY <1>1, <2>4, <2>5 DEF StartupInv, Typed, RowsAreHome, MountsAreHome
  <2>7. EntriesAreAsked'
    <3>1. \A y \in Paths : ~Waits(y)
      BY <1>1 DEF Waits
    <3>2. \A y \in Paths : Me.job = "mount" /\ y = Me.md.path => Waits(y)'
      BY <1>3, <2>3, <2>5 DEF Waits
    <3>. SUFFICES ASSUME NEW q \in Partitions, NEW y \in Paths, cache'[q][y] # None
                  PROVE  cache'[q][y].startup = asked[y] \/ Waits(y)'
      BY <1>1 DEF EntriesAreAsked
    <3>3. CASE q = p /\ y = Me.md.path
      <4>1. cache'[q][y].startup = Me.md.startup
        BY <1>3, <2>4, <3>3
      <4>2. CASE Me.job = "mount"
        BY <3>2, <3>3, <4>2
      <4>. QED
        BY <1>2, <3>3, <4>1, <4>2
    <3>4. CASE ~(q = p /\ y = Me.md.path)
      <4>. cache'[q][y] = cache[q][y]
        BY <2>4, <3>4
      <4>. QED
        BY <3>1 DEF StartupInv, EntriesAreAsked
    <3>. QED
      BY <3>3, <3>4
  <2>8. Holding' /\ Mounting'
    BY <1>1, <1>2, <1>3, <2>3, <2>4, <2>5 DEF StartupInv, Holding, Mounting, Emitting, Setting, NoneIsApart
  <2>9. Patching'
    BY <1>1, <2>3, <2>5, SamePatch
  <2>10. Me.back \in {"seen", "sweep"} =>
            md.fresh /\ p = Me.on /\ cache'[Me.on][Me.md.path] = md /\ cache[Me.on][Me.md.path] # None
    BY <1>1, <1>2, <1>3, <2>4 DEF StartupInv, Refreshing, Told, Emitting, p
  <2>11. Scanned'
    <3>. SUFFICES ASSUME Within({"part", "procfs", "seen", "sweep"})',
                         NEW q \in Partitions, NEW y \in Paths, cache'[q][y] # None
                  PROVE  Settled(cache'[q][y]) \/ q = Me.on
      BY <2>3, <2>5 DEF Scanned, Settled
    <3>1. Me.back \in {"seen", "sweep"}
      BY <1>1, <2>3, <2>5 DEF Within, Acting, Backs
    <3>2. Within({"part", "procfs", "seen", "sweep"})
      BY <1>1, <3>1 DEF Within, Emitting
    <3>3. CASE q = p /\ y = Me.md.path
      BY <2>10, <3>1, <3>3
    <3>4. CASE ~(q = p /\ y = Me.md.path)
      BY <1>1, <2>4, <3>2, <3>4 DEF StartupInv, Refreshing, Scanned
    <3>. QED
      BY <3>3, <3>4
  <2>12. Told'
    BY <1>3, <2>3, <2>5, <2>10 DEF Told, Setting, NoneIsApart
  <2>13. Loaded' /\ Seen'
    BY <1>1, <1>3, <2>3, <2>4, <2>5 DEF StartupInv, Refreshing, Loaded, Seen, Within, Emitting, Setting, NoneIsApart
  <2>14. Swept'
    BY <1>1, <2>3, <2>4, <2>5, <2>10 DEF StartupInv, Refreshing, Swept, Within, Emitting, Settled
  <2>. QED
    BY <2>4, <2>6, <2>7, <2>8, <2>9, <2>11, <2>12, <2>13, <2>14 DEF StartupInv, Refreshing
<1>. QED
  BY <1>4, <1>5

-----------------------------------------------------------------------------
(* Unmounting                                                              *)

(* A step that leaves events, calls and partitions for a place outside.    *)
LEMMA OuterKeepsMap ==
    ASSUME Setting, StartupInv, UNCHANGED <<mounted, rows, asked>>, Typed', EntriesAreHome', EntriesAreAsked',
           Me'.pc \in Outer, Me'.job # "mount",
           Me'.job = "patch" => Me.job = "patch" /\ Me'.patch = Me.patch
    PROVE  StartupInv'
<1>1. RowsAreHome' /\ MountsAreHome'
  BY DEF StartupInv, RowsAreHome, MountsAreHome
<1>2. Patching'
  BY SamePatch DEF Outer
<1>. QED
  BY <1>1, <1>2, OuterHolds DEF StartupInv

(* What an event or a call holds is a mount point of the partition at home. *)
LEMMA HeldIsHome ==
    ASSUME Setting, StartupInv, Me.pc \in Emitting \cup {"unmount", "unmounted"}, Me.md.part # None
    PROVE  /\ Me.md \in MountPoint /\ OfHome(Me.md) /\ Me.md.part \in Partitions /\ Me.md.path \in Paths
           /\ Me.job = "mount" \/ Me.md.startup = asked[Me.md.path]
<1>1. Me.md # None /\ OfHome(Me.md) /\ (Me.job = "mount" \/ Me.md.startup = asked[Me.md.path])
  BY DEF StartupInv, Holding
<1>2. Me.md \in MountPoint
  BY <1>1, ActTyped DEF StartupInv, Acting
<1>. QED
  BY <1>1, <1>2, VolumesAssumption DEF OfHome, MountPoint

LEMMA OnlyEventsOfMounts ==
    ASSUME StartupInv, Me.pc \notin Emitting
    PROVE  Me.job # "mount" /\ (Me.pc # "patched" => \A x \in Paths : ~Waits(x))
BY DEF StartupInv, Mounting, Waits, Emitting

LEMMA UnmountGoesOn ==
    ASSUME Setting, StartupInv, Me.pc \in {"unmount", "unmounted"}, Go(Udev, AfterUnmount(Udev))
    PROVE  /\ act' \in [Actors -> Acting] /\ Me'.pc \in Outer /\ Me'.job # "mount"
           /\ Me'.job = "patch" => Me.job = "patch" /\ Me'.patch = Me.patch
<1>1. Me.job # "mount" /\ Typed
  BY OnlyEventsOfMounts DEF StartupInv, Emitting
<1>2. CASE Me.job = "remove"
  <2>1. Go(Udev, "remove")
    BY <1>2 DEF AfterUnmount, Me
  <2>. QED
    BY <1>1, <1>2, <2>1, GoesOn DEF Outer, Places
<1>3. CASE Me.job # "remove"
  <2>1. Go(Udev, "idle")
    BY <1>3 DEF AfterUnmount, Me
  <2>. QED
    BY <1>1, <2>1, GoesIdle DEF Outer, Resting
<1>. QED
  BY <1>2, <1>3

LEMMA UnmountFailsKeepsInv == ASSUME Setting, StartupInv, UnmountFails(Udev) PROVE StartupInv'
<1>1. /\ Me.pc = "unmount" /\ Go(Udev, AfterUnmount(Udev))
      /\ UNCHANGED <<present, mounted, rows, known, cache, asked>>
  BY DEF UnmountFails, At, Me, hostVars, mapVars
<1>2. Typed /\ MountsAreHome' /\ \A x \in Paths : ~Waits(x)
  BY <1>1 DEF StartupInv, MountsAreHome, Waits
<1>. QED
  BY <1>1, <1>2, UnmountGoesOn, OuterKeepsInv DEF Typed

LEMMA UnmountKeepsInv == ASSUME Setting, StartupInv, UnmountPartition(Udev) PROVE StartupInv'
<1>1. /\ Me.pc = "unmount" /\ mounted' = [mounted EXCEPT ![Me.md.path] = None]
      /\ UNCHANGED <<present, rows, known, cache, asked>>
      /\ IF Me.md.part # None THEN Emit(Udev, [Me.md EXCEPT !.mounted = FALSE], "unmounted")
                              ELSE Go(Udev, AfterUnmount(Udev))
  BY DEF UnmountPartition, At, Me, mapVars
<1>2. Typed /\ mounted' \in [Paths -> Partitions \cup {None}] /\ MountsAreHome'
  BY <1>1 DEF StartupInv, Typed, MountsAreHome
<1>3. Me.job # "mount" /\ \A x \in Paths : ~Waits(x)
  BY <1>1, OnlyEventsOfMounts DEF Emitting
<1>4. CASE Me.md.part = None
  BY <1>1, <1>2, <1>3, <1>4, UnmountGoesOn, OuterKeepsInv DEF Typed
<1>5. CASE Me.md.part # None
  <2>. DEFINE md == [Me.md EXCEPT !.mounted = FALSE]
  <2>1. Me.md \in MountPoint /\ OfHome(Me.md) /\ Me.md.startup = asked[Me.md.path]
    BY <1>1, <1>3, <1>5, HeldIsHome
  <2>2. md \in MountPoint /\ OfHome(md) /\ md.startup = asked[md.path]
    BY <2>1 DEF MountPoint, OfHome
  <2>3. Emit(Udev, md, "unmounted")
    BY <1>1, <1>5
  <2>. HIDE DEF md
  <2>4. /\ act' \in [Actors -> Acting] /\ Me'.pc = "event" /\ Me'.md = md /\ Me'.back = "unmounted"
        /\ Me'.job = Me.job /\ Me'.patch = Me.patch
    BY <1>2, <2>2, <2>3, Emits DEF Backs
  <2>5. Typed'
    BY <1>1, <1>2, <2>4 DEF Typed
  <2>6. EntriesAreAsked' /\ Patching'
    BY <1>1, <1>3, <2>4, SameAsked, SamePatch
  <2>7. RowsAreHome' /\ EntriesAreHome'
    BY <1>1 DEF StartupInv, RowsAreHome, EntriesAreHome
  <2>8. Holding' /\ Mounting'
    BY <1>1, <1>3, <2>2, <2>4 DEF Holding, Mounting, Setting, NoneIsApart
  <2>9. Refreshing'
    BY <2>4 DEF Refreshing, Scanned, Loaded, Seen, Swept, Told, Within, Emitting
  <2>. QED
    BY <1>2, <2>5, <2>6, <2>7, <2>8, <2>9 DEF StartupInv
<1>. QED
  BY <1>4, <1>5

LEMMA UnmountedKeepsInv == ASSUME Setting, StartupInv, Unmounted(Udev) PROVE StartupInv'
<1>. DEFINE md == Me.md
            p == Me.md.part
<1>1. /\ Me.pc = "unmounted" /\ Typed /\ Put(p, md) /\ Go(Udev, AfterUnmount(Udev))
      /\ UNCHANGED <<present, mounted, rows, known, asked>>
  BY DEF Unmounted, At, Me, hostVars, StartupInv
<1>2. Me.job # "mount" /\ \A x \in Paths : ~Waits(x)
  BY <1>1, OnlyEventsOfMounts DEF Emitting
<1>3. OfHome(md) /\ md # None
  BY <1>1, <1>2 DEF StartupInv, Holding, Emitting
<1>4. md \in MountPoint /\ p \in Partitions /\ md.path \in Paths /\ md.startup = asked[md.path]
  <2>1. md \in MountPoint
    BY <1>1, <1>3, ActTyped DEF Acting
  <2>2. p \in Partitions
    BY <1>3, <2>1, VolumesAssumption DEF OfHome, MountPoint
  <2>. QED
    BY <1>1, <1>2, <2>2, HeldIsHome DEF Setting, NoneIsApart
<1>5. /\ cache' \in [Partitions -> [Paths -> MountPoint \cup {None}]] /\ EntriesAreHome'
      /\ \A q \in Partitions, y \in Paths :
            cache'[q][y] = IF p \in known /\ q = p /\ y = md.path THEN md ELSE cache[q][y]
  BY <1>1, <1>3, <1>4, PutEntry, PutHome
<1>6. EntriesAreAsked'
  BY <1>1, <1>2, <1>4, <1>5 DEF StartupInv, EntriesAreAsked
<1>7. Typed'
  BY <1>1, <1>5, UnmountGoesOn DEF Typed
<1>. QED
  BY <1>1, <1>5, <1>6, <1>7, UnmountGoesOn, OuterKeepsMap

-----------------------------------------------------------------------------
(* A refresh                                                               *)

(* Partitions leave the map or enter it, without mount points.             *)
LEMMA ReplaceHome ==
    ASSUME StartupInv, NEW gone, NEW come \in SUBSET Partitions, Replace(gone, come)
    PROVE  /\ known' \subseteq Partitions /\ cache' \in [Partitions -> [Paths -> MountPoint \cup {None}]]
           /\ EntriesAreHome'
           /\ \A q \in Partitions, y \in Paths : cache'[q][y] # None => q \notin gone /\ cache'[q][y] = cache[q][y]
<1>1. \A y \in Paths : NoMountPoints[y] = None
  BY DEF NoMountPoints
<1>2. NoMountPoints \in [Paths -> MountPoint \cup {None}]
  BY DEF NoMountPoints
<1>3. known' \subseteq Partitions /\ cache' \in [Partitions -> [Paths -> MountPoint \cup {None}]]
  BY <1>2 DEF StartupInv, Typed, Replace
<1>4. \A q \in Partitions : cache'[q] = IF q \in gone \cup come THEN NoMountPoints ELSE cache[q]
  BY DEF Replace
<1>5. \A q \in Partitions, y \in Paths :
         cache'[q][y] # None => q \notin gone \cup come /\ cache'[q][y] = cache[q][y]
  BY <1>1, <1>4
<1>6. EntriesAreHome'
  BY <1>5 DEF StartupInv, EntriesAreHome, Replace
<1>. QED
  BY <1>3, <1>5, <1>6

LEMMA RefreshBeginKeepsInv == ASSUME Setting, StartupInv, RefreshBegin(Udev) PROVE StartupInv'
<1>1. Me.pc = "refresh" /\ Typed /\ UNCHANGED <<present, mounted, rows, known, asked>>
  BY DEF RefreshBegin, At, Me, hostVars, StartupInv
<1>2. Me.job # "mount" /\ \A x \in Paths : ~Waits(x)
  BY <1>1, OnlyEventsOfMounts DEF Emitting
<1>3. CASE flight # None
  <2>1. Go(Udev, "join") /\ cache' = cache
    BY <1>3 DEF RefreshBegin
  <2>2. /\ act' \in [Actors -> Acting] /\ Me'.pc = "join" /\ Me'.job = Me.job /\ Me'.patch = Me.patch
    BY <1>1, <2>1, GoesOn DEF Places
  <2>3. MountsAreHome'
    BY <1>1 DEF StartupInv, MountsAreHome
  <2>. QED
    BY <1>1, <1>2, <2>1, <2>2, <2>3, OuterKeepsInv DEF Outer, Typed
<1>4. CASE flight = None
  <2>. DEFINE r == [Me EXCEPT !.pc = "disk", !.hw = present, !.disks = {DiskOf[p] : p \in present}]
  <2>1. cache' = [p \in Partitions |-> [x \in Paths |-> AgeOf(cache[p][x])]]
    BY <1>4 DEF RefreshBegin
  <2>2. act' = [act EXCEPT ![Udev] = r]
    <3>1. act' = [b \in Actors |-> IF b = Udev THEN r ELSE [act[b] EXCEPT !.md = AgeOf(@)]]
      BY <1>4 DEF RefreshBegin, Me
    <3>. HIDE DEF r
    <3>. QED
      BY <1>1, <3>1 DEF Setting, OneActor, Typed
  <2>3. r \in Acting
    <3>1. {DiskOf[p] : p \in present} \subseteq Disks /\ present \subseteq Partitions
      BY <1>1, VolumesAssumption DEF Typed
    <3>. QED
      BY ZenonT(60), <1>1, <3>1, ActTyped DEF Acting, Places
  <2>4. r.pc = "disk" /\ r.job = Me.job /\ r.patch = Me.patch
    BY <1>1, ActTyped DEF Acting
  <2>. HIDE DEF r
  <2>5. act' \in [Actors -> Acting] /\ Me' = r
    BY <1>1, <2>2, <2>3, Begins
  <2>6. ASSUME NEW mp \in MountPoint \cup {None}
        PROVE  /\ AgeOf(mp) \in MountPoint \cup {None}
               /\ mp = None => AgeOf(mp) = None
               /\ mp # None => AgeOf(mp).path = mp.path /\ AgeOf(mp).part = mp.part /\ AgeOf(mp).startup = mp.startup
    BY DEF AgeOf, MountPoint
  <2>7. cache' \in [Partitions -> [Paths -> MountPoint \cup {None}]]
    BY <1>1, <2>1, <2>6 DEF Typed
  <2>8. ASSUME NEW p \in Partitions, NEW x \in Paths, cache'[p][x] # None
        PROVE  /\ cache[p][x] # None
               /\ cache'[p][x].path = cache[p][x].path /\ cache'[p][x].part = cache[p][x].part
               /\ cache'[p][x].startup = cache[p][x].startup
    <3>1. cache'[p][x] = AgeOf(cache[p][x]) /\ cache[p][x] \in MountPoint \cup {None}
      BY <1>1, <2>1 DEF Typed
    <3>. QED
      BY <2>6, <2>8, <3>1
  <2>9. Typed'
    BY <1>1, <2>5, <2>7 DEF Typed
  <2>10. EntriesAreHome' /\ EntriesAreAsked'
    BY <1>1, <1>2, <2>8 DEF StartupInv, EntriesAreHome, EntriesAreAsked
  <2>. QED
    BY <1>1, <1>2, <2>4, <2>5, <2>9, <2>10, OuterKeepsMap DEF Outer
<1>. QED
  BY <1>3, <1>4

(* With one disk the whole map is replaced.                                *)
LEMMA RefreshDiskKeepsInv == ASSUME Setting, StartupInv, RefreshDisk(Udev) PROVE StartupInv'
<1>1. Me.pc = "disk" /\ Typed /\ Me \in Acting /\ UNCHANGED <<present, mounted, rows, asked>>
  BY ActTyped DEF RefreshDisk, At, Me, hostVars, StartupInv
<1>2. Me.job # "mount"
  BY <1>1, OnlyEventsOfMounts DEF Emitting
<1>3. PICK d \in Me.disks :
        /\ Replace(PartsOf(d), Me.hw \cap PartsOf(d))
        /\ act' = [act EXCEPT ![Udev].pc = "part", ![Udev].disks = @ \ {d}, ![Udev].parts = Me.hw \cap PartsOf(d)]
  BY DEF RefreshDisk, Me
<1>4. PartsOf(d) = Partitions
  BY <1>1, VolumesAssumption DEF PartsOf, Acting, Setting, OneDisk
<1>5. Me.hw \cap PartsOf(d) \in SUBSET Partitions
  BY <1>4
<1>6. /\ known' \subseteq Partitions /\ cache' \in [Partitions -> [Paths -> MountPoint \cup {None}]]
      /\ EntriesAreHome' /\ \A q \in Partitions, y \in Paths : cache'[q][y] = None
  BY <1>3, <1>4, <1>5, ReplaceHome
<1>. DEFINE r == [Me EXCEPT !.pc = "part", !.disks = Me.disks \ {d}, !.parts = Me.hw \cap PartsOf(d)]
<1>7. act' = [act EXCEPT ![Udev] = r]
  BY <1>1, <1>3, ActTyped DEF Me
<1>8. r \in Acting
  BY <1>1, <1>5 DEF Acting, Places
<1>9. r.pc = "part" /\ r.job = Me.job /\ r.patch = Me.patch
  BY <1>1 DEF Acting
<1>. HIDE DEF r
<1>10. act' \in [Actors -> Acting] /\ Me' = r
  BY <1>1, <1>7, <1>8, Begins
<1>11. Typed' /\ RowsAreHome' /\ MountsAreHome' /\ EntriesAreAsked'
  BY <1>1, <1>6, <1>10 DEF StartupInv, Typed, RowsAreHome, MountsAreHome, EntriesAreAsked
<1>12. Holding' /\ Mounting' /\ Patching'
  BY <1>1, <1>2, <1>9, <1>10, SamePatch DEF Holding, Mounting, Emitting
<1>13. Refreshing'
  BY <1>6, <1>9, <1>10 DEF Refreshing, Scanned, Loaded, Seen, Swept, Told, Within, Emitting
<1>. QED
  BY <1>6, <1>11, <1>12, <1>13 DEF StartupInv

LEMMA RefreshEndKeepsInv == ASSUME Setting, StartupInv, RefreshEnd(Udev) PROVE StartupInv'
<1>1. /\ Me.pc = "disk" /\ Typed /\ Me \in Acting /\ UNCHANGED <<present, mounted, rows, known, cache, asked>>
      /\ act' = [act EXCEPT ![Udev] = AfterRefresh(Me)]
  BY ActTyped DEF RefreshEnd, At, Me, hostVars, mapVars, StartupInv, Setting, OneActor
<1>2. Me.job # "mount" /\ \A x \in Paths : ~Waits(x)
  BY <1>1, OnlyEventsOfMounts DEF Emitting
<1>3. CASE Me.job = "patch"
  <2>. DEFINE r == [Me EXCEPT !.pc = "patched"]
  <2>1. act' = [act EXCEPT ![Udev] = r]
    BY <1>1, <1>3 DEF AfterRefresh
  <2>2. r \in Acting /\ r.pc = "patched" /\ r.job = Me.job /\ r.patch = Me.patch
    BY <1>1 DEF Acting, Places
  <2>. HIDE DEF r
  <2>3. act' \in [Actors -> Acting] /\ Me' = r
    BY <1>1, <2>1, <2>2, Begins
  <2>4. Typed' /\ EntriesAreAsked'
    BY <1>1, <1>2, <2>3, SameAsked DEF Typed
  <2>5. Holding' /\ Mounting' /\ Patching'
    BY <1>1, <1>2, <1>3, <2>2, <2>3, SamePatch DEF Holding, Mounting, Emitting
  <2>6. Refreshing'
    BY <2>2, <2>3 DEF Refreshing, Scanned, Loaded, Seen, Swept, Told, Within, Emitting
  <2>. QED
    BY <1>1, <2>4, <2>5, <2>6, SameData DEF StartupInv
<1>4. CASE Me.job # "patch"
  <2>1. act' \in [Actors -> Acting] /\ Me' = Resting
    BY <1>1, <1>4, Begins, RestingIsTyped DEF AfterRefresh
  <2>2. MountsAreHome' /\ present' \subseteq Partitions /\ mounted' \in [Paths -> Partitions \cup {None}]
    BY <1>1 DEF StartupInv, MountsAreHome, Typed
  <2>. QED
    BY <1>1, <1>2, <2>1, <2>2, OuterKeepsInv DEF Outer, Resting
<1>. QED
  BY <1>3, <1>4

-----------------------------------------------------------------------------
(* The handling of a partition                                             *)

LEMMA LoadRowsKeepsInv == ASSUME Setting, StartupInv, LoadRows(Udev) PROVE StartupInv'
<1>1. Me.pc = "part" /\ Typed /\ Me \in Acting /\ UNCHANGED <<present, mounted, rows, known, asked>>
  BY ActTyped DEF LoadRows, At, Me, hostVars, StartupInv
<1>2. Me.job # "mount" /\ \A x \in Paths : ~Waits(x)
  BY <1>1, OnlyEventsOfMounts DEF Emitting
<1>3. PICK p \in Me.parts :
        /\ cache' = [cache EXCEPT ![p] = [x \in Paths |->
                 IF p \in known /\ rows[x] # None /\ rows[x].part = p
                 THEN NewMountPoint(x, p, rows[x].startup, mounted[x] # None, FALSE)
                 ELSE cache[p][x]]]
        /\ act' = [act EXCEPT ![Udev].pc = "procfs", ![Udev].on = p, ![Udev].parts = @ \ {p}]
  BY DEF LoadRows, Me
<1>4. p \in Partitions
  BY <1>1 DEF Acting
<1>. DEFINE Ours(x) == p \in known /\ rows[x] # None /\ rows[x].part = p
            new(x) == NewMountPoint(x, p, rows[x].startup, mounted[x] # None, FALSE)
            r == [Me EXCEPT !.pc = "procfs", !.on = p, !.parts = @ \ {p}]
<1>5. \A x \in Paths : Ours(x) =>
         /\ new(x) \in MountPoint /\ new(x).path = x /\ new(x).part = p /\ p = Home[x]
         /\ new(x).startup = asked[x]
  BY <1>1, <1>4 DEF StartupInv, Typed, RowType, RowsAreHome, NewMountPoint, MountPoint
<1>6. act' = [act EXCEPT ![Udev] = r]
  BY <1>1, <1>3, ActTyped DEF Me
<1>7. r \in Acting
  BY <1>1, <1>4 DEF Acting, Places
<1>8. r.pc = "procfs" /\ r.on = p /\ r.job = Me.job /\ r.patch = Me.patch
  BY <1>1 DEF Acting
<1>9. \A q \in Partitions, x \in Paths :
         cache'[q][x] = IF q = p /\ Ours(x) THEN new(x) ELSE cache[q][x]
  BY <1>1, <1>3, <1>4 DEF Typed
<1>10. cache' \in [Partitions -> [Paths -> MountPoint \cup {None}]]
  <2>1. [x \in Paths |-> IF Ours(x) THEN new(x) ELSE cache[p][x]] \in [Paths -> MountPoint \cup {None}]
    <3>. HIDE DEF Ours, new
    <3>. QED
      BY <1>1, <1>4, <1>5 DEF Typed
  <2>. QED
    BY <1>1, <1>3, <1>4, <2>1 DEF Typed
<1>11. \A x \in Paths : rows[x] # None /\ Home[x] = p /\ p \in known => Ours(x) /\ new(x) # None
  BY <1>5 DEF StartupInv, RowsAreHome, Setting, NoneIsApart
<1>12. \A x \in Paths : Ours(x) => p \in known
  OBVIOUS
<1>. HIDE DEF r, Ours, new
<1>13. act' \in [Actors -> Acting] /\ Me' = r
  BY <1>1, <1>6, <1>7, Begins
<1>14. Typed' /\ RowsAreHome' /\ MountsAreHome'
  BY <1>1, <1>10, <1>13 DEF StartupInv, Typed, RowsAreHome, MountsAreHome
<1>15. EntriesAreHome' /\ EntriesAreAsked'
  BY <1>1, <1>2, <1>5, <1>9, <1>12 DEF StartupInv, EntriesAreHome, EntriesAreAsked
<1>16. Holding' /\ Mounting' /\ Patching'
  BY <1>1, <1>2, <1>8, <1>13, SamePatch DEF Holding, Mounting, Emitting
<1>17. Scanned'
  BY <1>1, <1>8, <1>9, <1>13 DEF StartupInv, Refreshing, Scanned, Within
<1>18. Loaded'
  BY <1>1, <1>4, <1>8, <1>9, <1>11, <1>13 DEF Loaded
<1>19. Seen' /\ Swept' /\ Told'
  BY <1>8, <1>13 DEF Seen, Swept, Told, Within, Emitting
<1>. QED
  BY <1>14, <1>15, <1>16, <1>17, <1>18, <1>19 DEF StartupInv, Refreshing

LEMMA NextDiskKeepsInv == ASSUME Setting, StartupInv, NextDisk(Udev) PROVE StartupInv'
<1>1. Me.pc = "part" /\ Go(Udev, "disk") /\ UNCHANGED <<present, mounted, rows, known, cache, asked>>
  BY DEF NextDisk, At, Me, hostVars, mapVars
<1>2. Typed /\ MountsAreHome'
  BY <1>1 DEF StartupInv, MountsAreHome
<1>3. Me.job # "mount" /\ \A x \in Paths : ~Waits(x)
  BY <1>1, OnlyEventsOfMounts DEF Emitting
<1>. QED
  BY <1>1, <1>2, <1>3, GoesOn, OuterKeepsInv DEF Outer, Places, Typed

LEMMA ReadMountsKeepsInv == ASSUME Setting, StartupInv, ReadMounts(Udev) PROVE StartupInv'
<1>. DEFINE r == [Me EXCEPT !.pc = "seen", !.seen = mounted, !.left = {x \in Paths : mounted[x] # None}]
<1>1. /\ Me.pc = "procfs" /\ Typed /\ Me \in Acting /\ act' = [act EXCEPT ![Udev] = r]
      /\ UNCHANGED <<present, mounted, rows, known, cache, asked>>
  BY ActTyped DEF ReadMounts, At, Me, hostVars, mapVars, StartupInv
<1>2. Me.job # "mount" /\ \A x \in Paths : ~Waits(x)
  BY <1>1, OnlyEventsOfMounts DEF Emitting
<1>3. r \in Acting
  BY <1>1 DEF Acting, Places, Typed
<1>4. r.pc = "seen" /\ r.on = Me.on /\ r.job = Me.job /\ r.patch = Me.patch /\ r.seen = mounted
  BY <1>1 DEF Acting
<1>. HIDE DEF r
<1>5. act' \in [Actors -> Acting] /\ Me' = r
  BY <1>1, <1>3, Begins
<1>6. Typed' /\ EntriesAreAsked'
  BY <1>1, <1>2, <1>5, SameAsked DEF Typed
<1>7. Holding' /\ Mounting' /\ Patching'
  BY <1>1, <1>2, <1>4, <1>5, SamePatch DEF Holding, Mounting, Emitting
<1>8. Scanned' /\ Loaded'
  BY <1>1, <1>4, <1>5 DEF StartupInv, Refreshing, Scanned, Loaded, Within
<1>9. Seen' /\ Swept' /\ Told'
  BY <1>4, <1>5 DEF StartupInv, MountsAreHome, Seen, Swept, Told, Within, Emitting
<1>. QED
  BY <1>1, <1>6, <1>7, <1>8, <1>9, SameData DEF StartupInv, Refreshing

(* A mount that is seen: what is put into the entry, and who is told.       *)
LEMMA SeeMountKeepsInv == ASSUME Setting, StartupInv, SeeMount(Udev) PROVE StartupInv'
<1>1. Me.pc = "seen" /\ Typed /\ Me \in Acting /\ UNCHANGED <<present, mounted, rows, known, asked>>
  BY ActTyped DEF SeeMount, At, Me, hostVars, StartupInv
<1>2. Me.job # "mount" /\ \A x \in Paths : ~Waits(x)
  BY <1>1, OnlyEventsOfMounts DEF Emitting
<1>3. PICK x \in Me.left :
        LET p == Me.on
            old == cache[p][x]
            found == p \in known /\ old # None
            ours == Me.seen[x] = p
            mp == IF found THEN [old EXCEPT !.mounted = TRUE, !.fresh = TRUE]
                           ELSE NewMountPoint(x, p, FALSE, TRUE, TRUE)
            rest == [act EXCEPT ![Udev].left = @ \ {x}]
        IN /\ IF found \/ ours THEN Put(p, mp) ELSE UNCHANGED cache
           /\ act' = IF p \in known /\ (IF found THEN ~old.mounted ELSE ours)
                     THEN [rest EXCEPT ![Udev].pc = "event", ![Udev].md = mp, ![Udev].back = "seen"]
                     ELSE rest
  BY DEF SeeMount, Me
<1>. DEFINE p == Me.on
            old == cache[p][x]
            found == p \in known /\ old # None
            ours == Me.seen[x] = p
            mp == IF found THEN [old EXCEPT !.mounted = TRUE, !.fresh = TRUE]
                           ELSE NewMountPoint(x, p, FALSE, TRUE, TRUE)
            tells == p \in known /\ (IF found THEN ~old.mounted ELSE ours)
            r == IF tells THEN [Me EXCEPT !.left = @ \ {x}, !.pc = "event", !.md = mp, !.back = "seen"]
                          ELSE [Me EXCEPT !.left = @ \ {x}]
<1>4. /\ p \in Partitions /\ x \in Paths
      /\ \A y \in Paths : rows[y] # None /\ Home[y] = p /\ p \in known => cache[p][y] # None
      /\ Me.seen[x] \in {None, Home[x]}
  BY <1>1 DEF StartupInv, Refreshing, Loaded, Seen, Within, Acting
<1>5. found \/ ours => mp \in MountPoint /\ mp.path = x /\ mp.part = p /\ OfHome(mp) /\ mp.fresh /\ mp # None
  <2>1. CASE found
    <3>1. old \in MountPoint /\ p = Home[x] /\ old.path = x /\ old.part = p
      BY <1>1, <1>4, <2>1 DEF StartupInv, Typed, EntriesAreHome
    <3>. HIDE DEF old
    <3>. QED
      BY <2>1, <3>1 DEF MountPoint, OfHome, Setting, NoneIsApart
  <2>2. CASE ~found
    <3>1. mp = NewMountPoint(x, p, FALSE, TRUE, TRUE)
      BY <2>2
    <3>2. ours => p = Home[x]
      BY <1>4 DEF Setting, NoneIsApart
    <3>3. mp \in MountPoint /\ mp.path = x /\ mp.part = p /\ mp.fresh
      BY <1>4, <3>1 DEF NewMountPoint, MountPoint
    <3>. HIDE DEF mp, ours
    <3>. QED
      BY <2>2, <3>2, <3>3 DEF OfHome, Setting, NoneIsApart
  <2>. QED
    BY <2>1, <2>2
<1>6. p \in known /\ (found \/ ours) => mp.startup = asked[x]
  <2>1. CASE found
    <3>1. old \in MountPoint /\ old.startup = asked[x]
      BY <1>1, <1>2, <1>4, <2>1 DEF StartupInv, Typed, EntriesAreAsked
    <3>. HIDE DEF old
    <3>. QED
      BY <2>1, <3>1 DEF MountPoint
  <2>2. CASE ~found /\ p \in known /\ ours
    <3>1. rows[x] = None
      BY <1>4, <2>2 DEF Setting, NoneIsApart
    <3>2. asked[x] = FALSE
      BY <1>1, <1>4, <3>1 DEF StartupInv, RowsAreHome, Typed
    <3>. QED
      BY <2>2, <3>2 DEF NewMountPoint
  <2>. QED
    BY <2>1, <2>2
<1>7. act' = [act EXCEPT ![Udev] = r]
  <2>1. act' = IF tells THEN [[act EXCEPT ![Udev].left = @ \ {x}]
                                EXCEPT ![Udev].pc = "event", ![Udev].md = mp, ![Udev].back = "seen"]
                        ELSE [act EXCEPT ![Udev].left = @ \ {x}]
    BY <1>3
  <2>. HIDE DEF tells, mp
  <2>. QED
    BY <1>1, <2>1, ActTyped DEF Me
<1>8. tells => found \/ ours
  OBVIOUS
<1>9. r \in Acting
  <2>. HIDE DEF tells, mp, found, ours
  <2>. QED
    BY ZenonT(60), <1>1, <1>5, <1>8 DEF Acting, Places, Backs
<1>10. /\ r.on = p /\ r.job = Me.job /\ r.patch = Me.patch /\ r.seen = Me.seen
       /\ IF tells THEN r.pc = "event" /\ r.md = mp /\ r.back = "seen" ELSE r.pc = "seen"
  <2>. HIDE DEF tells, mp
  <2>. QED
    BY <1>1 DEF Acting
<1>11. /\ cache' \in [Partitions -> [Paths -> MountPoint \cup {None}]] /\ EntriesAreHome'
       /\ \A q \in Partitions, y \in Paths :
             cache'[q][y] = IF p \in known /\ (found \/ ours) /\ q = p /\ y = x THEN mp ELSE cache[q][y]
  <2>1. CASE found \/ ours
    <3>1. Put(p, mp)
      BY <1>3, <2>1
    <3>. HIDE DEF mp, found, ours, p
    <3>. QED
      BY <1>1, <1>4, <1>5, <2>1, <3>1, PutEntry, PutHome
  <2>2. CASE ~(found \/ ours)
    <3>1. cache' = cache
      BY <1>3, <2>2
    <3>. QED
      BY <1>1, <2>2, <3>1 DEF StartupInv, Typed, EntriesAreHome
  <2>. QED
    BY <2>1, <2>2
<1>12. p \in known /\ (found \/ ours) => mp # None
  BY <1>5
<1>. HIDE DEF r, tells, mp, found, ours, old
<1>13. act' \in [Actors -> Acting] /\ Me' = r
  BY <1>1, <1>7, <1>9, Begins
<1>14. Typed' /\ RowsAreHome' /\ MountsAreHome'
  BY <1>1, <1>11, <1>13 DEF StartupInv, Typed, RowsAreHome, MountsAreHome
<1>15. EntriesAreAsked'
  BY <1>1, <1>2, <1>6, <1>11 DEF StartupInv, EntriesAreAsked
<1>16. Patching'
  BY <1>1, <1>2, <1>10, <1>13, SamePatch
<1>17. tells => p \in known
  BY DEF tells
<1>18. Holding' /\ Mounting'
  BY <1>1, <1>2, <1>5, <1>6, <1>8, <1>10, <1>13, <1>17 DEF Holding, Mounting, Emitting
<1>19. Scanned'
  <2>1. Within({"part", "procfs", "seen", "sweep"})
    BY <1>1 DEF Within
  <2>2. \A q \in Partitions, y \in Paths : cache[q][y] # None => Settled(cache[q][y]) \/ q = p
    BY <2>1 DEF StartupInv, Refreshing, Scanned
  <2>3. Me'.pc # "part" /\ Me'.on = p
    BY <1>10, <1>13
  <2>. QED
    BY <1>11, <2>2, <2>3 DEF Scanned
<1>20. Loaded' /\ Seen'
  BY <1>1, <1>4, <1>10, <1>11, <1>12, <1>13 DEF StartupInv, Refreshing, Loaded, Seen, Within
<1>21. Swept'
  BY <1>10, <1>13 DEF Swept, Within, Emitting
<1>22. Told'
  BY <1>1, <1>4, <1>5, <1>8, <1>10, <1>11, <1>12, <1>13, <1>17 DEF Told, Emitting
<1>. QED
  BY <1>11, <1>14, <1>15, <1>16, <1>18, <1>19, <1>20, <1>21, <1>22 DEF StartupInv, Refreshing

LEMMA SeenAllKeepsInv == ASSUME Setting, StartupInv, SeenAll(Udev) PROVE StartupInv'
<1>. DEFINE stale == {s \in known \X MountPoint :
                        /\ cache[s[1]][s[2].path] = s[2] /\ ~s[2].fresh /\ (s[2].mounted \/ s[2].startup)}
            r == [Me EXCEPT !.pc = "sweep", !.stale = stale]
<1>1. /\ Me.pc = "seen" /\ Typed /\ Me \in Acting /\ act' = [act EXCEPT ![Udev] = r]
      /\ UNCHANGED <<present, mounted, rows, known, cache, asked>>
  <2>1. act' = [act EXCEPT ![Udev].pc = "sweep", ![Udev].stale = stale]
    BY DEF SeenAll
  <2>. HIDE DEF stale
  <2>. QED
    BY <2>1, ActTyped DEF SeenAll, At, Me, hostVars, mapVars, StartupInv
<1>2. Me.job # "mount" /\ \A x \in Paths : ~Waits(x)
  BY <1>1, OnlyEventsOfMounts DEF Emitting
<1>3. stale \subseteq Partitions \X MountPoint
  BY <1>1 DEF Typed
<1>4. /\ Me.on \in Partitions
      /\ \A q \in Partitions, y \in Paths : cache[q][y] # None => Settled(cache[q][y]) \/ q = Me.on
  BY <1>1 DEF StartupInv, Refreshing, Scanned, Loaded, Within
<1>5. ASSUME NEW s \in stale
      PROVE  OfHome(s[2]) /\ s[2].part = Me.on /\ s[2].startup = asked[s[2].path]
  <2>1. /\ s[1] \in Partitions /\ s[2].path \in Paths /\ cache[s[1]][s[2].path] = s[2]
        /\ s[2] # None /\ ~Settled(s[2])
    BY <1>3, <1>5 DEF MountPoint, Settled, Setting, NoneIsApart
  <2>2. s[1] = Me.on
    BY <1>4, <2>1
  <2>. QED
    BY <1>2, <2>1, <2>2 DEF StartupInv, EntriesAreHome, EntriesAreAsked, OfHome
<1>6. ASSUME NEW x \in Paths, cache[Me.on][x] # None, ~Settled(cache[Me.on][x])
      PROVE  <<Me.on, cache[Me.on][x]>> \in stale
  <2>1. Me.on \in known /\ cache[Me.on][x] \in MountPoint /\ cache[Me.on][x].path = x
    BY <1>1, <1>4, <1>6 DEF StartupInv, Typed, EntriesAreHome
  <2>. QED
    BY <1>6, <2>1 DEF Settled, MountPoint
<1>. HIDE DEF stale
<1>7. r \in Acting
  BY <1>1, <1>3 DEF Acting, Places
<1>8. r.pc = "sweep" /\ r.on = Me.on /\ r.job = Me.job /\ r.patch = Me.patch /\ r.stale = stale
  BY <1>1 DEF Acting
<1>. HIDE DEF r
<1>9. act' \in [Actors -> Acting] /\ Me' = r
  BY <1>1, <1>7, Begins
<1>10. Typed' /\ EntriesAreAsked'
  BY <1>1, <1>2, <1>9, SameAsked DEF Typed
<1>11. Holding' /\ Mounting' /\ Patching'
  BY <1>1, <1>2, <1>8, <1>9, SamePatch DEF Holding, Mounting, Emitting
<1>12. Scanned' /\ Loaded' /\ Seen' /\ Told'
  BY <1>1, <1>4, <1>8, <1>9 DEF Scanned, Loaded, Seen, Told, Within, Emitting
<1>13. Swept'
  BY <1>1, <1>4, <1>5, <1>6, <1>8, <1>9 DEF Swept
<1>. QED
  BY <1>1, <1>10, <1>11, <1>12, <1>13, SameData DEF StartupInv, Refreshing

LEMMA SweepKeepsInv == ASSUME Setting, StartupInv, Sweep(Udev) PROVE StartupInv'
<1>1. Me.pc = "sweep" /\ Typed /\ Me \in Acting /\ UNCHANGED <<present, mounted, rows, known, asked>>
  BY ActTyped DEF Sweep, At, Me, hostVars, StartupInv
<1>2. Me.job # "mount" /\ \A x \in Paths : ~Waits(x)
  BY <1>1, OnlyEventsOfMounts DEF Emitting
<1>3. PICK s \in Me.stale :
        LET mp == [s[2] EXCEPT !.mounted = FALSE, !.fresh = TRUE]
            rest == [act EXCEPT ![Udev].stale = @ \ {s}]
        IN /\ Put(Me.on, mp)
           /\ act' = IF Me.on \in known
                     THEN [rest EXCEPT ![Udev].pc = "event", ![Udev].md = mp, ![Udev].back = "sweep"]
                     ELSE rest
  BY DEF Sweep, Me
<1>. DEFINE p == Me.on
            mp == [s[2] EXCEPT !.mounted = FALSE, !.fresh = TRUE]
            tells == p \in known
            r == IF tells THEN [Me EXCEPT !.stale = @ \ {s}, !.pc = "event", !.md = mp, !.back = "sweep"]
                          ELSE [Me EXCEPT !.stale = @ \ {s}]
<1>4. /\ p \in Partitions /\ s \in Partitions \X MountPoint /\ s[2] \in MountPoint
      /\ OfHome(s[2]) /\ s[2].part = p /\ s[2].startup = asked[s[2].path]
      /\ \A t \in Me.stale : OfHome(t[2]) /\ t[2].part = p /\ t[2].startup = asked[t[2].path]
      /\ \A y \in Paths : cache[p][y] # None /\ ~Settled(cache[p][y]) => <<p, cache[p][y]>> \in Me.stale
  BY <1>1 DEF StartupInv, Refreshing, Swept, Within, Acting
<1>5. /\ mp \in MountPoint /\ mp.path = s[2].path /\ mp.part = p /\ OfHome(mp) /\ mp.fresh /\ mp # None
      /\ mp.startup = asked[mp.path] /\ Settled(mp) /\ mp.path \in Paths
  BY <1>4 DEF MountPoint, OfHome, Setting, NoneIsApart, Settled
<1>6. act' = [act EXCEPT ![Udev] = r]
  <2>1. act' = IF tells THEN [[act EXCEPT ![Udev].stale = @ \ {s}]
                                EXCEPT ![Udev].pc = "event", ![Udev].md = mp, ![Udev].back = "sweep"]
                        ELSE [act EXCEPT ![Udev].stale = @ \ {s}]
    BY <1>3
  <2>. HIDE DEF tells, mp
  <2>. QED
    BY <1>1, <2>1, ActTyped DEF Me
<1>7. r \in Acting
  <2>. HIDE DEF tells, mp
  <2>. QED
    BY ZenonT(60), <1>1, <1>5 DEF Acting, Places, Backs
<1>8. /\ r.on = p /\ r.job = Me.job /\ r.patch = Me.patch /\ r.stale = Me.stale \ {s}
      /\ IF tells THEN r.pc = "event" /\ r.md = mp /\ r.back = "sweep" ELSE r.pc = "sweep"
  <2>. HIDE DEF tells, mp
  <2>. QED
    BY <1>1 DEF Acting
<1>9. Put(p, mp)
  BY <1>3
<1>. HIDE DEF r, mp
<1>10. /\ cache' \in [Partitions -> [Paths -> MountPoint \cup {None}]] /\ EntriesAreHome'
       /\ \A q \in Partitions, y \in Paths :
             cache'[q][y] = IF p \in known /\ q = p /\ y = mp.path THEN mp ELSE cache[q][y]
  BY <1>1, <1>4, <1>5, <1>9, PutEntry, PutHome
<1>11. act' \in [Actors -> Acting] /\ Me' = r
  BY <1>1, <1>6, <1>7, Begins
<1>12. Typed' /\ RowsAreHome' /\ MountsAreHome'
  BY <1>1, <1>10, <1>11 DEF StartupInv, Typed, RowsAreHome, MountsAreHome
<1>13. EntriesAreAsked'
  BY <1>1, <1>2, <1>5, <1>10 DEF StartupInv, EntriesAreAsked
<1>14. Holding' /\ Mounting' /\ Patching'
  BY <1>1, <1>2, <1>5, <1>8, <1>11, SamePatch DEF Holding, Mounting, Emitting
<1>15. Scanned'
  <2>1. \A q \in Partitions, y \in Paths : cache[q][y] # None => Settled(cache[q][y]) \/ q = p
    BY <1>1 DEF StartupInv, Refreshing, Scanned, Within
  <2>2. Me'.pc # "part" /\ Me'.on = p
    BY <1>8, <1>11
  <2>. QED
    BY <1>10, <2>1, <2>2 DEF Scanned
<1>16. Loaded' /\ Seen'
  BY <1>8, <1>11 DEF Loaded, Seen, Within, Emitting
<1>17. ASSUME NEW y \in Paths, cache'[p][y] # None, ~Settled(cache'[p][y])
       PROVE  <<p, cache'[p][y]>> \in Me.stale \ {s}
  <2>1. p \in known
    BY <1>4, <1>10, <1>17, <1>1 DEF EntriesAreHome
  <2>2. y # mp.path /\ cache'[p][y] = cache[p][y]
    BY <1>4, <1>5, <1>10, <1>17, <2>1
  <2>3. cache[p][y].path = y
    BY <1>4, <1>17, <2>2 DEF StartupInv, EntriesAreHome
  <2>4. <<p, cache[p][y]>> # s
    BY <1>5, <2>2, <2>3
  <2>. QED
    BY <1>4, <1>17, <2>2, <2>4
<1>18. Swept'
  BY <1>1, <1>4, <1>8, <1>11, <1>17 DEF Swept
<1>19. Told'
  BY <1>4, <1>5, <1>8, <1>10, <1>11 DEF Told, Emitting
<1>. QED
  BY <1>10, <1>12, <1>13, <1>14, <1>15, <1>16, <1>18, <1>19 DEF StartupInv, Refreshing

LEMMA SweptAllKeepsInv == ASSUME Setting, StartupInv, SweptAll(Udev) PROVE StartupInv'
<1>1. /\ Me.pc = "sweep" /\ Me.stale = {} /\ Typed /\ Go(Udev, "part")
      /\ UNCHANGED <<present, mounted, rows, known, cache, asked>>
  BY DEF SweptAll, At, Me, hostVars, mapVars, StartupInv
<1>2. Me.job # "mount" /\ \A x \in Paths : ~Waits(x)
  BY <1>1, OnlyEventsOfMounts DEF Emitting
<1>3. act' \in [Actors -> Acting] /\ Me'.pc = "part" /\ Me'.job = Me.job /\ Me'.patch = Me.patch
  BY <1>1, GoesOn DEF Places
<1>4. \A q \in Partitions, y \in Paths : cache[q][y] # None => Settled(cache[q][y])
  BY <1>1 DEF StartupInv, Refreshing, Scanned, Swept, Within
<1>5. Typed' /\ EntriesAreAsked'
  BY <1>1, <1>2, <1>3, SameAsked DEF Typed
<1>6. Holding' /\ Mounting' /\ Patching'
  BY <1>1, <1>2, <1>3, SamePatch DEF Holding, Mounting, Emitting
<1>7. Scanned' /\ Loaded' /\ Seen' /\ Swept' /\ Told'
  BY <1>1, <1>3, <1>4 DEF Scanned, Loaded, Seen, Swept, Told, Within, Emitting
<1>. QED
  BY <1>1, <1>5, <1>6, <1>7, SameData DEF StartupInv, Refreshing

-----------------------------------------------------------------------------
(* Requests                                                                *)

(* The setting reaches the entry of the partition, if it has one: a path   *)
(* that another partition lists would not be at home.                      *)
LEMMA PatchedKeepsInv == ASSUME Setting, StartupInv, Patched(Udev) PROVE StartupInv'
<1>. DEFINE x == Me.patch.path
            p == Me.patch.part
            md == [Me.patch EXCEPT !.mounted = mounted[x] # None]
<1>1. /\ Me.pc = "patched" /\ Typed /\ Me \in Acting /\ Emit(Udev, md, "idle")
      /\ UNCHANGED <<present, mounted, rows, known, asked>>
      /\ IF p \in known \/ {q \in known : x \in Listed(q)} = {}
         THEN Put(p, md)
         ELSE \E q \in {q \in known : x \in Listed(q)} :
                 Put(cache[q][x].part, [cache[q][x] EXCEPT !.startup = md.startup])
  BY ActTyped DEF Patched, At, Me, hostVars, StartupInv
<1>2. Me.job = "patch" /\ Me.patch \in MountPoint /\ OfHome(Me.patch) /\ Me.patch.startup = asked[x]
  BY <1>1 DEF StartupInv, Patching, Acting
<1>3. /\ md \in MountPoint /\ md.path = x /\ md.part = p /\ OfHome(md) /\ md.startup = asked[x] /\ md # None
      /\ x \in Paths /\ p \in Partitions /\ p = Home[x]
  BY <1>2, VolumesAssumption DEF MountPoint, OfHome, Setting, NoneIsApart
<1>4. \A q \in Partitions : cache[q][x] # None => q = p
  BY <1>3 DEF StartupInv, EntriesAreHome
<1>5. Put(p, md)
  <2>1. CASE p \in known
    BY <1>1, <2>1
  <2>2. CASE p \notin known
    <3>1. {q \in known : x \in Listed(q)} = {}
      BY <1>1, <1>4, <2>2 DEF Typed, Listed
    <3>. QED
      BY <1>1, <3>1
  <2>. QED
    BY <2>1, <2>2
<1>. HIDE DEF md
<1>6. /\ cache' \in [Partitions -> [Paths -> MountPoint \cup {None}]] /\ EntriesAreHome'
      /\ \A q \in Partitions, y \in Paths :
            cache'[q][y] = IF p \in known /\ q = p /\ y = x THEN md ELSE cache[q][y]
  BY <1>1, <1>3, <1>5, PutEntry, PutHome
<1>7. /\ act' \in [Actors -> Acting] /\ Me'.pc = "event" /\ Me'.md = md /\ Me'.back = "idle"
      /\ Me'.job = Me.job /\ Me'.patch = Me.patch
  BY <1>1, <1>3, Emits DEF Backs
<1>8. Typed' /\ RowsAreHome' /\ MountsAreHome'
  BY <1>1, <1>6, <1>7 DEF StartupInv, Typed, RowsAreHome, MountsAreHome
<1>9. EntriesAreAsked'
  <2>. SUFFICES ASSUME NEW q \in Partitions, NEW y \in Paths, cache'[q][y] # None
                PROVE  cache'[q][y].startup = asked[y]
    BY <1>1 DEF EntriesAreAsked
  <2>1. CASE y = x
    <3>1. q = p /\ p \in known
      BY <1>1, <1>3, <1>6, <2>1 DEF EntriesAreHome
    <3>. QED
      BY <1>3, <1>6, <2>1, <3>1
  <2>2. CASE y # x
    <3>1. ~Waits(y)
      BY <1>1, <2>2 DEF Waits
    <3>. QED
      BY <1>6, <2>2, <3>1 DEF StartupInv, EntriesAreAsked
  <2>. QED
    BY <2>1, <2>2
<1>10. Patching'
  BY <1>1, <1>2, <1>7, SamePatch
<1>11. Holding' /\ Mounting'
  BY <1>1, <1>2, <1>3, <1>7 DEF Holding, Mounting
<1>12. Refreshing'
  BY <1>7 DEF Refreshing, Scanned, Loaded, Seen, Swept, Told, Within, Emitting
<1>. QED
  BY <1>6, <1>8, <1>9, <1>10, <1>11, <1>12 DEF StartupInv

(* A handler or request that begins with a call: its mount point is in the *)
(* map at home, or belongs to a mount by hand.                             *)
LEMMA CallKeepsInv ==
    ASSUME Setting, StartupInv, NEW r \in Acting, act' = [act EXCEPT ![Udev] = r],
           UNCHANGED <<mounted, rows, known, cache, asked>>, present' \subseteq Partitions,
           \A x \in Paths : ~Waits(x), r.pc \in {"mount", "unmount"}, r.pc = "mount" => r.back \in {"idle", "add"}, r.md # None,
           \/ OfHome(r.md) /\ (r.job = "mount" \/ r.md.startup = asked[r.md.path])
           \/ r.pc = "unmount" /\ r.md.part = None,
           r.job = "mount" => r.pc = "mount" /\ r.back = "idle",
           r.job = "patch" => Me.job = "patch" /\ r.patch = Me.patch
    PROVE  StartupInv'
<1>1. act' \in [Actors -> Acting] /\ Me' = r
  BY Begins DEF StartupInv
<1>2. Typed' /\ EntriesAreAsked'
  BY <1>1, SameAsked DEF StartupInv, Typed
<1>3. RowsAreHome' /\ MountsAreHome' /\ EntriesAreHome'
  BY DEF StartupInv, RowsAreHome, MountsAreHome, EntriesAreHome
<1>4. Holding' /\ Mounting' /\ Patching'
  BY <1>1, SamePatch DEF Holding, Mounting, Emitting
<1>5. Refreshing'
  BY <1>1 DEF Refreshing, Scanned, Loaded, Seen, Swept, Told, Within, Emitting
<1>. QED
  BY <1>2, <1>3, <1>4, <1>5 DEF StartupInv

LEMMA RequestMountKeepsInv == ASSUME Setting, StartupInv, RequestMount(Udev) PROVE StartupInv'
<1>1. Me.pc = "idle" /\ Typed /\ UNCHANGED <<present, mounted, rows, known, cache, asked>>
  BY DEF RequestMount, At, Me, hostVars, mapVars, StartupInv
<1>2. PICK x \in Paths, startup \in BOOLEAN :
         act' = [act EXCEPT ![Udev] = [Resting EXCEPT !.pc = "mount", !.job = "mount",
                    !.md = NewMountPoint(x, Home[x], startup, FALSE, FALSE)]]
  BY DEF RequestMount
<1>. DEFINE md == NewMountPoint(x, Home[x], startup, FALSE, FALSE)
            r == [Resting EXCEPT !.pc = "mount", !.job = "mount", !.md = md]
<1>3. md \in MountPoint /\ md # None /\ OfHome(md)
  <2>1. md \in MountPoint /\ OfHome(md)
    BY VolumesAssumption DEF NewMountPoint, MountPoint, OfHome
  <2>. QED
    BY <2>1 DEF Setting, NoneIsApart
<1>4. act' = [act EXCEPT ![Udev] = r]
  BY <1>2
<1>. HIDE DEF md
<1>5. r \in Acting /\ r.pc = "mount" /\ r.job = "mount" /\ r.md = md /\ r.back = "idle"
  BY <1>3, RestingIsTyped DEF Acting, Places, Resting
<1>6. \A y \in Paths : ~Waits(y)
  BY <1>1 DEF Waits
<1>. HIDE DEF r
<1>. QED
  BY <1>1, <1>3, <1>4, <1>5, <1>6, CallKeepsInv DEF Typed

LEMMA RequestUnmountKeepsInv == ASSUME Setting, StartupInv, RequestUnmount(Udev) PROVE StartupInv'
<1>1. Me.pc = "idle" /\ Typed /\ UNCHANGED <<present, mounted, rows, known, cache, asked>>
  BY DEF RequestUnmount, At, Me, hostVars, mapVars, StartupInv
<1>2. PICK x \in Paths : \E md \in {NewMountPoint(x, None, FALSE, FALSE, FALSE)}
                                     \cup {cache[q][x] : q \in {q \in known : x \in Listed(q)}} :
         act' = [act EXCEPT ![Udev] = [Resting EXCEPT !.pc = "unmount", !.job = "unmount", !.md = md]]
  BY DEF RequestUnmount
<1>. PICK md \in {NewMountPoint(x, None, FALSE, FALSE, FALSE)}
                    \cup {cache[q][x] : q \in {q \in known : x \in Listed(q)}} :
         act' = [act EXCEPT ![Udev] = [Resting EXCEPT !.pc = "unmount", !.job = "unmount", !.md = md]]
  BY <1>2
<1>3. \A y \in Paths : ~Waits(y)
  BY <1>1 DEF Waits
<1>4. /\ md \in MountPoint /\ md # None
      /\ md.part = None \/ (OfHome(md) /\ md.startup = asked[md.path])
  <2>1. CASE md = NewMountPoint(x, None, FALSE, FALSE, FALSE)
    <3>1. md \in MountPoint /\ md.part = None
      BY <2>1 DEF NewMountPoint, MountPoint
    <3>. QED
      BY <3>1 DEF Setting, NoneIsApart
  <2>2. CASE md \in {cache[q][x] : q \in {q \in known : x \in Listed(q)}}
    <3>1. PICK q \in Partitions : md = cache[q][x] /\ md # None
      BY <1>1, <2>2 DEF Typed, Listed
    <3>. QED
      BY <1>1, <1>3, <3>1 DEF StartupInv, Typed, EntriesAreHome, EntriesAreAsked, OfHome
  <2>. QED
    BY <2>1, <2>2
<1>. DEFINE r == [Resting EXCEPT !.pc = "unmount", !.job = "unmount", !.md = md]
<1>5. act' = [act EXCEPT ![Udev] = r]
  OBVIOUS
<1>6. r \in Acting /\ r.pc = "unmount" /\ r.job = "unmount" /\ r.md = md /\ r.back = "idle"
  BY <1>4, RestingIsTyped DEF Acting, Places, Resting
<1>. HIDE DEF r
<1>. QED
  BY <1>1, <1>3, <1>4, <1>5, <1>6, CallKeepsInv DEF Typed

LEMMA RequestPatchKeepsInv == ASSUME Setting, StartupInv, RequestPatch(Udev) PROVE StartupInv'
<1>1. Me.pc = "idle" /\ Typed /\ UNCHANGED <<present, mounted, known, cache>>
  BY DEF RequestPatch, At, Me, hostVars, mapVars, StartupInv
<1>2. PICK x \in Paths, startup \in BOOLEAN :
          /\ rows[x] # None
          /\ rows' = [rows EXCEPT ![x].startup = startup]
          /\ asked' = [asked EXCEPT ![x] = startup]
          /\ act' = [act EXCEPT ![Udev] = [Resting EXCEPT !.job = "patch",
                        !.pc = IF known = {} THEN "refresh" ELSE "patched",
                        !.patch = NewMountPoint(x, rows[x].part, startup, FALSE, FALSE)]]
  BY DEF RequestPatch
<1>. DEFINE md == NewMountPoint(x, rows[x].part, startup, FALSE, FALSE)
            pc == IF known = {} THEN "refresh" ELSE "patched"
            r == [Resting EXCEPT !.job = "patch", !.pc = pc, !.patch = md]
<1>3. rows[x] \in RowType /\ rows[x].part = Home[x] /\ rows[x].part \in Partitions
  BY <1>1, <1>2 DEF StartupInv, Typed, RowsAreHome, RowType
<1>4. md \in MountPoint /\ md # None /\ OfHome(md) /\ md.startup = startup /\ md.path = x
  <2>1. md \in MountPoint /\ OfHome(md) /\ md.startup = startup /\ md.path = x
    BY <1>3 DEF NewMountPoint, MountPoint, OfHome
  <2>. QED
    BY <2>1 DEF Setting, NoneIsApart
<1>5. rows'[x] \in RowType /\ rows'[x].part = Home[x] /\ rows'[x].startup = startup
  BY <1>1, <1>2, <1>3 DEF Typed, RowType
<1>6. \A y \in Paths \ {x} : rows'[y] = rows[y] /\ asked'[y] = asked[y]
  BY <1>1, <1>2 DEF Typed
<1>7. rows' \in [Paths -> RowType \cup {None}] /\ asked' \in [Paths -> BOOLEAN] /\ asked'[x] = startup
  <2>1. [rows[x] EXCEPT !.startup = startup] \in RowType
    BY <1>3 DEF RowType
  <2>. QED
    BY <1>1, <1>2, <2>1 DEF Typed
<1>8. act' = [act EXCEPT ![Udev] = r]
  BY <1>2
<1>. HIDE DEF md
<1>9. r \in Acting /\ r.job = "patch" /\ r.patch = md /\ r.pc = pc
  <2>1. pc \in Places
    BY DEF Places
  <2>. HIDE DEF pc
  <2>. QED
    BY <1>4, <2>1, RestingIsTyped DEF Acting, Resting
<1>. HIDE DEF r
<1>10. act' \in [Actors -> Acting] /\ Me' = r
  BY <1>1, <1>8, <1>9, Begins
<1>11. Typed'
  BY <1>1, <1>7, <1>10 DEF Typed
<1>12. RowsAreHome' /\ MountsAreHome' /\ EntriesAreHome'
  <2>1. RowsAreHome'
    BY <1>5, <1>6, <1>7 DEF StartupInv, RowsAreHome, Setting, NoneIsApart
  <2>. QED
    BY <1>1, <2>1 DEF StartupInv, MountsAreHome, EntriesAreHome
<1>13. EntriesAreAsked'
  <2>. SUFFICES ASSUME NEW q \in Partitions, NEW y \in Paths, cache[q][y] # None
                PROVE  cache[q][y].startup = asked'[y] \/ Waits(y)'
    BY <1>1 DEF EntriesAreAsked
  <2>1. known # {}
    BY DEF StartupInv, EntriesAreHome
  <2>2. Waits(x)'
    BY <1>4, <1>9, <1>10, <2>1 DEF Waits
  <2>3. ~Waits(y)
    BY <1>1 DEF Waits
  <2>. QED
    BY <1>6, <2>2, <2>3 DEF StartupInv, EntriesAreAsked
<1>14. Patching'
  BY <1>4, <1>7, <1>9, <1>10 DEF Patching
<1>15. Holding' /\ Mounting' /\ Refreshing'
  BY <1>9, <1>10
     DEF Holding, Mounting, Refreshing, Scanned, Loaded, Seen, Swept, Told, Within, Emitting
<1>. QED
  BY <1>11, <1>12, <1>13, <1>14, <1>15 DEF StartupInv

LEMMA RefreshKeepsInv == ASSUME Setting, StartupInv, Refresh(Udev) PROVE StartupInv'
<1>. DEFINE r == [Resting EXCEPT !.pc = "refresh", !.job = "start"]
<1>1. /\ Me.pc = "idle" /\ Typed /\ act' = [act EXCEPT ![Udev] = r]
      /\ UNCHANGED <<present, mounted, rows, known, cache, asked>>
  BY DEF Refresh, At, Me, hostVars, mapVars, StartupInv
<1>2. r \in Acting /\ r.pc = "refresh" /\ r.job = "start"
  BY RestingIsTyped DEF Acting, Places, Resting
<1>. HIDE DEF r
<1>3. act' \in [Actors -> Acting] /\ Me' = r
  BY <1>1, <1>2, Begins
<1>4. MountsAreHome' /\ \A x \in Paths : ~Waits(x)
  BY <1>1 DEF StartupInv, MountsAreHome, Waits
<1>. QED
  BY <1>1, <1>2, <1>3, <1>4, OuterKeepsInv DEF Outer, Typed

-----------------------------------------------------------------------------
(* The udev loop                                                           *)

(* A handler that begins outside of events, calls and partitions.          *)
LEMMA OuterBegins ==
    ASSUME Setting, StartupInv, NEW r \in Acting, act' = [act EXCEPT ![Udev] = r],
           UNCHANGED <<present, mounted, rows, known, cache, asked>>,
           \A x \in Paths : ~Waits(x), r.pc \in Outer, r.job # "mount",
           r.job = "patch" => Me.job = "patch" /\ r.patch = Me.patch
    PROVE  StartupInv'
<1>1. act' \in [Actors -> Acting] /\ Me' = r
  BY Begins DEF StartupInv
<1>2. MountsAreHome' /\ present' \subseteq Partitions /\ mounted' \in [Paths -> Partitions \cup {None}]
  BY DEF StartupInv, MountsAreHome, Typed
<1>. QED
  BY <1>1, <1>2, OuterKeepsInv

LEMMA UdevAddDiskKeepsInv ==
    ASSUME Setting, StartupInv, NEW p \in Partitions, UdevAddDisk(p) PROVE StartupInv'
<1>. DEFINE r == [Resting EXCEPT !.pc = "refresh", !.job = "start"]
<1>1. /\ Me.pc = "idle" /\ act' = [act EXCEPT ![Udev] = r]
      /\ UNCHANGED <<present, mounted, rows, known, cache, asked>>
  BY DEF UdevAddDisk, Take, At, Me, mapVars
<1>2. r \in Acting /\ r.pc = "refresh" /\ r.job = "start"
  BY RestingIsTyped DEF Acting, Places, Resting
<1>. HIDE DEF r
<1>3. \A x \in Paths : ~Waits(x)
  BY <1>1 DEF Waits
<1>. QED
  BY <1>1, <1>2, <1>3, OuterBegins DEF Outer

LEMMA UdevRemoveDiskKeepsInv ==
    ASSUME Setting, StartupInv, NEW p \in Partitions, UdevRemoveDisk(p) PROVE StartupInv'
<1>1. /\ Me.pc = "idle" /\ Typed /\ Replace(PartsOf(DiskOf[p]), {})
      /\ UNCHANGED <<present, mounted, rows, asked, act>>
  BY DEF UdevRemoveDisk, Take, At, Me, StartupInv
<1>2. /\ known' \subseteq Partitions /\ cache' \in [Partitions -> [Paths -> MountPoint \cup {None}]]
      /\ EntriesAreHome' /\ \A q \in Partitions, y \in Paths : cache'[q][y] # None => cache'[q][y] = cache[q][y]
  BY <1>1, ReplaceHome
<1>3. Me' = Me /\ Me.job # "mount" /\ \A x \in Paths : ~Waits(x)
  BY <1>1, OnlyEventsOfMounts DEF Me, Emitting
<1>4. Typed' /\ EntriesAreAsked'
  BY <1>1, <1>2, <1>3 DEF StartupInv, Typed, EntriesAreAsked
<1>. QED
  BY <1>1, <1>2, <1>3, <1>4, OuterKeepsMap DEF Outer

LEMMA UdevAddKeepsInv ==
    ASSUME Setting, StartupInv, NEW p \in Partitions, UdevAdd(p) PROVE StartupInv'
<1>. DEFINE left == IF p \in known THEN Listed(p) ELSE {}
            r == [Resting EXCEPT !.pc = "add", !.job = "add", !.on = p, !.left = left]
<1>1. /\ Me.pc = "idle" /\ act' = [act EXCEPT ![Udev] = r]
      /\ UNCHANGED <<present, mounted, rows, known, cache, asked>>
  BY DEF UdevAdd, Take, At, Me, mapVars
<1>2. left \subseteq Paths
  BY DEF Listed
<1>. HIDE DEF left
<1>3. r \in Acting /\ r.pc = "add" /\ r.job = "add"
  BY <1>2, RestingIsTyped DEF Acting, Places, Resting
<1>. HIDE DEF r
<1>4. \A x \in Paths : ~Waits(x)
  BY <1>1 DEF Waits
<1>. QED
  BY <1>1, <1>3, <1>4, OuterBegins DEF Outer

LEMMA UdevRemoveKeepsInv ==
    ASSUME Setting, StartupInv, NEW p \in Partitions, UdevRemove(p) PROVE StartupInv'
<1>. DEFINE left == IF p \in known THEN Listed(p) ELSE {}
            pc == IF p \in known THEN "remove" ELSE "refresh"
            r == [Resting EXCEPT !.job = "remove", !.on = p, !.pc = pc, !.left = left]
<1>1. /\ Me.pc = "idle" /\ act' = [act EXCEPT ![Udev] = r]
      /\ UNCHANGED <<present, mounted, rows, known, cache, asked>>
  BY DEF UdevRemove, Take, At, Me, mapVars
<1>2. left \subseteq Paths /\ pc \in Outer /\ pc \in Places
  BY DEF Listed, Outer, Places
<1>. HIDE DEF left, pc
<1>3. r \in Acting /\ r.pc = pc /\ r.job = "remove"
  BY <1>2, RestingIsTyped DEF Acting, Resting
<1>. HIDE DEF r
<1>4. \A x \in Paths : ~Waits(x)
  BY <1>1 DEF Waits
<1>. QED
  BY <1>1, <1>2, <1>3, <1>4, OuterBegins

(* The mount points that a handler of the udev loop goes through.           *)
LEMMA RestKeepsInv ==
    ASSUME Setting, StartupInv, Me.pc \in {"add", "remove"}, NEW x, act' = [act EXCEPT ![Udev].left = @ \ {x}],
           UNCHANGED <<present, mounted, rows, known, cache, asked>>
    PROVE  StartupInv'
<1>. DEFINE r == [Me EXCEPT !.left = @ \ {x}]
<1>1. Typed /\ Me \in Acting
  BY ActTyped DEF StartupInv
<1>2. act' = [act EXCEPT ![Udev] = r]
  BY <1>1, ActTyped DEF Me
<1>3. r \in Acting /\ r.pc = Me.pc /\ r.job = Me.job /\ r.patch = Me.patch
  BY <1>1 DEF Acting
<1>. HIDE DEF r
<1>4. Me.job # "mount" /\ \A y \in Paths : ~Waits(y)
  BY OnlyEventsOfMounts DEF Emitting
<1>. QED
  BY <1>2, <1>3, <1>4, OuterBegins DEF Outer

(* What the handlers of the udev loop work on, and where they return.       *)
Loops ==
    /\ Me.job \in {"add", "remove"} => Me.on \in Partitions
    /\ Me.pc \in {"add", "remove"} => Me.job = Me.pc
    /\ Me.back = "add" => Me.job = "add"

LEMMA WorkKeepsLoops == ASSUME Setting, StartupInv, Loops, Work(Udev) PROVE Loops'
<1>1. Typed /\ act \in [Actors -> Acting] /\ Udev \in Actors /\ Me \in Acting /\ Me = act[Udev] /\ Me' = act'[Udev]
  BY ActTyped DEF StartupInv, Me
<1>. DEFINE Stays == /\ Me'.job = Me.job /\ (Me'.on = Me.on \/ Me'.on \in Partitions)
                     /\ Me'.back = Me.back \/ Me'.back # "add"
                     /\ Me'.pc \in {"add", "remove"} => Me'.pc \in {Me.job, Me.pc, Me.back}
<1>2. Stays => Loops'
  BY <1>1 DEF Loops, Acting, Backs
<1>3. Me' = Resting => Loops'
  BY DEF Loops, Resting
<1>4. CASE RefreshBegin(Udev)
  <2>1. CASE flight # None
    BY <1>1, <1>2, <1>4, <2>1, GoesOn DEF RefreshBegin, Places
  <2>2. CASE flight = None
    <3>1. act'[Udev] = [act[Udev] EXCEPT !.pc = "disk", !.hw = present, !.disks = {DiskOf[p] : p \in present}]
      BY <1>1, <1>4, <2>2 DEF RefreshBegin
    <3>. QED
      BY <1>1, <1>2, <3>1 DEF Acting
  <2>. QED
    BY <2>1, <2>2
<1>5. CASE RefreshDisk(Udev)
  <2>1. PICK disks, parts :
           act' = [act EXCEPT ![Udev].pc = "part", ![Udev].disks = disks, ![Udev].parts = parts]
    BY <1>5 DEF RefreshDisk
  <2>. QED
    BY <1>1, <1>2, <2>1 DEF Acting
<1>6. CASE RefreshEnd(Udev)
  <2>1. act'[Udev] = AfterRefresh(Me)
    BY <1>1, <1>6 DEF RefreshEnd
  <2>. QED
    BY <1>1, <1>2, <1>3, <2>1 DEF AfterRefresh, Acting
<1>7. CASE LoadRows(Udev)
  <2>1. PICK p \in Me.parts : act' = [act EXCEPT ![Udev].pc = "procfs", ![Udev].on = p, ![Udev].parts = @ \ {p}]
    BY <1>7 DEF LoadRows, Me
  <2>. QED
    BY <1>1, <1>2, <2>1 DEF Acting
<1>8. CASE NextDisk(Udev) \/ SweptAll(Udev) \/ MountPartition(Udev)
  BY <1>1, <1>2, <1>8, GoesOn DEF NextDisk, SweptAll, MountPartition, Places
<1>9. CASE ReadMounts(Udev) \/ SeenAll(Udev)
  <2>1. CASE ReadMounts(Udev)
    <3>1. PICK seen, left : act' = [act EXCEPT ![Udev].pc = "seen", ![Udev].seen = seen, ![Udev].left = left]
      BY <2>1 DEF ReadMounts
    <3>. QED
      BY <1>1, <1>2, <3>1 DEF Acting
  <2>2. CASE SeenAll(Udev)
    <3>1. PICK stale : act' = [act EXCEPT ![Udev].pc = "sweep", ![Udev].stale = stale]
      BY <2>2 DEF SeenAll
    <3>. QED
      BY <1>1, <1>2, <3>1 DEF Acting
  <2>. QED
    BY <1>9, <2>1, <2>2
<1>10. CASE SeeMount(Udev) \/ Sweep(Udev)
  <2>1. CASE SeeMount(Udev)
    <3>. DEFINE old(x) == cache[Me.on][x]
                found(x) == Me.on \in known /\ old(x) # None
                mp(x) == IF found(x) THEN [old(x) EXCEPT !.mounted = TRUE, !.fresh = TRUE]
                                     ELSE NewMountPoint(x, Me.on, FALSE, TRUE, TRUE)
                rest(x) == [act EXCEPT ![Udev].left = @ \ {x}]
                told(x) == [rest(x) EXCEPT ![Udev].pc = "event", ![Udev].md = mp(x), ![Udev].back = "seen"]
    <3>1. PICK x : act' = rest(x) \/ act' = told(x)
      BY <2>1 DEF SeeMount, Me
    <3>. HIDE DEF mp
    <3>. QED
      BY <1>1, <1>2, <3>1 DEF Acting
  <2>2. CASE Sweep(Udev)
    <3>1. PICK s, mp :
             LET rest == [act EXCEPT ![Udev].stale = @ \ {s}] IN
             act' \in {rest, [rest EXCEPT ![Udev].pc = "event", ![Udev].md = mp, ![Udev].back = "sweep"]}
      BY <2>2 DEF Sweep
    <3>. QED
      BY <1>1, <1>2, <3>1 DEF Acting
  <2>. QED
    BY <1>10, <2>1, <2>2
<1>11. ASSUME Go(Udev, Me.back) PROVE Loops'
  BY <1>1, <1>2, <1>3, <1>11, GoesBack
<1>12. CASE AlreadyMounted(Udev) \/ MountFails(Udev)
  BY <1>11, <1>12 DEF AlreadyMounted, MountFails, Me
<1>13. CASE Event(Udev)
  <2>1. CASE Go(Udev, Me.back)
    BY <1>11, <2>1
  <2>2. CASE act' = [act EXCEPT ![Udev].pc = "mount", ![Udev].auto = TRUE]
    BY <1>1, <1>2, <2>2 DEF Acting
  <2>. QED
    BY <1>1, <1>13, <2>1, <2>2 DEF Event
<1>14. CASE Mounted(Udev)
  <2>1. CASE Go(Udev, Me.back)
    BY <1>11, <2>1
  <2>2. CASE Me.md.part \in known
    <3>1. PICK md : act' = [act EXCEPT ![Udev].pc = "event", ![Udev].handled = TRUE, ![Udev].md = md]
      BY <1>1, <1>14, <2>2 DEF Mounted
    <3>. QED
      BY <1>1, <1>2, <3>1 DEF Acting
  <2>. QED
    BY <1>1, <1>14, <2>1, <2>2 DEF Mounted
<1>15. ASSUME Go(Udev, AfterUnmount(Udev)) PROVE Loops'
  <2>1. CASE Me.job = "remove"
    BY <1>1, <1>2, <1>15, <2>1, GoesOn DEF AfterUnmount, Places
  <2>2. CASE Me.job # "remove"
    BY <1>1, <1>3, <1>15, <2>2, GoesIdle DEF AfterUnmount
  <2>. QED
    BY <2>1, <2>2
<1>16. ASSUME NEW md, NEW back \in {"idle", "unmounted"}, Emit(Udev, md, back) PROVE Loops'
  BY <1>1, <1>2, <1>16 DEF Emit, Acting
<1>17. CASE UnmountFails(Udev) \/ UnmountPartition(Udev) \/ Unmounted(Udev)
  BY <1>1, <1>15, <1>16, <1>17 DEF UnmountFails, UnmountPartition, Unmounted
<1>18. CASE Patched(Udev)
  BY <1>1, <1>16, <1>18 DEF Patched
<1>. QED
  BY <1>4, <1>5, <1>6, <1>7, <1>8, <1>9, <1>10, <1>12, <1>13, <1>14, <1>17, <1>18 DEF Work

LEMMA RetryMountKeepsInv == ASSUME Setting, StartupInv, Loops, RetryMount PROVE StartupInv'
<1>1. /\ Me.pc = "add" /\ Typed /\ Me \in Acting
      /\ UNCHANGED <<present, mounted, rows, known, cache, asked>>
  BY ActTyped DEF RetryMount, At, Me, hostVars, mapVars, StartupInv
<1>2. Me.job # "mount" /\ \A x \in Paths : ~Waits(x)
  BY <1>1, OnlyEventsOfMounts DEF Emitting
<1>3. PICK x \in Me.left :
         LET p == Me.on
             mp == cache[p][x]
             rest == [act EXCEPT ![Udev].left = @ \ {x}]
         IN act' = IF mp # None /\ mp.startup /\ ~mp.mounted
                   THEN [rest EXCEPT ![Udev].pc = "mount", ![Udev].auto = FALSE,
                            ![Udev].back = "add", ![Udev].md = [mp EXCEPT !.part = p]]
                   ELSE rest
  BY DEF RetryMount, Me
<1>. DEFINE p == Me.on
            mp == cache[p][x]
            md == [mp EXCEPT !.part = p]
            tries == mp # None /\ mp.startup /\ ~mp.mounted
            r == [Me EXCEPT !.left = @ \ {x}, !.pc = "mount", !.auto = FALSE, !.back = "add", !.md = md]
<1>4. CASE ~tries
  BY <1>1, <1>3, <1>4, RestKeepsInv
<1>5. CASE tries
  <2>1. act' = [act EXCEPT ![Udev] = r]
    <3>1. act' = [[act EXCEPT ![Udev].left = @ \ {x}]
                     EXCEPT ![Udev].pc = "mount", ![Udev].auto = FALSE, ![Udev].back = "add", ![Udev].md = md]
      BY <1>3, <1>5
    <3>. HIDE DEF md
    <3>. QED
      BY <1>1, <3>1, ActTyped DEF Me
  <2>2. x \in Paths /\ p \in Partitions /\ mp # None
    BY <1>1, <1>5 DEF Loops, Acting
  <2>3. mp \in MountPoint /\ OfHome(mp) /\ mp.part = p /\ mp.startup = asked[mp.path]
    BY <1>1, <1>2, <2>2 DEF StartupInv, Typed, EntriesAreHome, EntriesAreAsked, OfHome
  <2>4. md \in MountPoint /\ OfHome(md) /\ md.startup = asked[md.path] /\ md # None
    <3>1. md = mp
      BY <2>3 DEF MountPoint
    <3>. QED
      BY <2>2, <2>3, <3>1
  <2>. HIDE DEF md
  <2>5. /\ r \in Acting /\ r.pc = "mount" /\ r.back = "add" /\ r.md = md /\ r.job = Me.job
        /\ r.patch = Me.patch
    BY <1>1, <2>4 DEF Acting, Places, Backs
  <2>. HIDE DEF r
  <2>. QED
    BY <1>1, <1>2, <2>1, <2>4, <2>5, CallKeepsInv DEF Typed
<1>. QED
  BY <1>4, <1>5

LEMMA RetriedAllKeepsInv == ASSUME Setting, StartupInv, RetriedAll PROVE StartupInv'
<1>1. /\ Me.pc = "add" /\ Typed
      /\ Go(Udev, "idle") \/ Go(Udev, "refresh")
      /\ UNCHANGED <<present, mounted, rows, known, cache, asked>>
  BY DEF RetriedAll, At, Me, hostVars, mapVars, StartupInv
<1>2. Me.job # "mount" /\ \A x \in Paths : ~Waits(x)
  BY <1>1, OnlyEventsOfMounts DEF Emitting
<1>3. /\ act' \in [Actors -> Acting] /\ Me'.pc \in Outer /\ Me'.job # "mount"
      /\ Me'.job = "patch" => Me.job = "patch" /\ Me'.patch = Me.patch
  BY <1>1, <1>2, GoesOn, GoesIdle DEF Outer, Places, Resting
<1>4. MountsAreHome'
  BY <1>1 DEF StartupInv, MountsAreHome
<1>. QED
  BY <1>1, <1>2, <1>3, <1>4, OuterKeepsInv DEF Typed

LEMMA ReleaseMountKeepsInv == ASSUME Setting, StartupInv, Loops, ReleaseMount PROVE StartupInv'
<1>1. /\ Me.pc = "remove" /\ Typed /\ Me \in Acting
      /\ UNCHANGED <<present, mounted, rows, known, cache, asked>>
  BY ActTyped DEF ReleaseMount, At, Me, hostVars, mapVars, StartupInv
<1>2. Me.job = "remove" /\ \A x \in Paths : ~Waits(x)
  BY <1>1, OnlyEventsOfMounts DEF Loops, Emitting
<1>3. PICK x \in Me.left :
         LET mp == cache[Me.on][x]
             rest == [act EXCEPT ![Udev].left = @ \ {x}]
         IN act' = IF mp # None /\ mp.mounted
                   THEN [rest EXCEPT ![Udev].pc = "unmount", ![Udev].md = mp]
                   ELSE rest
  BY DEF ReleaseMount, Me
<1>. DEFINE mp == cache[Me.on][x]
            r == [Me EXCEPT !.left = @ \ {x}, !.pc = "unmount", !.md = mp]
<1>4. CASE ~(mp # None /\ mp.mounted)
  BY <1>1, <1>3, <1>4, RestKeepsInv
<1>5. CASE mp # None /\ mp.mounted
  <2>1. act' = [act EXCEPT ![Udev] = r]
    <3>1. act' = [[act EXCEPT ![Udev].left = @ \ {x}] EXCEPT ![Udev].pc = "unmount", ![Udev].md = mp]
      BY <1>3, <1>5
    <3>. HIDE DEF mp
    <3>. QED
      BY <1>1, <3>1, ActTyped DEF Me
  <2>2. x \in Paths /\ Me.on \in Partitions /\ mp # None
    BY <1>1, <1>5 DEF Loops, Acting
  <2>3. mp \in MountPoint /\ OfHome(mp) /\ mp.startup = asked[mp.path]
    BY <1>1, <1>2, <2>2 DEF StartupInv, Typed, EntriesAreHome, EntriesAreAsked, OfHome
  <2>. HIDE DEF mp
  <2>4. r \in Acting /\ r.pc = "unmount" /\ r.md = mp /\ r.job = "remove"
    BY <1>1, <1>2, <2>3 DEF Acting, Places
  <2>. HIDE DEF r
  <2>. QED
    BY <1>1, <1>2, <2>1, <2>2, <2>3, <2>4, CallKeepsInv DEF Typed
<1>. QED
  BY <1>4, <1>5

LEMMA ReleasedAllKeepsInv == ASSUME Setting, StartupInv, ReleasedAll PROVE StartupInv'
<1>1. /\ Me.pc = "remove" /\ Typed /\ Go(Udev, "refresh") /\ Replace({Me.on}, {})
      /\ UNCHANGED <<present, mounted, rows, asked>>
  BY DEF ReleasedAll, At, Me, hostVars, StartupInv
<1>2. Me.job # "mount" /\ \A x \in Paths : ~Waits(x)
  BY <1>1, OnlyEventsOfMounts DEF Emitting
<1>3. act' \in [Actors -> Acting] /\ Me'.pc = "refresh" /\ Me'.job = Me.job /\ Me'.patch = Me.patch
  BY <1>1, GoesOn DEF Places
<1>4. /\ known' \subseteq Partitions /\ cache' \in [Partitions -> [Paths -> MountPoint \cup {None}]]
      /\ EntriesAreHome' /\ \A q \in Partitions, y \in Paths : cache'[q][y] # None => cache'[q][y] = cache[q][y]
  BY <1>1, ReplaceHome
<1>5. Typed' /\ EntriesAreAsked'
  BY <1>1, <1>2, <1>3, <1>4 DEF StartupInv, Typed, EntriesAreAsked
<1>. QED
  BY <1>1, <1>2, <1>3, <1>4, <1>5, OuterKeepsMap DEF Outer

LEMMA UdevKeepsLoops == ASSUME Setting, StartupInv, Loops, UdevStep PROVE Loops'
<1>1. Typed /\ act \in [Actors -> Acting] /\ Udev \in Actors /\ Me \in Acting /\ Me = act[Udev] /\ Me' = act'[Udev]
  BY ActTyped DEF StartupInv, Me
<1>2. CASE \E p \in Partitions : UdevAddDisk(p) \/ UdevRemoveDisk(p) \/ UdevAdd(p) \/ UdevRemove(p)
  <2>. PICK p \in Partitions : UdevAddDisk(p) \/ UdevRemoveDisk(p) \/ UdevAdd(p) \/ UdevRemove(p)
    BY <1>2
  <2>1. CASE UdevAddDisk(p)
    BY <1>1, <2>1 DEF UdevAddDisk, Loops, Resting
  <2>2. CASE UdevRemoveDisk(p)
    BY <1>1, <2>2 DEF UdevRemoveDisk, Loops
  <2>3. CASE UdevAdd(p)
    BY <1>1, <2>3 DEF UdevAdd, Loops, Resting
  <2>4. CASE UdevRemove(p)
    BY <1>1, <2>4 DEF UdevRemove, Loops, Resting
  <2>. QED
    BY <2>1, <2>2, <2>3, <2>4
<1>3. CASE RetryMount
  <2>. DEFINE md(x) == [cache[Me.on][x] EXCEPT !.part = Me.on]
              rest(x) == [act EXCEPT ![Udev].left = @ \ {x}]
  <2>1. PICK x : \/ act' = rest(x)
                 \/ act' = [rest(x) EXCEPT ![Udev].pc = "mount", ![Udev].auto = FALSE,
                               ![Udev].back = "add", ![Udev].md = md(x)]
    BY <1>3 DEF RetryMount, Me
  <2>2. Me.pc = "add"
    BY <1>3 DEF RetryMount, At, Me
  <2>. HIDE DEF md
  <2>. QED
    BY <1>1, <2>1, <2>2 DEF Loops, Acting
<1>4. CASE RetriedAll
  <2>1. CASE Go(Udev, "idle")
    BY <1>1, <2>1, GoesIdle DEF Loops, Resting
  <2>2. CASE Go(Udev, "refresh")
    BY <1>1, <2>2, GoesOn DEF Loops, Places
  <2>. QED
    BY <1>4, <2>1, <2>2 DEF RetriedAll
<1>5. CASE ReleaseMount
  <2>. DEFINE mp(x) == cache[Me.on][x]
              rest(x) == [act EXCEPT ![Udev].left = @ \ {x}]
  <2>1. PICK x : act' = rest(x) \/ act' = [rest(x) EXCEPT ![Udev].pc = "unmount", ![Udev].md = mp(x)]
    BY <1>5 DEF ReleaseMount, Me
  <2>. HIDE DEF mp
  <2>. QED
    BY <1>1, <2>1 DEF Loops, Acting
<1>6. CASE ReleasedAll
  BY <1>1, <1>6, GoesOn DEF ReleasedAll, Loops, Places
<1>. QED
  BY <1>2, <1>3, <1>4, <1>5, <1>6 DEF UdevStep

LEMMA RequestKeepsLoops == ASSUME Setting, StartupInv, Loops, Request(Udev) PROVE Loops'
<1>1. act \in [Actors -> Acting] /\ Udev \in Actors /\ Me' = act'[Udev]
  BY ActTyped DEF StartupInv, Me
<1>2. CASE RequestMount(Udev)
  <2>1. PICK md : act' = [act EXCEPT ![Udev] = [Resting EXCEPT !.pc = "mount", !.job = "mount", !.md = md]]
    BY <1>2 DEF RequestMount
  <2>. QED
    BY <1>1, <2>1 DEF Loops, Resting
<1>3. CASE RequestUnmount(Udev)
  <2>1. PICK md : act' = [act EXCEPT ![Udev] = [Resting EXCEPT !.pc = "unmount", !.job = "unmount", !.md = md]]
    BY <1>3 DEF RequestUnmount
  <2>. QED
    BY <1>1, <2>1 DEF Loops, Resting
<1>4. CASE RequestPatch(Udev)
  <2>1. PICK patch : act' = [act EXCEPT ![Udev] = [Resting EXCEPT !.job = "patch",
                                !.pc = IF known = {} THEN "refresh" ELSE "patched", !.patch = patch]]
    BY <1>4 DEF RequestPatch
  <2>. QED
    BY <1>1, <2>1 DEF Loops, Resting
<1>5. CASE Refresh(Udev)
  BY <1>1, <1>5 DEF Refresh, Loops, Resting
<1>. QED
  BY <1>2, <1>3, <1>4, <1>5 DEF Request

-----------------------------------------------------------------------------
(* The invariant                                                           *)

LEMMA StartupInit == ASSUME Setting, Init PROVE StartupInv /\ Loops
<1>. DEFINE r == [Resting EXCEPT !.pc = "refresh", !.job = "start"]
<1>1. act = [a \in Actors |-> r] /\ known = {} /\ cache = [p \in Partitions |-> NoMountPoints]
  BY DEF Init, Setting, OneActor
<1>2. r \in Acting /\ r.pc = "refresh" /\ r.job = "start" /\ r.back = "idle"
  BY RestingIsTyped DEF Acting, Places, Resting
<1>. HIDE DEF r
<1>3. act \in [Actors -> Acting] /\ Me = r
  BY <1>1, <1>2 DEF Setting, OneActor, Me
<1>4. cache \in [Partitions -> [Paths -> MountPoint \cup {None}]]
      /\ \A p \in Partitions, x \in Paths : cache[p][x] = None
  BY <1>1 DEF NoMountPoints
<1>5. asked = [x \in Paths |-> rows[x] # None /\ rows[x].startup] /\ rows \in [Paths -> RowType \cup {None}]
      /\ \A x \in Paths : rows[x] = None \/ rows[x].part = Home[x]
  BY DEF Init, RowType
<1>6. asked \in [Paths -> BOOLEAN]
  BY <1>5 DEF RowType
<1>7. present \subseteq Partitions /\ mounted \in [Paths -> Partitions \cup {None}] /\ MountsAreHome
  BY DEF Init, MountsAreHome
<1>8. Typed
  BY <1>1, <1>3, <1>4, <1>5, <1>6, <1>7 DEF Typed
<1>9. RowsAreHome
  <2>. SUFFICES ASSUME NEW x \in Paths
                PROVE  IF rows[x] = None THEN ~asked[x] ELSE rows[x].part = Home[x] /\ rows[x].startup = asked[x]
    BY DEF RowsAreHome
  <2>1. asked[x] = (rows[x] # None /\ rows[x].startup)
    BY <1>5
  <2>2. rows[x] # None => rows[x].startup \in BOOLEAN /\ rows[x].part = Home[x]
    BY <1>5 DEF RowType
  <2>. QED
    BY <2>1, <2>2
<1>10. EntriesAreHome /\ EntriesAreAsked
  BY <1>4 DEF EntriesAreHome, EntriesAreAsked
<1>11. Holding /\ Mounting /\ Patching /\ Refreshing
  BY <1>2, <1>3
     DEF Holding, Mounting, Patching, Refreshing, Scanned, Loaded, Seen, Swept, Told, Within, Emitting
<1>12. Loops
  BY <1>2, <1>3 DEF Loops
<1>. QED
  BY <1>7, <1>8, <1>9, <1>10, <1>11, <1>12 DEF StartupInv

LEMMA StartupNext == ASSUME Setting, StartupInv, Loops, [Next]_vars PROVE (StartupInv /\ Loops)'
<1>1. CASE UNCHANGED vars
  <2>1. present' \subseteq Partitions
    BY <1>1 DEF vars, hostVars, StartupInv, Typed
  <2>. QED
    BY <1>1, <2>1, HostKeepsInv DEF vars, hostVars, mapVars, Loops, Me
<1>2. CASE \E p \in Partitions : Plug(p) \/ Unplug(p)
  <2>1. present' \subseteq Partitions /\ UNCHANGED <<mounted, rows, known, cache, asked, act>>
    BY <1>2 DEF Plug, Unplug, mapVars, StartupInv, Typed
  <2>. QED
    BY <2>1, HostKeepsInv DEF Loops, Me
<1>3. CASE \E a \in Actors : Work(a) \/ Request(a)
  <2>1. Work(Udev) \/ Request(Udev)
    BY <1>3 DEF Setting, OneActor
  <2>2. CASE Work(Udev)
    BY <2>2, WorkKeepsLoops, RefreshBeginKeepsInv, RefreshDiskKeepsInv, RefreshEndKeepsInv, LoadRowsKeepsInv,
       NextDiskKeepsInv, ReadMountsKeepsInv, SeeMountKeepsInv, SeenAllKeepsInv, SweepKeepsInv,
       SweptAllKeepsInv, EventKeepsInv, MountEndsKeepInv, MountKeepsInv, MountedKeepsInv,
       UnmountFailsKeepsInv, UnmountKeepsInv, UnmountedKeepsInv, PatchedKeepsInv DEF Work
  <2>3. CASE Request(Udev)
    BY <2>3, RequestKeepsLoops, RequestMountKeepsInv, RequestUnmountKeepsInv, RequestPatchKeepsInv,
       RefreshKeepsInv DEF Request
  <2>. QED
    BY <2>1, <2>2, <2>3
<1>4. CASE UdevStep
  BY <1>4, UdevKeepsLoops, UdevAddDiskKeepsInv, UdevRemoveDiskKeepsInv, UdevAddKeepsInv, UdevRemoveKeepsInv,
     RetryMountKeepsInv, RetriedAllKeepsInv, ReleaseMountKeepsInv, ReleasedAllKeepsInv DEF UdevStep
<1>. QED
  BY <1>1, <1>2, <1>3, <1>4 DEF Next

LEMMA StartupAlways == ASSUME Setting PROVE Spec => [](StartupInv /\ Loops)
<1>1. Init => StartupInv /\ Loops
  BY StartupInit
<1>2. (StartupInv /\ Loops) /\ [Next]_vars => (StartupInv /\ Loops)'
  BY StartupNext
<1>. QED
  BY <1>1, <1>2, PTL DEF Spec

(* No refresh, event or request of one goroutine loses the automount       *)
(* setting stored last, on one disk: the row of a mount point always has   *)
(* it, and so has its entry but while the setting is on its way            *)
(* (handleMountPointEvent, handlePartitionEvent, PatchMountPointSettings). *)
THEOREM StartupStays == ASSUME Setting PROVE Spec => []StartupIsKept
<1>1. StartupInv => StartupIsKept
  BY DEF StartupInv, RowsAreHome, StartupIsKept
<1>. QED
  BY <1>1, StartupAlways, PTL

-----------------------------------------------------------------------------
(* The kernel and the map.  Nothing but the goroutine changes what is      *)
(* mounted, so that an entry stays right once it is.                       *)

Handling == {"part", "procfs", "seen", "sweep"}

Marked(p, x) == cache[p][x] # None /\ cache[p][x].mounted

(* What is marked is mounted, until the event of an unmount has been told. *)
NoGhost ==
    \A p \in Partitions, x \in Paths :
        Marked(p, x) => mounted[x] = p \/ (Within({"unmounted"}) /\ x = Me.md.path)

(* The goroutine has yet to mark x in the entry of p.                      *)
Marks(p, x) ==
    \/ Me.pc = "mounted" /\ x = Me.md.path
    \/ Within(Handling) /\ p \in Me.parts
    \/ Me.pc = "procfs" /\ p = Me.on
    \/ Within({"seen"}) /\ p = Me.on /\ x \in Me.left

NoMiss ==
    \A x \in Paths : mounted[x] \in known => Marked(mounted[x], x) \/ Marks(mounted[x], x)

MountIsOwn == Me.pc = "mounted" => mounted[Me.md.path] = Me.md.part

(* A partition that is handled, mounted or unmounted is in the map; that of *)
(* a setting need not be.                                                  *)
HeldIsKnown ==
    Me.pc \in Emitting \cup {"unmount", "unmounted"} =>
        \/ Me.md.part \in known
        \/ Me.pc = "unmount" /\ Me.md.part = None
        \/ Me.job = "patch" /\ Me.pc \in {"event", "mount"} /\ Me.back = "idle"

Unmounting ==
    /\ Within({"unmounted"}) /\ Me.pc # "mounted" => (Me.md.mounted <=> mounted[Me.md.path] # None)
    /\ Me.pc = "unmount" /\ Me.md.part = None => \A p \in Partitions : cache[p][Me.md.path] = None

(* The look at the kernel is still true when its last mount is marked.     *)
Looking ==
    Within({"seen"}) =>
        /\ Me.seen = mounted
        /\ Me.pc # "seen" => Me.pc = "event" /\ Me.md.mounted
        /\ \A x \in Me.left : mounted[x] # None
        /\ \A x \in Paths : Marked(Me.on, x) /\ x \notin Me.left => cache[Me.on][x].fresh

(* What is swept was never mounted.                                        *)
Sweeping ==
    Within({"sweep"}) => \A s \in Me.stale :
        /\ mounted[s[2].path] = None
        /\ Me.pc # "sweep" => s[2].path # Me.md.path
        /\ \A t \in Me.stale : s[2].path = t[2].path => s = t

(* The partitions that the refresh has yet to handle have no entries.      *)
Untouched ==
    Within(Handling) =>
        /\ Me.disks = {}
        /\ \A p \in Me.parts, x \in Paths : cache[p][x] = None
        /\ Me.pc # "part" => Me.on \notin Me.parts

KernelInv == NoGhost /\ NoMiss /\ MountIsOwn /\ HeldIsKnown /\ Unmounting /\ Looking /\ Sweeping /\ Untouched

-----------------------------------------------------------------------------
(* The queue *)

Queued(kind, p) == [kind |-> kind, part |-> p]

(* An event to come after the i-th that tells of p.                        *)
ToldAfter(i, p) == \E j \in DOMAIN queue : j > i /\ queue[j] = Queued("add", p)

Releasing == Me.job = "remove" /\ (Me.pc \in {"remove", "unmount"} \/ Within({"unmounted"}))

(* A refresh will find p.                                                  *)
Coming(p) ==
    \/ ToldAfter(0, p)
    \/ Me.pc = "refresh"
    \/ Me.pc = "disk" /\ Me.disks # {} /\ p \in Me.hw
    \/ Releasing
    \/ Within({"add"}) /\ Me.on = p /\ ~Me.handled

PluggedIsComing == \A p \in present \ known : Coming(p)

(* A disk that is told to be gone is told to be back.                      *)
BackIsTold ==
    \A i \in DOMAIN queue : queue[i].kind = "removeDisk" => \A p \in present : ToldAfter(i, p)

(* What a refresh does not know will be told.                              *)
HardwareIsTold ==
    Me.pc = "disk" /\ Me.disks # {} => \A p \in present \ Me.hw : ToldAfter(0, p)

OneRefresh == /\ flight # None => Me.pc = "disk" \/ Within(Handling)
              /\ Me.pc # "join"

AddIsOfDisk == Within({"add"}) /\ Me.pc # "add" => Me.md.part = Me.on

QueueInv ==
    /\ queue \in Seq([kind : {"add", "remove", "addDisk", "removeDisk"}, part : Partitions])
    /\ PluggedIsComing /\ BackIsTold /\ HardwareIsTold /\ OneRefresh /\ AddIsOfDisk

-----------------------------------------------------------------------------
(* Startup *)

(* What is still to be done about the mount at x.                          *)
Starts(x) ==
    \/ Within(Handling) /\ Home[x] \in Me.parts
    \/ Me.pc \in {"procfs", "seen"} /\ Home[x] = Me.on
    \/ Me.pc = "event" /\ Me.back = "seen" /\ Home[x] = Me.on
    \/ Within({"sweep"}) /\ \E s \in Me.stale : s[2].path = x
    \/ Me.pc = "event" /\ Me.md.path = x /\ Me.md.startup /\ ~Me.md.mounted
    \/ Me.pc = "mount" /\ Me.md.path = x /\ Me.auto
    \/ Me.job = "patch" /\ Me.pc = "patched" /\ Me.patch.path = x

StartsOrShown ==
    \A x \in Paths :
        rows[x] # None /\ rows[x].startup /\ Home[x] \in known
            => mounted[x] # None \/ x \in shown \/ Starts(x)

(* A change of settings refreshes an empty map only.                       *)
PatchIsFirst == Me.job = "patch" /\ Me.pc = "refresh" => known = {}

FreshIsSeen ==
    Within({"procfs", "seen"}) =>
        \A x \in Paths : cache[Me.on][x] # None /\ cache[Me.on][x].fresh => cache[Me.on][x].mounted

EventIsTrue == Me.pc = "event" /\ Me.md.mounted => mounted[Me.md.path] # None

StartsInv == StartsOrShown /\ PatchIsFirst /\ FreshIsSeen /\ EventIsTrue

-----------------------------------------------------------------------------
(* The fields of a record, and how a step leaves the goroutine's.           *)
Fields(r, pc, job, on, md, patch, auto, back, handled, hw, disks, parts, seen, left, stale) ==
    /\ r.pc = pc /\ r.job = job /\ r.on = on /\ r.md = md /\ r.patch = patch /\ r.auto = auto
    /\ r.back = back /\ r.handled = handled /\ r.hw = hw /\ r.disks = disks /\ r.parts = parts
    /\ r.seen = seen /\ r.left = left /\ r.stale = stale

Moves(pc) ==
    Fields(Me', pc, Me.job, Me.on, Me.md, Me.patch, Me.auto, Me.back, Me.handled, Me.hw,
           Me.disks, Me.parts, Me.seen, Me.left, Me.stale)

Tells(md, back) ==
    Fields(Me', "event", Me.job, Me.on, md, Me.patch, Me.auto, back, Me.handled, Me.hw,
           Me.disks, Me.parts, Me.seen, Me.left, Me.stale)

LEMMA Basics ==
    ASSUME Setting, StartupInv
    PROVE  /\ act \in [Actors -> Acting] /\ Udev \in Actors /\ Me \in Acting
           /\ Me = act[Udev] /\ Me' = act'[Udev]
BY ActTyped DEF StartupInv, Me

LEMMA GoMoves ==
    ASSUME Setting, StartupInv, NEW place, Go(Udev, place)
    PROVE  IF place = "idle" THEN Me' = Resting ELSE Moves(place)
<1>. USE Basics
<1>1. CASE place = "idle"
  BY <1>1 DEF Go
<1>2. CASE place # "idle"
  <2>1. Me' = [Me EXCEPT !.pc = place]
    BY <1>2 DEF Go
  <2>. QED
    BY <1>2, <2>1 DEF Moves, Fields, Acting
<1>. QED
  BY <1>1, <1>2

LEMMA EmitTells ==
    ASSUME Setting, StartupInv, NEW md, NEW back, Emit(Udev, md, back)
    PROVE  Tells(md, back)
<1>1. Me' = [Me EXCEPT !.pc = "event", !.md = md, !.back = back]
  BY Basics DEF Emit
<1>. QED
  BY <1>1, Basics DEF Tells, Fields, Acting

LEMMA RefreshBeginStep ==
    ASSUME Setting, StartupInv, RefreshBegin(Udev), flight = None
    PROVE  /\ Me.pc = "refresh" /\ UNCHANGED <<present, mounted, queue, rows, shown, known, asked>>
           /\ flight' = Udev
           /\ cache' = [p \in Partitions |-> [x \in Paths |-> AgeOf(cache[p][x])]]
           /\ Fields(Me', "disk", Me.job, Me.on, Me.md, Me.patch, Me.auto, Me.back, Me.handled,
                     present, {DiskOf[p] : p \in present}, Me.parts, Me.seen, Me.left, Me.stale)
<1>1. Me' = [Me EXCEPT !.pc = "disk", !.hw = present, !.disks = {DiskOf[p] : p \in present}]
  BY Basics DEF RefreshBegin
<1>2. Me.pc = "refresh" /\ UNCHANGED <<present, mounted, queue, rows, shown, known, asked>> /\ flight' = Udev
      /\ cache' = [p \in Partitions |-> [x \in Paths |-> AgeOf(cache[p][x])]]
  BY Basics DEF RefreshBegin, At, hostVars
<1>. QED
  BY <1>1, <1>2, Basics DEF Fields, Acting

LEMMA RefreshDiskStep ==
    ASSUME Setting, StartupInv, RefreshDisk(Udev)
    PROVE  /\ Me.pc = "disk" /\ UNCHANGED <<present, mounted, queue, rows, shown, flight, asked>>
           /\ \E d \in Me.disks :
                /\ Replace(PartsOf(d), Me.hw \cap PartsOf(d))
                /\ Fields(Me', "part", Me.job, Me.on, Me.md, Me.patch, Me.auto, Me.back, Me.handled,
                          Me.hw, Me.disks \ {d}, Me.hw \cap PartsOf(d), Me.seen, Me.left, Me.stale)
<1>1. Me.pc = "disk" /\ UNCHANGED <<present, mounted, queue, rows, shown, flight, asked>>
  BY Basics DEF RefreshDisk, At, hostVars
<1>2. PICK d \in Me.disks :
         /\ Replace(PartsOf(d), Me.hw \cap PartsOf(d))
         /\ Me' = [Me EXCEPT !.pc = "part", !.disks = @ \ {d}, !.parts = Me.hw \cap PartsOf(d)]
  BY Basics DEF RefreshDisk
<1>3. Fields(Me', "part", Me.job, Me.on, Me.md, Me.patch, Me.auto, Me.back, Me.handled,
             Me.hw, Me.disks \ {d}, Me.hw \cap PartsOf(d), Me.seen, Me.left, Me.stale)
  BY <1>2, Basics DEF Fields, Acting
<1>. QED
  BY <1>1, <1>2, <1>3

LEMMA RefreshEndStep ==
    ASSUME Setting, StartupInv, RefreshEnd(Udev)
    PROVE  /\ Me.pc = "disk" /\ Me.disks = {} /\ flight' = None
           /\ UNCHANGED <<present, mounted, queue, rows, shown, known, cache, asked>>
           /\ IF Me.job = "patch" THEN Moves("patched") ELSE Me' = Resting
<1>1. /\ Me.pc = "disk" /\ Me.disks = {} /\ flight' = None
      /\ UNCHANGED <<present, mounted, queue, rows, shown, known, cache, asked>>
      /\ Me' = AfterRefresh(Me)
  BY Basics DEF RefreshEnd, At, hostVars, mapVars
<1>. QED
  BY <1>1, Basics DEF AfterRefresh, Moves, Fields, Acting

LEMMA LoadRowsStep ==
    ASSUME Setting, StartupInv, LoadRows(Udev)
    PROVE  /\ Me.pc = "part" /\ UNCHANGED <<present, mounted, queue, rows, shown, known, flight, asked>>
           /\ \E p \in Me.parts :
                /\ cache' = [cache EXCEPT ![p] = [x \in Paths |->
                        IF p \in known /\ rows[x] # None /\ rows[x].part = p
                        THEN NewMountPoint(x, p, rows[x].startup, mounted[x] # None, FALSE)
                        ELSE @[x]]]
                /\ Fields(Me', "procfs", Me.job, p, Me.md, Me.patch, Me.auto, Me.back, Me.handled,
                          Me.hw, Me.disks, Me.parts \ {p}, Me.seen, Me.left, Me.stale)
<1>1. Me.pc = "part" /\ UNCHANGED <<present, mounted, queue, rows, shown, known, flight, asked>>
  BY Basics DEF LoadRows, At, hostVars
<1>2. PICK p \in Me.parts :
        /\ cache' = [cache EXCEPT ![p] = [x \in Paths |->
                IF p \in known /\ rows[x] # None /\ rows[x].part = p
                THEN NewMountPoint(x, p, rows[x].startup, mounted[x] # None, FALSE)
                ELSE @[x]]]
        /\ act' = [act EXCEPT ![Udev].pc = "procfs", ![Udev].on = p, ![Udev].parts = @ \ {p}]
  BY Basics DEF LoadRows
<1>3. Me' = [Me EXCEPT !.pc = "procfs", !.on = p, !.parts = @ \ {p}]
  BY <1>2, Basics
<1>4. Fields(Me', "procfs", Me.job, p, Me.md, Me.patch, Me.auto, Me.back, Me.handled,
             Me.hw, Me.disks, Me.parts \ {p}, Me.seen, Me.left, Me.stale)
  BY <1>3, Basics DEF Fields, Acting
<1>. QED
  BY <1>1, <1>2, <1>4

LEMMA NextDiskStep ==
    ASSUME Setting, StartupInv, NextDisk(Udev)
    PROVE  /\ Me.pc = "part" /\ Me.parts = {} /\ Moves("disk")
           /\ UNCHANGED <<present, mounted, queue, rows, shown, known, cache, flight, asked>>
<1>1. Moves("disk")
  BY GoMoves DEF NextDisk
<1>. QED
  BY <1>1, Basics DEF NextDisk, At, hostVars, mapVars

LEMMA ReadMountsStep ==
    ASSUME Setting, StartupInv, ReadMounts(Udev)
    PROVE  /\ Me.pc = "procfs"
           /\ UNCHANGED <<present, mounted, queue, rows, shown, known, cache, flight, asked>>
           /\ Fields(Me', "seen", Me.job, Me.on, Me.md, Me.patch, Me.auto, Me.back, Me.handled, Me.hw,
                     Me.disks, Me.parts, mounted, {x \in Paths : mounted[x] # None}, Me.stale)
<1>1. Me' = [Me EXCEPT !.pc = "seen", !.seen = mounted, !.left = {x \in Paths : mounted[x] # None}]
  BY Basics DEF ReadMounts
<1>. QED
  BY <1>1, Basics DEF ReadMounts, At, hostVars, mapVars, Fields, Acting

LEMMA LookTells ==
    ASSUME Setting, StartupInv, NEW left, NEW md,
           act' = [[act EXCEPT ![Udev].left = left]
                     EXCEPT ![Udev].pc = "event", ![Udev].md = md, ![Udev].back = "seen"]
    PROVE  Fields(Me', "event", Me.job, Me.on, md, Me.patch, Me.auto, "seen", Me.handled,
                  Me.hw, Me.disks, Me.parts, Me.seen, left, Me.stale)
<1>1. Me' = [[Me EXCEPT !.left = left] EXCEPT !.pc = "event", !.md = md, !.back = "seen"]
  BY Basics
<1>. QED
  BY <1>1, Basics DEF Fields, Acting

LEMMA SeeMountStep ==
    ASSUME Setting, StartupInv, SeeMount(Udev)
    PROVE  /\ Me.pc = "seen" /\ UNCHANGED <<present, mounted, queue, rows, shown, known, flight, asked>>
           /\ \E x \in Me.left :
                LET p == Me.on
                    old == cache[p][x]
                    found == p \in known /\ old # None
                    ours == Me.seen[x] = p
                    mp == IF found THEN [old EXCEPT !.mounted = TRUE, !.fresh = TRUE]
                                   ELSE NewMountPoint(x, p, FALSE, TRUE, TRUE)
                IN /\ IF found \/ ours THEN Put(p, mp) ELSE UNCHANGED cache
                   /\ IF p \in known /\ (IF found THEN ~old.mounted ELSE ours)
                      THEN Fields(Me', "event", Me.job, Me.on, mp, Me.patch, Me.auto, "seen", Me.handled,
                                  Me.hw, Me.disks, Me.parts, Me.seen, Me.left \ {x}, Me.stale)
                      ELSE Fields(Me', "seen", Me.job, Me.on, Me.md, Me.patch, Me.auto, Me.back,
                                  Me.handled, Me.hw, Me.disks, Me.parts, Me.seen, Me.left \ {x}, Me.stale)
<1>1. Me.pc = "seen" /\ UNCHANGED <<present, mounted, queue, rows, shown, known, flight, asked>>
  BY Basics DEF SeeMount, At, hostVars
<1>. DEFINE p == Me.on
            old(x) == cache[p][x]
            found(x) == p \in known /\ old(x) # None
            ours(x) == Me.seen[x] = p
            mp(x) == IF found(x) THEN [old(x) EXCEPT !.mounted = TRUE, !.fresh = TRUE]
                                 ELSE NewMountPoint(x, p, FALSE, TRUE, TRUE)
            emits(x) == p \in known /\ (IF found(x) THEN ~old(x).mounted ELSE ours(x))
<1>2. PICK x \in Me.left :
         /\ IF found(x) \/ ours(x) THEN Put(p, mp(x)) ELSE UNCHANGED cache
         /\ LET rest == [act EXCEPT ![Udev].left = @ \ {x}] IN
            act' = IF emits(x)
                   THEN [rest EXCEPT ![Udev].pc = "event", ![Udev].md = mp(x), ![Udev].back = "seen"]
                   ELSE rest
  BY ZenonT(60), Basics DEF SeeMount
<1>3. CASE emits(x)
  <2>1. act' = [[act EXCEPT ![Udev].left = @ \ {x}]
                   EXCEPT ![Udev].pc = "event", ![Udev].md = mp(x), ![Udev].back = "seen"]
    BY <1>2, <1>3
  <2>2. Fields(Me', "event", Me.job, Me.on, mp(x), Me.patch, Me.auto, "seen", Me.handled,
               Me.hw, Me.disks, Me.parts, Me.seen, Me.left \ {x}, Me.stale)
    <3>. HIDE DEF mp
    <3>1. act' = [[act EXCEPT ![Udev].left = Me.left \ {x}]
                     EXCEPT ![Udev].pc = "event", ![Udev].md = mp(x), ![Udev].back = "seen"]
      BY <2>1, Basics
    <3>. QED
      BY <3>1, LookTells
  <2>. QED
    BY <1>1, <1>2, <1>3, <2>2
<1>4. CASE ~emits(x)
  <2>1. act' = [act EXCEPT ![Udev].left = @ \ {x}]
    BY <1>2, <1>4
  <2>2. Fields(Me', "seen", Me.job, Me.on, Me.md, Me.patch, Me.auto, Me.back, Me.handled,
               Me.hw, Me.disks, Me.parts, Me.seen, Me.left \ {x}, Me.stale)
    BY <1>1, <2>1, Basics DEF Fields, Acting
  <2>. QED
    BY <1>1, <1>2, <1>4, <2>2
<1>. QED
  BY <1>3, <1>4

LEMMA SeenAllStep ==
    ASSUME Setting, StartupInv, SeenAll(Udev)
    PROVE  /\ Me.pc = "seen" /\ Me.left = {}
           /\ UNCHANGED <<present, mounted, queue, rows, shown, known, cache, flight, asked>>
           /\ \E stale :
                /\ stale = {s \in known \X MountPoint :
                              /\ cache[s[1]][s[2].path] = s[2]
                              /\ ~s[2].fresh /\ (s[2].mounted \/ s[2].startup)}
                /\ Fields(Me', "sweep", Me.job, Me.on, Me.md, Me.patch, Me.auto, Me.back, Me.handled,
                          Me.hw, Me.disks, Me.parts, Me.seen, Me.left, stale)
<1>. DEFINE stale == {s \in known \X MountPoint :
                        /\ cache[s[1]][s[2].path] = s[2]
                        /\ ~s[2].fresh /\ (s[2].mounted \/ s[2].startup)}
<1>1. Me' = [Me EXCEPT !.pc = "sweep", !.stale = stale]
  BY Basics DEF SeenAll
<1>2. Fields(Me', "sweep", Me.job, Me.on, Me.md, Me.patch, Me.auto, Me.back, Me.handled,
             Me.hw, Me.disks, Me.parts, Me.seen, Me.left, stale)
  <2>. HIDE DEF stale
  <2>. QED
    BY <1>1, Basics DEF Fields, Acting
<1>. QED
  BY <1>2, Basics DEF SeenAll, At, hostVars, mapVars

LEMMA SweepStep ==
    ASSUME Setting, StartupInv, Sweep(Udev)
    PROVE  /\ Me.pc = "sweep" /\ UNCHANGED <<present, mounted, queue, rows, shown, known, flight, asked>>
           /\ \E s \in Me.stale : \E mp :
                /\ mp = [s[2] EXCEPT !.mounted = FALSE, !.fresh = TRUE]
                /\ Put(Me.on, mp)
                /\ IF Me.on \in known
                   THEN Fields(Me', "event", Me.job, Me.on, mp, Me.patch, Me.auto, "sweep", Me.handled,
                               Me.hw, Me.disks, Me.parts, Me.seen, Me.left, Me.stale \ {s})
                   ELSE Fields(Me', "sweep", Me.job, Me.on, Me.md, Me.patch, Me.auto, Me.back, Me.handled,
                               Me.hw, Me.disks, Me.parts, Me.seen, Me.left, Me.stale \ {s})
<1>1. Me.pc = "sweep" /\ UNCHANGED <<present, mounted, queue, rows, shown, known, flight, asked>>
  BY Basics DEF Sweep, At, hostVars
<1>. DEFINE mp(s) == [s[2] EXCEPT !.mounted = FALSE, !.fresh = TRUE]
<1>2. PICK s \in Me.stale :
         /\ Put(Me.on, mp(s))
         /\ LET rest == [act EXCEPT ![Udev].stale = @ \ {s}] IN
            act' = IF Me.on \in known
                   THEN [rest EXCEPT ![Udev].pc = "event", ![Udev].md = mp(s), ![Udev].back = "sweep"]
                   ELSE rest
  BY Basics DEF Sweep
<1>3. CASE Me.on \in known
  <2>. HIDE DEF mp
  <2>1. Me' = [[Me EXCEPT !.stale = @ \ {s}] EXCEPT !.pc = "event", !.md = mp(s), !.back = "sweep"]
    BY <1>2, <1>3, Basics
  <2>2. Fields(Me', "event", Me.job, Me.on, mp(s), Me.patch, Me.auto, "sweep", Me.handled,
               Me.hw, Me.disks, Me.parts, Me.seen, Me.left, Me.stale \ {s})
    BY <2>1, Basics DEF Fields, Acting
  <2>. USE DEF mp
  <2>. QED
    BY <1>1, <1>2, <1>3, <2>2
<1>4. CASE Me.on \notin known
  <2>1. Me' = [Me EXCEPT !.stale = @ \ {s}]
    BY <1>2, <1>4, Basics
  <2>2. Fields(Me', "sweep", Me.job, Me.on, Me.md, Me.patch, Me.auto, Me.back, Me.handled,
               Me.hw, Me.disks, Me.parts, Me.seen, Me.left, Me.stale \ {s})
    BY <1>1, <2>1, Basics DEF Fields, Acting
  <2>. QED
    BY <1>1, <1>2, <1>4, <2>2
<1>. QED
  BY <1>3, <1>4

LEMMA SweptAllStep ==
    ASSUME Setting, StartupInv, SweptAll(Udev)
    PROVE  /\ Me.pc = "sweep" /\ Me.stale = {} /\ Moves("part")
           /\ UNCHANGED <<present, mounted, queue, rows, shown, known, cache, flight, asked>>
<1>1. Moves("part")
  BY GoMoves DEF SweptAll
<1>. QED
  BY <1>1, Basics DEF SweptAll, At, hostVars, mapVars

GoesBackTo == IF Me.back = "idle" THEN Me' = Resting ELSE Moves(Me.back)

LEMMA EventStep ==
    ASSUME Setting, StartupInv, Event(Udev)
    PROVE  /\ Me.pc = "event" /\ UNCHANGED <<present, mounted, queue, shown, known, cache, flight>>
           /\ rows' = [rows EXCEPT ![Me.md.path] = [part |-> Me.md.part, startup |-> Me.md.startup]]
           /\ IF Me.md.startup /\ ~Me.md.mounted
              THEN Fields(Me', "mount", Me.job, Me.on, Me.md, Me.patch, TRUE, Me.back, Me.handled, Me.hw,
                          Me.disks, Me.parts, Me.seen, Me.left, Me.stale)
              ELSE GoesBackTo
<1>1. /\ Me.pc = "event" /\ UNCHANGED <<present, mounted, queue, shown, known, cache, flight>>
      /\ rows' = [rows EXCEPT ![Me.md.path] = [part |-> Me.md.part, startup |-> Me.md.startup]]
  BY Basics DEF Event, At, hostVars, mapVars
<1>2. CASE Me.md.startup /\ ~Me.md.mounted
  <2>1. Me' = [Me EXCEPT !.pc = "mount", !.auto = TRUE]
    BY <1>2, Basics DEF Event
  <2>. QED
    BY <1>1, <1>2, <2>1, Basics DEF Fields, Acting
<1>3. CASE ~(Me.md.startup /\ ~Me.md.mounted)
  BY <1>1, <1>3, GoMoves, Basics DEF Event, GoesBackTo
<1>. QED
  BY <1>2, <1>3

LEMMA AlreadyMountedStep ==
    ASSUME Setting, StartupInv, AlreadyMounted(Udev)
    PROVE  /\ Me.pc = "mount" /\ mounted[Me.md.path] # None /\ GoesBackTo
           /\ UNCHANGED <<present, mounted, queue, rows, shown, known, cache, flight, asked>>
BY GoMoves, Basics DEF AlreadyMounted, At, hostVars, mapVars, GoesBackTo

LEMMA MountFailsStep ==
    ASSUME Setting, StartupInv, MountFails(Udev)
    PROVE  /\ Me.pc = "mount" /\ mounted[Me.md.path] = None /\ GoesBackTo
           /\ shown' = IF Me.auto THEN shown \cup {Me.md.path} ELSE shown
           /\ UNCHANGED <<present, mounted, queue, rows, known, cache, flight, asked>>
BY GoMoves, Basics DEF MountFails, At, hostVars, mapVars, GoesBackTo

LEMMA MountPartitionStep ==
    ASSUME Setting, StartupInv, MountPartition(Udev)
    PROVE  /\ Me.pc = "mount" /\ mounted[Me.md.path] = None /\ Moves("mounted")
           /\ Me.job = "patch" => Me.md.part \in known
           /\ mounted' = [mounted EXCEPT ![Me.md.path] = Me.md.part]
           /\ UNCHANGED <<present, queue, rows, shown, known, cache, flight, asked>>
<1>1. Moves("mounted")
  BY GoMoves DEF MountPartition
<1>. QED
  BY <1>1, Basics DEF MountPartition, At, mapVars, HasDevice

LEMMA MountedStep ==
    ASSUME Setting, StartupInv, Mounted(Udev), Me.md.part \in known
    PROVE  /\ Me.pc = "mounted" /\ UNCHANGED <<present, mounted, queue, rows, known, flight, asked>>
           /\ shown' = shown \ {Me.md.part}
           /\ \E md :
                /\ md = [Me.md EXCEPT !.mounted = TRUE] /\ Put(md.part, md)
                /\ Fields(Me', "event", Me.job, Me.on, md, Me.patch, Me.auto, Me.back, TRUE, Me.hw,
                          Me.disks, Me.parts, Me.seen, Me.left, Me.stale)
<1>0. Me.md \in MountPoint
  <2>1. Me.pc = "mounted"
    BY Basics DEF Mounted, At
  <2>. QED
    BY <2>1, Basics DEF StartupInv, Holding, Emitting, Acting
<1>. DEFINE md == [Me.md EXCEPT !.mounted = TRUE]
<1>1. md.part = Me.md.part
  BY <1>0 DEF MountPoint
<1>2. /\ Me.pc = "mounted" /\ UNCHANGED <<present, mounted, queue, rows, known, flight, asked>>
      /\ shown' = shown \ {Me.md.part} /\ Put(md.part, md)
      /\ act' = [act EXCEPT ![Udev].pc = "event", ![Udev].handled = TRUE, ![Udev].md = md]
  BY <1>1, Basics DEF Mounted, At, hostVars
<1>3. Fields(Me', "event", Me.job, Me.on, md, Me.patch, Me.auto, Me.back, TRUE, Me.hw,
             Me.disks, Me.parts, Me.seen, Me.left, Me.stale)
  <2>. HIDE DEF md
  <2>1. Me' = [Me EXCEPT !.pc = "event", !.handled = TRUE, !.md = md]
    BY <1>2, Basics
  <2>. QED
    BY <2>1, Basics DEF Fields, Acting
<1>. QED
  BY <1>2, <1>3

UnmountEnds == IF Me.job = "remove" THEN Moves("remove") ELSE Me' = Resting

LEMMA GoUnmountEnds ==
    ASSUME Setting, StartupInv, Go(Udev, AfterUnmount(Udev))
    PROVE  UnmountEnds
<1>1. CASE Me.job = "remove"
  BY <1>1, GoMoves, Basics DEF AfterUnmount, UnmountEnds
<1>2. CASE Me.job # "remove"
  BY <1>2, GoMoves, Basics DEF AfterUnmount, UnmountEnds
<1>. QED
  BY <1>1, <1>2

LEMMA UnmountFailsStep ==
    ASSUME Setting, StartupInv, UnmountFails(Udev)
    PROVE  /\ Me.pc = "unmount" /\ UnmountEnds
           /\ UNCHANGED <<present, mounted, queue, rows, shown, known, cache, flight, asked>>
BY GoUnmountEnds, Basics DEF UnmountFails, At, hostVars, mapVars

LEMMA UnmountPartitionStep ==
    ASSUME Setting, StartupInv, UnmountPartition(Udev)
    PROVE  /\ Me.pc = "unmount" /\ mounted[Me.md.path] # None
           /\ mounted' = [mounted EXCEPT ![Me.md.path] = None]
           /\ IF Me.md.part # None
              THEN \E md : md = [Me.md EXCEPT !.mounted = FALSE] /\ Tells(md, "unmounted")
              ELSE UnmountEnds
           /\ UNCHANGED <<present, queue, rows, shown, known, cache, flight, asked>>
<1>1. /\ Me.pc = "unmount" /\ mounted[Me.md.path] # None
      /\ mounted' = [mounted EXCEPT ![Me.md.path] = None]
      /\ UNCHANGED <<present, queue, rows, shown, known, cache, flight, asked>>
      /\ IF Me.md.part # None
         THEN Emit(Udev, [Me.md EXCEPT !.mounted = FALSE], "unmounted")
         ELSE Go(Udev, AfterUnmount(Udev))
  BY Basics DEF UnmountPartition, At, mapVars
<1>2. CASE Me.md.part # None
  <2>1. Tells([Me.md EXCEPT !.mounted = FALSE], "unmounted")
    BY <1>1, <1>2, EmitTells
  <2>. QED
    BY <1>1, <1>2, <2>1
<1>3. CASE Me.md.part = None
  BY <1>1, <1>3, GoUnmountEnds
<1>. QED
  BY <1>2, <1>3

LEMMA UnmountedStep ==
    ASSUME Setting, StartupInv, Unmounted(Udev)
    PROVE  /\ Me.pc = "unmounted" /\ UnmountEnds /\ Put(Me.md.part, Me.md)
           /\ UNCHANGED <<present, mounted, queue, rows, shown, known, flight, asked>>
BY GoUnmountEnds, Basics DEF Unmounted, At, hostVars

LEMMA PatchedStep ==
    ASSUME Setting, StartupInv, Patched(Udev)
    PROVE  /\ Me.pc = "patched" /\ UNCHANGED <<present, mounted, queue, rows, shown, known, flight, asked>>
           /\ \E md :
                /\ md = [Me.patch EXCEPT !.mounted = mounted[Me.patch.path] # None]
                /\ IF Me.patch.part \in known \/ {q \in known : Me.patch.path \in Listed(q)} = {}
                   THEN Put(Me.patch.part, md)
                   ELSE \E q \in {q \in known : Me.patch.path \in Listed(q)} :
                            Put(cache[q][Me.patch.path].part,
                                [cache[q][Me.patch.path] EXCEPT !.startup = md.startup])
                /\ Tells(md, "idle")
<1>. DEFINE md == [Me.patch EXCEPT !.mounted = mounted[Me.patch.path] # None]
<1>1. /\ Me.pc = "patched" /\ UNCHANGED <<present, mounted, queue, rows, shown, known, flight, asked>>
      /\ IF Me.patch.part \in known \/ {q \in known : Me.patch.path \in Listed(q)} = {}
         THEN Put(Me.patch.part, md)
         ELSE \E q \in {q \in known : Me.patch.path \in Listed(q)} :
                  Put(cache[q][Me.patch.path].part, [cache[q][Me.patch.path] EXCEPT !.startup = md.startup])
      /\ Emit(Udev, md, "idle")
  BY Basics DEF Patched, At, hostVars
<1>2. Tells(md, "idle")
  BY <1>1, EmitTells
<1>. HIDE DEF md
<1>3. md = [Me.patch EXCEPT !.mounted = mounted[Me.patch.path] # None]
  BY DEF md
<1>. QED
  BY <1>1, <1>2, <1>3

(* A request or a udev event begins.                                       *)
Begun(pc, job, on, md, patch, left) ==
    Fields(Me', pc, job, on, md, patch, FALSE, "idle", FALSE, {}, {}, {}, [x \in Paths |-> None], left, {})

LEMMA RequestMountStep ==
    ASSUME Setting, StartupInv, RequestMount(Udev)
    PROVE  /\ Me.pc = "idle"
           /\ UNCHANGED <<present, mounted, queue, rows, shown, known, cache, flight, asked>>
           /\ \E x \in Paths, startup \in BOOLEAN : \E md :
                /\ Home[x] \in known /\ md = NewMountPoint(x, Home[x], startup, FALSE, FALSE)
                /\ Begun("mount", "mount", None, md, None, {})
<1>1. /\ Me.pc = "idle"
      /\ UNCHANGED <<present, mounted, queue, rows, shown, known, cache, flight, asked>>
  BY Basics DEF RequestMount, At, hostVars, mapVars
<1>2. PICK x \in Paths, startup \in BOOLEAN :
         /\ Home[x] \in known
         /\ act' = [act EXCEPT ![Udev] = [Resting EXCEPT !.pc = "mount", !.job = "mount",
                       !.md = NewMountPoint(x, Home[x], startup, FALSE, FALSE)]]
  BY DEF RequestMount
<1>. DEFINE md == NewMountPoint(x, Home[x], startup, FALSE, FALSE)
<1>3. Begun("mount", "mount", None, md, None, {})
  <2>. HIDE DEF md
  <2>1. Me' = [Resting EXCEPT !.pc = "mount", !.job = "mount", !.md = md]
    BY <1>2, Basics DEF md
  <2>. QED
    BY <2>1 DEF Begun, Fields, Resting
<1>. QED
  BY <1>1, <1>2, <1>3

LEMMA RequestUnmountStep ==
    ASSUME Setting, StartupInv, RequestUnmount(Udev)
    PROVE  /\ Me.pc = "idle"
           /\ UNCHANGED <<present, mounted, queue, rows, shown, known, cache, flight, asked>>
           /\ \E x \in Paths : \E md :
                /\ \/ \E q \in known : x \in Listed(q) /\ md = cache[q][x]
                   \/ /\ \A q \in known : x \notin Listed(q)
                      /\ md = NewMountPoint(x, None, FALSE, FALSE, FALSE)
                /\ Begun("unmount", "unmount", None, md, None, {})
<1>1. /\ Me.pc = "idle"
      /\ UNCHANGED <<present, mounted, queue, rows, shown, known, cache, flight, asked>>
  BY Basics DEF RequestUnmount, At, hostVars, mapVars
<1>2. PICK x \in Paths :
         LET entries == {cache[q][x] : q \in {q \in known : x \in Listed(q)}} IN
         \E md \in IF entries = {} THEN {NewMountPoint(x, None, FALSE, FALSE, FALSE)} ELSE entries :
            act' = [act EXCEPT ![Udev] = [Resting EXCEPT !.pc = "unmount", !.job = "unmount", !.md = md]]
  BY DEF RequestUnmount
<1>. DEFINE entries == {cache[q][x] : q \in {q \in known : x \in Listed(q)}}
<1>3. PICK md \in IF entries = {} THEN {NewMountPoint(x, None, FALSE, FALSE, FALSE)} ELSE entries :
         act' = [act EXCEPT ![Udev] = [Resting EXCEPT !.pc = "unmount", !.job = "unmount", !.md = md]]
  BY <1>2
<1>4. \/ \E q \in known : x \in Listed(q) /\ md = cache[q][x]
      \/ (\A q \in known : x \notin Listed(q)) /\ md = NewMountPoint(x, None, FALSE, FALSE, FALSE)
  BY <1>3
<1>5. Begun("unmount", "unmount", None, md, None, {})
  <2>1. Me' = [Resting EXCEPT !.pc = "unmount", !.job = "unmount", !.md = md]
    BY <1>3, Basics
  <2>. QED
    BY <2>1 DEF Begun, Fields, Resting
<1>. QED
  BY <1>1, <1>4, <1>5

LEMMA RequestPatchStep ==
    ASSUME Setting, StartupInv, RequestPatch(Udev)
    PROVE  /\ Me.pc = "idle" /\ UNCHANGED <<present, mounted, queue, shown, known, cache, flight>>
           /\ \E x \in Paths, startup \in BOOLEAN : \E patch :
                /\ rows[x] # None /\ rows' = [rows EXCEPT ![x].startup = startup]
                /\ patch = NewMountPoint(x, rows[x].part, startup, FALSE, FALSE)
                /\ Begun(IF known = {} THEN "refresh" ELSE "patched", "patch", None, None, patch, {})
<1>1. Me.pc = "idle" /\ UNCHANGED <<present, mounted, queue, shown, known, cache, flight>>
  BY Basics DEF RequestPatch, At, hostVars, mapVars
<1>2. PICK x \in Paths, startup \in BOOLEAN :
         /\ rows[x] # None /\ rows' = [rows EXCEPT ![x].startup = startup]
         /\ act' = [act EXCEPT ![Udev] = [Resting EXCEPT !.job = "patch",
                       !.pc = IF known = {} THEN "refresh" ELSE "patched",
                       !.patch = NewMountPoint(x, rows[x].part, startup, FALSE, FALSE)]]
  BY DEF RequestPatch
<1>. DEFINE patch == NewMountPoint(x, rows[x].part, startup, FALSE, FALSE)
            pc == IF known = {} THEN "refresh" ELSE "patched"
<1>3. Begun(pc, "patch", None, None, patch, {})
  <2>. HIDE DEF patch, pc
  <2>1. Me' = [Resting EXCEPT !.job = "patch", !.pc = pc, !.patch = patch]
    BY <1>2, Basics DEF patch, pc
  <2>. QED
    BY <2>1 DEF Begun, Fields, Resting
<1>. QED
  BY <1>1, <1>2, <1>3

LEMMA RefreshStep ==
    ASSUME Setting, StartupInv, Refresh(Udev)
    PROVE  /\ Me.pc = "idle" /\ Begun("refresh", "start", None, None, None, {})
           /\ UNCHANGED <<present, mounted, queue, rows, shown, known, cache, flight, asked>>
<1>1. Me' = [Resting EXCEPT !.pc = "refresh", !.job = "start"]
  BY Basics DEF Refresh
<1>. QED
  BY <1>1, Basics DEF Refresh, At, hostVars, mapVars, Begun, Fields, Resting

(* The queue loses its first event.                                        *)
Took(kind, p) ==
    /\ Me.pc = "idle" /\ queue # <<>> /\ Head(queue) = Queued(kind, p) /\ queue' = Tail(queue)
    /\ UNCHANGED <<present, mounted, rows, shown, flight, asked>>

LEMMA TakeStep ==
    ASSUME Setting, StartupInv, NEW kind, NEW p, Take(kind, p)
    PROVE  Took(kind, p)
BY Basics DEF Take, At, Took, Queued

LEMMA UdevAddDiskStep ==
    ASSUME Setting, StartupInv, NEW p \in Partitions, UdevAddDisk(p)
    PROVE  /\ Took("addDisk", p) /\ Begun("refresh", "start", None, None, None, {})
           /\ UNCHANGED <<known, cache>>
<1>1. Me' = [Resting EXCEPT !.pc = "refresh", !.job = "start"]
  BY Basics DEF UdevAddDisk
<1>. QED
  BY <1>1, TakeStep DEF UdevAddDisk, mapVars, Begun, Fields, Resting

LEMMA UdevRemoveDiskStep ==
    ASSUME Setting, StartupInv, NEW p \in Partitions, UdevRemoveDisk(p)
    PROVE  Took("removeDisk", p) /\ Replace(PartsOf(DiskOf[p]), {}) /\ Me' = Me
BY Basics, TakeStep DEF UdevRemoveDisk

LEMMA UdevAddStep ==
    ASSUME Setting, StartupInv, NEW p \in Partitions, UdevAdd(p)
    PROVE  /\ Took("add", p) /\ \E left : Begun("add", "add", p, None, None, left)
           /\ UNCHANGED <<known, cache>>
<1>1. Took("add", p) /\ UNCHANGED <<known, cache>>
  BY TakeStep DEF UdevAdd, mapVars
<1>2. PICK left : Me' = [Resting EXCEPT !.pc = "add", !.job = "add", !.on = p, !.left = left]
  BY Basics DEF UdevAdd
<1>3. Begun("add", "add", p, None, None, left)
  BY <1>2 DEF Begun, Fields, Resting
<1>. QED
  BY <1>1, <1>3

LEMMA UdevRemoveStep ==
    ASSUME Setting, StartupInv, NEW p \in Partitions, UdevRemove(p)
    PROVE  /\ Took("remove", p) /\ UNCHANGED <<known, cache>>
           /\ \E pc \in {"remove", "refresh"} : \E left : Begun(pc, "remove", p, None, None, left)
<1>1. Took("remove", p) /\ UNCHANGED <<known, cache>>
  BY TakeStep DEF UdevRemove, mapVars
<1>. DEFINE pc == IF p \in known THEN "remove" ELSE "refresh"
            left == IF p \in known THEN Listed(p) ELSE {}
<1>2. Me' = [Resting EXCEPT !.job = "remove", !.on = p, !.pc = pc, !.left = left]
  BY Basics DEF UdevRemove
<1>. HIDE DEF left
<1>3. Begun(pc, "remove", p, None, None, left)
  BY <1>2 DEF Begun, Fields, Resting
<1>. QED
  BY <1>1, <1>3

LEMMA RetryMountStep ==
    ASSUME Setting, StartupInv, RetryMount
    PROVE  /\ Me.pc = "add"
           /\ UNCHANGED <<present, mounted, queue, rows, shown, known, cache, flight, asked>>
           /\ \E x \in Me.left : \E md :
                /\ md = [cache[Me.on][x] EXCEPT !.part = Me.on]
                /\ IF /\ cache[Me.on][x] # None /\ cache[Me.on][x].startup /\ ~cache[Me.on][x].mounted
                   THEN Fields(Me', "mount", Me.job, Me.on, md, Me.patch, FALSE, "add", Me.handled, Me.hw,
                               Me.disks, Me.parts, Me.seen, Me.left \ {x}, Me.stale)
                   ELSE Fields(Me', "add", Me.job, Me.on, Me.md, Me.patch, Me.auto, Me.back, Me.handled,
                               Me.hw, Me.disks, Me.parts, Me.seen, Me.left \ {x}, Me.stale)
<1>1. /\ Me.pc = "add"
      /\ UNCHANGED <<present, mounted, queue, rows, shown, known, cache, flight, asked>>
  BY Basics DEF RetryMount, At, hostVars, mapVars
<1>. DEFINE md(x) == [cache[Me.on][x] EXCEPT !.part = Me.on]
            tries(x) == cache[Me.on][x] # None /\ cache[Me.on][x].startup /\ ~cache[Me.on][x].mounted
<1>2. PICK x \in Me.left :
         LET rest == [act EXCEPT ![Udev].left = @ \ {x}] IN
         act' = IF tries(x) THEN [rest EXCEPT ![Udev].pc = "mount", ![Udev].auto = FALSE,
                                     ![Udev].back = "add", ![Udev].md = md(x)]
                            ELSE rest
  BY Basics DEF RetryMount
<1>3. CASE tries(x)
  <2>1. Fields(Me', "mount", Me.job, Me.on, md(x), Me.patch, FALSE, "add", Me.handled, Me.hw,
               Me.disks, Me.parts, Me.seen, Me.left \ {x}, Me.stale)
    <3>. HIDE DEF md
    <3>1. Me' = [[Me EXCEPT !.left = @ \ {x}] EXCEPT !.pc = "mount", !.auto = FALSE, !.back = "add", !.md = md(x)]
      BY <1>2, <1>3, Basics
    <3>. QED
      BY <3>1, Basics DEF Fields, Acting
  <2>. QED
    BY <1>1, <1>3, <2>1
<1>4. CASE ~tries(x)
  <2>1. Fields(Me', "add", Me.job, Me.on, Me.md, Me.patch, Me.auto, Me.back, Me.handled,
               Me.hw, Me.disks, Me.parts, Me.seen, Me.left \ {x}, Me.stale)
    <3>1. Me' = [Me EXCEPT !.left = @ \ {x}]
      BY <1>2, <1>4, Basics
    <3>. QED
      BY <1>1, <3>1, Basics DEF Fields, Acting
  <2>. QED
    BY <1>1, <1>4, <2>1
<1>. QED
  BY <1>3, <1>4

LEMMA RetriedAllStep ==
    ASSUME Setting, StartupInv, RetriedAll
    PROVE  /\ Me.pc = "add" /\ IF Me.handled THEN Me' = Resting ELSE Moves("refresh")
           /\ UNCHANGED <<present, mounted, queue, rows, shown, known, cache, flight, asked>>
<1>1. CASE Me.handled
  <2>1. Go(Udev, "idle")
    BY <1>1, Basics DEF RetriedAll
  <2>. QED
    BY <1>1, <2>1, GoMoves, Basics DEF RetriedAll, At, hostVars, mapVars
<1>2. CASE ~Me.handled
  <2>1. Go(Udev, "refresh")
    BY <1>2, Basics DEF RetriedAll
  <2>. QED
    BY <1>2, <2>1, GoMoves, Basics DEF RetriedAll, At, hostVars, mapVars
<1>. QED
  BY <1>1, <1>2

LEMMA ReleaseMountStep ==
    ASSUME Setting, StartupInv, ReleaseMount
    PROVE  /\ Me.pc = "remove"
           /\ UNCHANGED <<present, mounted, queue, rows, shown, known, cache, flight, asked>>
           /\ \E x \in Me.left :
                IF Marked(Me.on, x)
                THEN Fields(Me', "unmount", Me.job, Me.on, cache[Me.on][x], Me.patch, Me.auto, Me.back,
                            Me.handled, Me.hw, Me.disks, Me.parts, Me.seen, Me.left \ {x}, Me.stale)
                ELSE Fields(Me', "remove", Me.job, Me.on, Me.md, Me.patch, Me.auto, Me.back, Me.handled,
                            Me.hw, Me.disks, Me.parts, Me.seen, Me.left \ {x}, Me.stale)
<1>1. /\ Me.pc = "remove"
      /\ UNCHANGED <<present, mounted, queue, rows, shown, known, cache, flight, asked>>
  BY Basics DEF ReleaseMount, At, hostVars, mapVars
<1>2. PICK x \in Me.left :
         LET rest == [act EXCEPT ![Udev].left = @ \ {x}] IN
         act' = IF Marked(Me.on, x) THEN [rest EXCEPT ![Udev].pc = "unmount", ![Udev].md = cache[Me.on][x]]
                                    ELSE rest
  BY Basics DEF ReleaseMount, Marked
<1>3. CASE Marked(Me.on, x)
  <2>1. Me' = [[Me EXCEPT !.left = @ \ {x}] EXCEPT !.pc = "unmount", !.md = cache[Me.on][x]]
    BY <1>2, <1>3, Basics
  <2>2. Fields(Me', "unmount", Me.job, Me.on, cache[Me.on][x], Me.patch, Me.auto, Me.back,
               Me.handled, Me.hw, Me.disks, Me.parts, Me.seen, Me.left \ {x}, Me.stale)
    BY <2>1, Basics DEF Fields, Acting
  <2>. QED
    BY <1>1, <1>3, <2>2
<1>4. CASE ~Marked(Me.on, x)
  <2>1. Me' = [Me EXCEPT !.left = @ \ {x}]
    BY <1>2, <1>4, Basics
  <2>2. Fields(Me', "remove", Me.job, Me.on, Me.md, Me.patch, Me.auto, Me.back,
               Me.handled, Me.hw, Me.disks, Me.parts, Me.seen, Me.left \ {x}, Me.stale)
    BY <1>1, <2>1, Basics DEF Fields, Acting
  <2>. QED
    BY <1>1, <1>4, <2>2
<1>. QED
  BY <1>3, <1>4

LEMMA ReleasedAllStep ==
    ASSUME Setting, StartupInv, ReleasedAll
    PROVE  /\ Me.pc = "remove" /\ Replace({Me.on}, {}) /\ Moves("refresh")
           /\ UNCHANGED <<present, mounted, queue, rows, shown, flight, asked>>
<1>1. Moves("refresh")
  BY GoMoves DEF ReleasedAll
<1>. QED
  BY <1>1, Basics DEF ReleasedAll, At, hostVars

-----------------------------------------------------------------------------
(* The map and the kernel agree while nothing is on its way.               *)
Plain == ~Within(Handling \cup {"unmounted"}) /\ Me.pc # "mounted"

MapIsRight ==
    \A p \in Partitions, x \in Paths :
        /\ Marked(p, x) => mounted[x] = p
        /\ mounted[x] = p /\ p \in known => Marked(p, x)

LEMMA PlainIsRight ==
    ASSUME Setting, StartupInv, KernelInv, Plain
    PROVE  MapIsRight
BY DEF KernelInv, NoGhost, NoMiss, MapIsRight, Plain, Marks, Within, Handling, StartupInv, Typed

LEMMA RightIsKernel ==
    ASSUME Setting, StartupInv', MapIsRight', Plain', HeldIsKnown', Unmounting'
    PROVE  KernelInv'
<1>1. NoGhost' /\ NoMiss'
  BY DEF MapIsRight, NoGhost, NoMiss, StartupInv, Typed
<1>2. MountIsOwn' /\ Looking' /\ Sweeping' /\ Untouched'
  BY DEF Plain, MountIsOwn, Looking, Sweeping, Untouched, Within, Handling
<1>. QED
  BY <1>1, <1>2 DEF KernelInv

Calm == Outer \cup {"patched"}

LEMMA CalmIsKernel ==
    ASSUME Setting, StartupInv', MapIsRight', Me'.pc \in Calm
    PROVE  KernelInv'
<1>1. Plain' /\ HeldIsKnown' /\ Unmounting'
  BY DEF Calm, Outer, Plain, HeldIsKnown, Unmounting, Within, Handling, Emitting
<1>. QED
  BY <1>1, RightIsKernel

LEMMA CalmIsPlain == ASSUME Me.pc \in Calm \cup {"unmount"} PROVE Plain
BY DEF Calm, Outer, Plain, Within, Handling, Emitting

LEMMA SameMap ==
    ASSUME Setting, StartupInv, MapIsRight, UNCHANGED <<mounted, known, cache>>
    PROVE  MapIsRight'
BY DEF MapIsRight, Marked

LEMMA RefreshBeginKernel ==
    ASSUME Setting, StartupInv, StartupInv', KernelInv, OneRefresh, RefreshBegin(Udev)
    PROVE  KernelInv'
<1>1. Me.pc = "refresh" /\ flight = None
  BY Basics DEF RefreshBegin, At, OneRefresh, Within, Handling, Emitting
<1>2. /\ UNCHANGED <<mounted, known>> /\ Me'.pc = "disk"
      /\ cache' = [p \in Partitions |-> [x \in Paths |-> AgeOf(cache[p][x])]]
  BY <1>1, RefreshBeginStep DEF Fields
<1>3. \A p \in Partitions, x \in Paths : Marked(p, x)' <=> Marked(p, x)
  <2>. SUFFICES ASSUME NEW p \in Partitions, NEW x \in Paths PROVE Marked(p, x)' <=> Marked(p, x)
    OBVIOUS
  <2>1. cache'[p][x] = AgeOf(cache[p][x]) /\ cache[p][x] \in MountPoint \cup {None}
        /\ cache'[p][x] \in MountPoint \cup {None}
    BY <1>2 DEF StartupInv, Typed
  <2>. QED
    BY ZenonT(60), <2>1 DEF Marked, AgeOf, MountPoint, Setting, NoneIsApart
<1>4. MapIsRight
  BY <1>1, CalmIsPlain, PlainIsRight DEF Calm, Outer
<1>5. MapIsRight'
  BY <1>2, <1>3, <1>4 DEF MapIsRight
<1>. QED
  BY <1>2, <1>5, CalmIsKernel DEF Calm, Outer

(* On one disk a refresh replaces the whole map.                           *)
LEMMA RefreshDiskReplaces ==
    ASSUME Setting, StartupInv, RefreshDisk(Udev)
    PROVE  /\ Me.pc = "disk" /\ UNCHANGED <<present, mounted, queue, rows, shown, flight, asked>>
           /\ known' = Me.hw /\ \A p \in Partitions, x \in Paths : cache'[p][x] = None
           /\ Me.disks # {}
           /\ Fields(Me', "part", Me.job, Me.on, Me.md, Me.patch, Me.auto, Me.back, Me.handled,
                     Me.hw, {}, Me.hw, Me.seen, Me.left, Me.stale)
<1>1. PICK d \in Me.disks :
         /\ Replace(PartsOf(d), Me.hw \cap PartsOf(d))
         /\ Fields(Me', "part", Me.job, Me.on, Me.md, Me.patch, Me.auto, Me.back, Me.handled,
                   Me.hw, Me.disks \ {d}, Me.hw \cap PartsOf(d), Me.seen, Me.left, Me.stale)
  BY RefreshDiskStep
<1>2. Me.disks \subseteq Disks /\ Me.hw \subseteq Partitions
  BY Basics DEF Acting
<1>3. PartsOf(d) = Partitions /\ Me.disks \ {d} = {}
  BY <1>2, VolumesAssumption DEF PartsOf, Setting, OneDisk
<1>4. Me.hw \cap PartsOf(d) = Me.hw /\ known \subseteq Partitions
  BY <1>2, <1>3 DEF StartupInv, Typed
<1>5. known' = Me.hw /\ \A p \in Partitions, x \in Paths : cache'[p][x] = None
  BY <1>1, <1>3, <1>4 DEF Replace, NoMountPoints
<1>. QED
  BY <1>1, <1>3, <1>4, <1>5, RefreshDiskStep

LEMMA RefreshDiskKernel ==
    ASSUME Setting, StartupInv, StartupInv', KernelInv, RefreshDisk(Udev)
    PROVE  KernelInv'
<1>1. /\ known' = Me.hw /\ \A p \in Partitions, x \in Paths : cache'[p][x] = None
      /\ Me'.pc = "part" /\ Me'.disks = {} /\ Me'.parts = Me.hw /\ known' \subseteq Partitions
  BY RefreshDiskReplaces DEF Fields, StartupInv, Typed
<1>2. NoGhost' /\ NoMiss' /\ Untouched'
  BY <1>1 DEF NoGhost, NoMiss, Untouched, Marked, Marks, Within, Handling
<1>3. MountIsOwn' /\ HeldIsKnown' /\ Unmounting' /\ Looking' /\ Sweeping'
  BY <1>1 DEF MountIsOwn, HeldIsKnown, Unmounting, Looking, Sweeping, Within, Emitting
<1>. QED
  BY <1>2, <1>3 DEF KernelInv

LEMMA RefreshEndKernel ==
    ASSUME Setting, StartupInv, StartupInv', KernelInv, RefreshEnd(Udev)
    PROVE  KernelInv'
<1>1. Me.pc = "disk" /\ UNCHANGED <<mounted, known, cache>> /\ Me'.pc \in {"patched", "idle"}
  BY RefreshEndStep DEF Moves, Fields, Resting
<1>2. MapIsRight
  BY <1>1, CalmIsPlain, PlainIsRight DEF Calm, Outer
<1>. QED
  BY <1>1, <1>2, SameMap, CalmIsKernel DEF Calm, Outer

LEMMA LoadRowsKernel ==
    ASSUME Setting, StartupInv, StartupInv', KernelInv, LoadRows(Udev)
    PROVE  KernelInv'
<1>1. Me.pc = "part" /\ UNCHANGED <<mounted, known, rows>> /\ Me \in Acting /\ Within(Handling)
  BY LoadRowsStep, Basics DEF Within, Handling
<1>2. PICK p \in Me.parts :
        /\ cache' = [cache EXCEPT ![p] = [x \in Paths |->
                IF p \in known /\ rows[x] # None /\ rows[x].part = p
                THEN NewMountPoint(x, p, rows[x].startup, mounted[x] # None, FALSE)
                ELSE @[x]]]
        /\ Me'.pc = "procfs" /\ Me'.on = p /\ Me'.parts = Me.parts \ {p} /\ Me'.disks = Me.disks
  BY LoadRowsStep DEF Fields
<1>3. p \in Partitions /\ Me.parts \subseteq Partitions /\ Me.disks = {}
      /\ \A q \in Me.parts, x \in Paths : cache[q][x] = None
  BY <1>1, <1>2 DEF Acting, KernelInv, Untouched
<1>4. \A q \in Partitions \ {p}, x \in Paths : cache'[q][x] = cache[q][x]
  BY <1>2, <1>3 DEF StartupInv, Typed
<1>5. \A x \in Paths : Marked(p, x)' => mounted[x] = p
  <2>. SUFFICES ASSUME NEW x \in Paths, Marked(p, x)' PROVE mounted[x] = p
    OBVIOUS
  <2>1. cache'[p][x] = IF p \in known /\ rows[x] # None /\ rows[x].part = p
                       THEN NewMountPoint(x, p, rows[x].startup, mounted[x] # None, FALSE)
                       ELSE None
    BY <1>2, <1>3 DEF StartupInv, Typed
  <2>2. cache'[p][x] # None /\ cache'[p][x].mounted
    BY DEF Marked
  <2>3. rows[x] # None /\ rows[x].part = p
    BY <2>1, <2>2
  <2>4. mounted[x] # None
    <3>. DEFINE isMounted == mounted[x] # None
    <3>1. NewMountPoint(x, p, rows[x].startup, isMounted, FALSE).mounted = isMounted
      BY DEF NewMountPoint
    <3>. QED
      BY <2>1, <2>2, <2>3, <3>1
  <2>. QED
    BY <2>3, <2>4 DEF StartupInv, RowsAreHome, MountsAreHome
<1>6. NoGhost'
  BY <1>1, <1>4, <1>5 DEF KernelInv, NoGhost, Marked, Within, Emitting
<1>7. NoMiss'
  <2>. SUFFICES ASSUME NEW x \in Paths, mounted[x] \in known PROVE Marked(mounted[x], x)' \/ Marks(mounted[x], x)'
    BY <1>1 DEF NoMiss
  <2>1. CASE mounted[x] = p
    BY <1>1, <1>2, <2>1 DEF Marks
  <2>2. CASE mounted[x] # p
    <3>1. Marked(mounted[x], x) \/ mounted[x] \in Me.parts
      BY <1>1 DEF KernelInv, NoMiss, Marks, Within, Emitting
    <3>2. mounted[x] \in Partitions \ {p}
      BY <2>2 DEF StartupInv, Typed
    <3>3. CASE mounted[x] \in Me.parts
      BY <1>1, <1>2, <3>2, <3>3 DEF Marks, Within, Handling
    <3>. QED
      BY <1>1, <1>4, <3>1, <3>2, <3>3 DEF Marked
  <2>. QED
    BY <2>1, <2>2
<1>8. Untouched'
  BY <1>2, <1>3, <1>4 DEF Untouched
<1>9. MountIsOwn' /\ HeldIsKnown' /\ Unmounting' /\ Looking' /\ Sweeping'
  BY <1>2 DEF MountIsOwn, HeldIsKnown, Unmounting, Looking, Sweeping, Within, Emitting
<1>. QED
  BY <1>6, <1>7, <1>8, <1>9 DEF KernelInv

LEMMA NextDiskKernel ==
    ASSUME Setting, StartupInv, StartupInv', KernelInv, NextDisk(Udev)
    PROVE  KernelInv'
<1>1. Me.pc = "part" /\ Me.parts = {} /\ UNCHANGED <<mounted, known, cache>> /\ Me'.pc = "disk"
  BY NextDiskStep DEF Moves, Fields
<1>2. MapIsRight
  BY <1>1 DEF KernelInv, NoGhost, NoMiss, MapIsRight, Marks, Within, Emitting
<1>. QED
  BY <1>1, <1>2, SameMap, CalmIsKernel DEF Calm, Outer

LEMMA ReadMountsKernel ==
    ASSUME Setting, StartupInv, StartupInv', KernelInv, ReadMounts(Udev)
    PROVE  KernelInv'
<1>1. /\ Me.pc = "procfs" /\ UNCHANGED <<mounted, known, cache>> /\ Me'.pc = "seen"
      /\ Me'.on = Me.on /\ Me'.parts = Me.parts /\ Me'.disks = Me.disks
      /\ Me'.seen = mounted /\ Me'.left = {x \in Paths : mounted[x] # None}
  BY ReadMountsStep DEF Fields
<1>2. Within(Handling) /\ Me.on \in Partitions
  BY <1>1 DEF Within, Handling, StartupInv, Refreshing, Loaded
<1>3. NoGhost'
  BY <1>1 DEF KernelInv, NoGhost, Marked, Within, Emitting
<1>4. NoMiss'
  <2>. SUFFICES ASSUME NEW x \in Paths, mounted[x] \in known PROVE Marked(mounted[x], x)' \/ Marks(mounted[x], x)'
    BY <1>1 DEF NoMiss
  <2>1. Marked(mounted[x], x) \/ mounted[x] \in Me.parts \/ mounted[x] = Me.on
    BY <1>1 DEF KernelInv, NoMiss, Marks, Within, Emitting
  <2>2. mounted[x] # None
    BY DEF StartupInv, Typed, Setting, NoneIsApart
  <2>. QED
    BY <1>1, <2>1, <2>2 DEF Marked, Marks, Within, Handling
<1>5. Looking'
  <2>1. \A x \in Paths : Marked(Me.on, x) => mounted[x] # None
    BY <1>1, <1>2 DEF KernelInv, NoGhost, Within, Emitting, Setting, NoneIsApart
  <2>. QED
    BY <1>1, <2>1 DEF Looking, Marked
<1>6. Untouched'
  BY <1>1, <1>2 DEF KernelInv, Untouched
<1>7. MountIsOwn' /\ HeldIsKnown' /\ Unmounting' /\ Sweeping'
  BY <1>1 DEF MountIsOwn, HeldIsKnown, Unmounting, Sweeping, Within, Emitting
<1>. QED
  BY <1>3, <1>4, <1>5, <1>6, <1>7 DEF KernelInv

LEMMA SeeMountKernel ==
    ASSUME Setting, StartupInv, StartupInv', KernelInv, SeeMount(Udev)
    PROVE  KernelInv'
<1>0. PICK p : p = Me.on
  OBVIOUS
<1>. DEFINE old(x) == cache[p][x]
            found(x) == p \in known /\ old(x) # None
            ours(x) == Me.seen[x] = p
            mp(x) == IF found(x) THEN [old(x) EXCEPT !.mounted = TRUE, !.fresh = TRUE]
                                 ELSE NewMountPoint(x, p, FALSE, TRUE, TRUE)
            emits(x) == p \in known /\ (IF found(x) THEN ~old(x).mounted ELSE ours(x))
<1>1. Me.pc = "seen" /\ UNCHANGED <<mounted, known>> /\ Me \in Acting /\ Within({"seen"}) /\ Within(Handling)
  BY SeeMountStep, Basics DEF Within, Handling
<1>2. PICK x \in Me.left :
         /\ IF found(x) \/ ours(x) THEN Put(p, mp(x)) ELSE UNCHANGED cache
         /\ IF emits(x)
            THEN Fields(Me', "event", Me.job, Me.on, mp(x), Me.patch, Me.auto, "seen", Me.handled,
                        Me.hw, Me.disks, Me.parts, Me.seen, Me.left \ {x}, Me.stale)
            ELSE Fields(Me', "seen", Me.job, Me.on, Me.md, Me.patch, Me.auto, Me.back,
                        Me.handled, Me.hw, Me.disks, Me.parts, Me.seen, Me.left \ {x}, Me.stale)
  BY <1>0, SeeMountStep
<1>3. x \in Paths /\ p \in Partitions /\ p \notin Me.parts /\ Me.seen = mounted /\ mounted[x] # None
  <2>1. x \in Paths /\ p \in Partitions
    BY <1>0, <1>1, <1>2 DEF Acting, StartupInv, Refreshing, Loaded, Within
  <2>. QED
    BY <1>0, <1>1, <2>1 DEF KernelInv, Looking, Untouched
<1>4. found(x) => old(x) \in MountPoint /\ old(x).path = x /\ old(x).part = p /\ p = Home[x]
  BY <1>3 DEF StartupInv, Typed, EntriesAreHome
<1>5. found(x) => mounted[x] = p
  BY <1>3, <1>4 DEF StartupInv, MountsAreHome
<1>6. mp(x).path = x /\ mp(x).part = p /\ mp(x).mounted /\ mp(x).fresh /\ mp(x) # None
  <2>1. mp(x).path = x /\ mp(x).part = p /\ mp(x).mounted /\ mp(x).fresh
    BY <1>4 DEF NewMountPoint, MountPoint
  <2>2. mp(x) \in MountPoint
    BY <1>3, <1>4 DEF NewMountPoint, MountPoint
  <2>. QED
    BY <2>1, <2>2 DEF Setting, NoneIsApart
<1>7. /\ \A q \in Partitions, y \in Paths : q # p \/ y # x => cache'[q][y] = cache[q][y]
      /\ cache'[p][x] = IF p \in known /\ mounted[x] = p THEN mp(x) ELSE cache[p][x]
  <2>. HIDE DEF mp
  <2>1. cache' = IF p \in known /\ mounted[x] = p THEN [cache EXCEPT ![p][x] = mp(x)] ELSE cache
    BY <1>2, <1>3, <1>5, <1>6 DEF Put
  <2>. QED
    BY <1>3, <2>1 DEF StartupInv, Typed
<1>8. /\ Me'.on = p /\ Me'.parts = Me.parts /\ Me'.disks = Me.disks /\ Me'.seen = mounted
      /\ Me'.left = Me.left \ {x}
      /\ \/ Me'.pc = "event" /\ Me'.back = "seen" /\ Me'.md = mp(x) /\ p \in known
         \/ Me'.pc = "seen"
  BY <1>0, <1>2, <1>3 DEF Fields
<1>. HIDE DEF mp
<1>9. p \in known /\ mounted[x] = p => Marked(p, x)'
  BY <1>6, <1>7 DEF Marked
<1>10. \A q \in Partitions, y \in Paths :
          Marked(q, y)' <=> Marked(q, y) \/ (q = p /\ y = x /\ p \in known /\ mounted[x] = p)
  <2>. SUFFICES ASSUME NEW q \in Partitions, NEW y \in Paths
                PROVE  Marked(q, y)' <=> Marked(q, y) \/ (q = p /\ y = x /\ p \in known /\ mounted[x] = p)
    OBVIOUS
  <2>1. CASE q = p /\ y = x /\ p \in known /\ mounted[x] = p
    BY <1>9, <2>1
  <2>2. CASE ~(q = p /\ y = x /\ p \in known /\ mounted[x] = p)
    <3>1. cache'[q][y] = cache[q][y]
      BY <1>7, <2>2
    <3>. QED
      BY <2>2, <3>1 DEF Marked
  <2>. QED
    BY <2>1, <2>2
<1>11. NoGhost'
  BY <1>1, <1>10 DEF KernelInv, NoGhost, Within, Emitting
<1>12. NoMiss'
  <2>. SUFFICES ASSUME NEW y \in Paths, mounted[y] \in known PROVE Marked(mounted[y], y)' \/ Marks(mounted[y], y)'
    BY <1>1 DEF NoMiss
  <2>1. mounted[y] \in Partitions
    BY DEF StartupInv, Typed
  <2>2. Marked(mounted[y], y) \/ mounted[y] \in Me.parts \/ (mounted[y] = p /\ y \in Me.left)
    BY <1>0, <1>1 DEF KernelInv, NoMiss, Marks, Within, Emitting
  <2>3. Within(Handling)' /\ Within({"seen"})'
    BY <1>8 DEF Within, Handling, Emitting
  <2>. QED
    BY <1>1, <1>8, <1>10, <2>1, <2>2, <2>3 DEF Marks
<1>13. HeldIsKnown'
  BY <1>1, <1>6, <1>8 DEF HeldIsKnown, Emitting
<1>14. Looking'
  <2>1. \A y \in Paths : Marked(p, y)' /\ y \notin Me'.left => cache'[p][y].fresh
    <3>. SUFFICES ASSUME NEW y \in Paths, Marked(p, y)', y \notin Me'.left PROVE cache'[p][y].fresh
      OBVIOUS
    <3>1. CASE y = x
      <4>1. Marked(p, x) => mounted[x] = p /\ p \in known
        <5>1. Marked(p, x) => mounted[x] = p
          BY <1>1, <1>3 DEF KernelInv, NoGhost, Within, Emitting
        <5>2. Marked(p, x) => p \in known
          BY <1>3 DEF Marked, StartupInv, EntriesAreHome
        <5>. QED
          BY <5>1, <5>2
      <4>2. mounted[x] = p /\ p \in known
        BY <1>3, <1>10, <3>1, <4>1
      <4>. QED
        BY <1>6, <1>7, <3>1, <4>2
    <3>2. CASE y # x
      <4>1. Marked(p, y) /\ y \notin Me.left
        BY <1>3, <1>8, <1>10, <3>2
      <4>. QED
        BY <1>0, <1>1, <1>3, <1>7, <3>2, <4>1 DEF KernelInv, Looking
    <3>. QED
      BY <3>1, <3>2
  <2>2. \A y \in Me.left : mounted[y] # None
    BY <1>1 DEF KernelInv, Looking
  <2>. QED
    BY <1>1, <1>6, <1>8, <2>1, <2>2 DEF Looking
<1>15. Untouched'
  <2>1. Me.disks = {} /\ (\A q \in Me.parts, y \in Paths : cache[q][y] = None) /\ Me.parts \subseteq Partitions
    BY <1>1 DEF KernelInv, Untouched, Acting
  <2>. QED
    BY <1>3, <1>7, <1>8, <2>1 DEF Untouched
<1>16. MountIsOwn' /\ Unmounting' /\ Sweeping'
  BY <1>8 DEF MountIsOwn, Unmounting, Sweeping, Within, Emitting
<1>. QED
  BY <1>11, <1>12, <1>13, <1>14, <1>15, <1>16 DEF KernelInv

LEMMA SeenAllKernel ==
    ASSUME Setting, StartupInv, StartupInv', KernelInv, SeenAll(Udev)
    PROVE  KernelInv'
<1>. DEFINE stale == {s \in known \X MountPoint :
                        /\ cache[s[1]][s[2].path] = s[2]
                        /\ ~s[2].fresh /\ (s[2].mounted \/ s[2].startup)}
<1>1. /\ Me.pc = "seen" /\ Me.left = {} /\ UNCHANGED <<mounted, known, cache>> /\ Me'.pc = "sweep"
      /\ Me'.on = Me.on /\ Me'.parts = Me.parts /\ Me'.disks = Me.disks /\ Me'.stale = stale
  BY SeenAllStep DEF Fields
<1>2. Within(Handling) /\ Within({"seen", "sweep"}) /\ Within({"seen"}) /\ Me.on \in Partitions
  BY <1>1 DEF Within, Handling, StartupInv, Refreshing, Loaded
<1>3. NoGhost'
  BY <1>1 DEF KernelInv, NoGhost, Marked, Within, Emitting
<1>4. \A x \in Paths : mounted[x] \in known => Marked(mounted[x], x) \/ mounted[x] \in Me.parts
  BY <1>1 DEF KernelInv, NoMiss, Marks, Within, Emitting
<1>5. NoMiss'
  BY <1>1, <1>4 DEF NoMiss, Marks, Marked, Within, Handling
<1>6. Sweeping'
  <2>1. \A s \in stale : s[1] = Me.on /\ s[2].path \in Paths /\ mounted[s[2].path] = None
                         /\ s[2] = cache[Me.on][s[2].path]
    <3>. SUFFICES ASSUME NEW s \in stale
                  PROVE  s[1] = Me.on /\ s[2].path \in Paths /\ mounted[s[2].path] = None
                         /\ s[2] = cache[Me.on][s[2].path]
      OBVIOUS
    <3>1. /\ s[1] \in known /\ s[1] \in Partitions /\ s[2] \in MountPoint /\ s[2] # None /\ s[2].path \in Paths
          /\ cache[s[1]][s[2].path] = s[2] /\ ~s[2].fresh /\ ~Settled(s[2])
      BY DEF StartupInv, Typed, MountPoint, Setting, NoneIsApart, Settled
    <3>2. s[1] = Me.on
      BY <1>1, <3>1 DEF StartupInv, Refreshing, Scanned, Within
    <3>3. ~Marked(Me.on, s[2].path)
      BY <1>1, <1>2, <3>1, <3>2 DEF KernelInv, Looking
    <3>4. Me.on \notin Me.parts /\ Me.on = Home[s[2].path]
      BY <1>1, <1>2, <3>1, <3>2 DEF KernelInv, Untouched, StartupInv, EntriesAreHome
    <3>5. mounted[s[2].path] # Home[s[2].path]
      BY <1>4, <3>1, <3>2, <3>3, <3>4
    <3>. QED
      BY <3>1, <3>2, <3>5 DEF StartupInv, MountsAreHome
  <2>2. \A s, t \in stale : s[2].path = t[2].path => s = t
    BY <2>1
  <2>. HIDE DEF stale
  <2>. QED
    BY <1>1, <2>1, <2>2 DEF Sweeping
<1>7. Untouched'
  BY <1>1, <1>2 DEF KernelInv, Untouched
<1>8. MountIsOwn' /\ HeldIsKnown' /\ Unmounting' /\ Looking'
  BY <1>1 DEF MountIsOwn, HeldIsKnown, Unmounting, Looking, Within, Emitting
<1>. QED
  BY <1>3, <1>5, <1>6, <1>7, <1>8 DEF KernelInv

LEMMA SweepKernel ==
    ASSUME Setting, StartupInv, StartupInv', KernelInv, Sweep(Udev)
    PROVE  KernelInv'
<1>1. Me.pc = "sweep" /\ UNCHANGED <<mounted, known>> /\ Me \in Acting /\ Within({"sweep"}) /\ Within(Handling)
  BY SweepStep, Basics DEF Within, Handling
<1>2. PICK s, mp :
         /\ s \in Me.stale
         /\ mp = [s[2] EXCEPT !.mounted = FALSE, !.fresh = TRUE]
         /\ Put(Me.on, mp)
         /\ IF Me.on \in known
            THEN Fields(Me', "event", Me.job, Me.on, mp, Me.patch, Me.auto, "sweep", Me.handled,
                        Me.hw, Me.disks, Me.parts, Me.seen, Me.left, Me.stale \ {s})
            ELSE Fields(Me', "sweep", Me.job, Me.on, Me.md, Me.patch, Me.auto, Me.back, Me.handled,
                        Me.hw, Me.disks, Me.parts, Me.seen, Me.left, Me.stale \ {s})
  BY SweepStep
<1>3. s[2] \in MountPoint /\ Me.on \in Partitions /\ OfHome(s[2]) /\ s[2].part = Me.on
  BY <1>1, <1>2 DEF Acting, StartupInv, Refreshing, Swept
<1>4. mp.path = s[2].path /\ mp.path \in Paths /\ mp.part = Me.on /\ ~mp.mounted
  BY <1>2, <1>3 DEF MountPoint
<1>5. /\ \A q \in Partitions, y \in Paths : q # Me.on \/ y # mp.path => cache'[q][y] = cache[q][y]
      /\ cache'[Me.on][mp.path] = mp \/ cache'[Me.on][mp.path] = cache[Me.on][mp.path]
  BY <1>2, <1>3, <1>4 DEF Put, StartupInv, Typed
<1>6. mounted[mp.path] = None /\ \A t \in Me.stale : mounted[t[2].path] = None /\ (s[2].path = t[2].path => s = t)
  BY <1>1, <1>2, <1>4 DEF KernelInv, Sweeping
<1>7. /\ Me'.on = Me.on /\ Me'.parts = Me.parts /\ Me'.disks = Me.disks /\ Me'.stale = Me.stale \ {s}
      /\ \/ Me'.pc = "event" /\ Me'.back = "sweep" /\ Me'.md = mp /\ Me.on \in known
         \/ Me'.pc = "sweep"
  BY <1>2 DEF Fields
<1>8. \A q \in Partitions, y \in Paths : Marked(q, y)' => Marked(q, y)
  BY <1>4, <1>5 DEF Marked
<1>9. NoGhost'
  BY <1>1, <1>8 DEF KernelInv, NoGhost, Within, Emitting
<1>10. NoMiss'
  <2>. SUFFICES ASSUME NEW y \in Paths, mounted[y] \in known PROVE Marked(mounted[y], y)' \/ Marks(mounted[y], y)'
    BY <1>1 DEF NoMiss
  <2>1. mounted[y] \in Partitions /\ y # mp.path
    BY <1>6 DEF StartupInv, Typed, Setting, NoneIsApart
  <2>2. Marked(mounted[y], y) \/ mounted[y] \in Me.parts
    BY <1>1 DEF KernelInv, NoMiss, Marks, Within, Emitting
  <2>3. Within(Handling)'
    BY <1>7 DEF Within, Handling, Emitting
  <2>4. Marked(mounted[y], y) => Marked(mounted[y], y)'
    BY <1>1, <1>5, <2>1 DEF Marked
  <2>. QED
    BY <1>1, <1>7, <2>2, <2>3, <2>4 DEF Marks
<1>11. Sweeping'
  <2>1. \A t, u \in Me.stale : t[2].path = u[2].path => t = u
    BY <1>1 DEF KernelInv, Sweeping
  <2>. QED
    BY <1>1, <1>4, <1>6, <1>7, <2>1 DEF Sweeping
<1>12. Untouched'
  <2>1. /\ Me.disks = {} /\ \A q \in Me.parts, y \in Paths : cache[q][y] = None
        /\ Me.parts \subseteq Partitions /\ Me.on \notin Me.parts
    BY <1>1 DEF KernelInv, Untouched, Acting
  <2>. QED
    BY <1>5, <1>7, <2>1 DEF Untouched
<1>13. HeldIsKnown'
  BY <1>1, <1>4, <1>7 DEF HeldIsKnown, Emitting
<1>14. MountIsOwn' /\ Unmounting' /\ Looking'
  BY <1>7 DEF MountIsOwn, Unmounting, Looking, Within, Emitting
<1>. QED
  BY <1>9, <1>10, <1>11, <1>12, <1>13, <1>14 DEF KernelInv

LEMMA SweptAllKernel ==
    ASSUME Setting, StartupInv, StartupInv', KernelInv, SweptAll(Udev)
    PROVE  KernelInv'
<1>1. /\ Me.pc = "sweep" /\ UNCHANGED <<mounted, known, cache>> /\ Me'.pc = "part"
      /\ Me'.on = Me.on /\ Me'.parts = Me.parts /\ Me'.disks = Me.disks
  BY SweptAllStep DEF Moves, Fields
<1>2. NoGhost' /\ NoMiss'
  BY <1>1 DEF KernelInv, NoGhost, NoMiss, Marks, Marked, Within, Handling, Emitting
<1>3. Untouched'
  BY <1>1 DEF KernelInv, Untouched, Within, Handling
<1>4. MountIsOwn' /\ HeldIsKnown' /\ Unmounting' /\ Looking' /\ Sweeping'
  BY <1>1 DEF MountIsOwn, HeldIsKnown, Unmounting, Looking, Sweeping, Within, Emitting
<1>. QED
  BY <1>2, <1>3, <1>4 DEF KernelInv

(* An event or a mount is over.                                            *)
LEMMA ReturnKernel ==
    ASSUME Setting, StartupInv, StartupInv', KernelInv, UNCHANGED <<mounted, known, cache>>,
           Me.pc \in {"event", "mount"}, GoesBackTo
    PROVE  KernelInv'
<1>1. CASE Me.back = "idle"
  <2>1. Plain /\ Me'.pc = "idle"
    BY <1>1 DEF GoesBackTo, Resting, Plain, Within, Handling, Emitting
  <2>. QED
    BY <2>1, PlainIsRight, SameMap, CalmIsKernel DEF Calm, Outer
<1>2. CASE Me.back # "idle"
  <2>1. /\ Me'.pc = Me.back /\ Me'.job = Me.job /\ Me'.on = Me.on /\ Me'.md = Me.md /\ Me'.back = Me.back
        /\ Me'.disks = Me.disks /\ Me'.parts = Me.parts /\ Me'.seen = Me.seen /\ Me'.left = Me.left
        /\ Me'.stale = Me.stale /\ Me.back \in Backs \ {"idle"}
    BY <1>2, Basics DEF GoesBackTo, Moves, Fields, Acting
  <2>2. Me.md.part \in known
    BY <1>2 DEF KernelInv, HeldIsKnown, Emitting
  <2>3. NoGhost'
    BY <2>1 DEF KernelInv, NoGhost, Marked, Within, Emitting, Backs
  <2>4. NoMiss'
    BY <2>1 DEF KernelInv, NoMiss, Marked, Marks, Within, Handling, Emitting, Backs
  <2>5. HeldIsKnown' /\ MountIsOwn'
    BY <2>1, <2>2 DEF HeldIsKnown, MountIsOwn, Backs, Emitting
  <2>6. Unmounting' /\ Looking'
    BY <2>1 DEF KernelInv, Unmounting, Looking, Marked, Within, Emitting, Backs
  <2>7. Sweeping'
    BY <2>1 DEF KernelInv, Sweeping, Within, Emitting, Backs
  <2>8. Untouched'
    BY <2>1 DEF KernelInv, Untouched, Within, Handling, Emitting, Backs
  <2>. QED
    BY <2>3, <2>4, <2>5, <2>6, <2>7, <2>8 DEF KernelInv
<1>. QED
  BY <1>1, <1>2

LEMMA EventKernel ==
    ASSUME Setting, StartupInv, StartupInv', KernelInv, Event(Udev)
    PROVE  KernelInv'
<1>1. Me.pc = "event" /\ UNCHANGED <<mounted, known, cache>>
  BY EventStep
<1>2. CASE ~(Me.md.startup /\ ~Me.md.mounted)
  <2>1. GoesBackTo
    BY <1>2, EventStep
  <2>. QED
    BY <1>1, <2>1, ReturnKernel
<1>3. CASE Me.md.startup /\ ~Me.md.mounted
  <2>1. /\ Me'.pc = "mount" /\ Me'.job = Me.job /\ Me'.on = Me.on /\ Me'.md = Me.md /\ Me'.back = Me.back
        /\ Me'.disks = Me.disks /\ Me'.parts = Me.parts /\ Me'.stale = Me.stale
    BY <1>3, EventStep DEF Fields
  <2>2. ~Within({"seen"}) /\ ~Within({"seen"})'
    BY <1>1, <1>3, <2>1 DEF KernelInv, Looking, Within, Emitting
  <2>3. NoGhost' /\ NoMiss'
    BY <1>1, <2>1, <2>2 DEF KernelInv, NoGhost, NoMiss, Marked, Marks, Within, Handling, Emitting
  <2>4. HeldIsKnown' /\ MountIsOwn' /\ Unmounting'
    BY <1>1, <2>1 DEF KernelInv, HeldIsKnown, MountIsOwn, Unmounting, Within, Emitting
  <2>5. Looking'
    BY <2>2 DEF Looking
  <2>6. Sweeping' /\ Untouched'
    BY <1>1, <2>1 DEF KernelInv, Sweeping, Untouched, Within, Handling, Emitting
  <2>. QED
    BY <2>3, <2>4, <2>5, <2>6 DEF KernelInv
<1>. QED
  BY <1>2, <1>3

LEMMA MountEndsKernel ==
    ASSUME Setting, StartupInv, StartupInv', KernelInv, AlreadyMounted(Udev) \/ MountFails(Udev)
    PROVE  KernelInv'
BY AlreadyMountedStep, MountFailsStep, ReturnKernel

LEMMA MountPartitionKernel ==
    ASSUME Setting, StartupInv, StartupInv', KernelInv, MountPartition(Udev)
    PROVE  KernelInv'
<1>1. /\ Me.pc = "mount" /\ mounted[Me.md.path] = None /\ UNCHANGED <<known, cache>>
      /\ Me.job = "patch" => Me.md.part \in known
      /\ mounted' = [mounted EXCEPT ![Me.md.path] = Me.md.part]
      /\ Me'.pc = "mounted" /\ Me'.job = Me.job /\ Me'.on = Me.on /\ Me'.md = Me.md /\ Me'.back = Me.back
      /\ Me'.disks = Me.disks /\ Me'.parts = Me.parts /\ Me'.stale = Me.stale
  BY MountPartitionStep DEF Moves, Fields
<1>2. Me.md \in MountPoint /\ Me.md.path \in Paths /\ Me.md.part \in Partitions
  <2>1. Me.md \in MountPoint /\ OfHome(Me.md)
    BY <1>1, Basics DEF StartupInv, Holding, Emitting, Acting
  <2>. QED
    BY <2>1, VolumesAssumption DEF MountPoint, OfHome
<1>3. mounted'[Me.md.path] = Me.md.part /\ \A y \in Paths : y # Me.md.path => mounted'[y] = mounted[y]
  BY <1>1, <1>2 DEF StartupInv, Typed
<1>4. Me.md.part \in known
  BY <1>1 DEF KernelInv, HeldIsKnown, Emitting
<1>5. ~Within({"seen"}) /\ ~Within({"seen"})'
  BY <1>1 DEF KernelInv, Looking, Within, Emitting
<1>6. NoGhost'
  <2>. SUFFICES ASSUME NEW p \in Partitions, NEW y \in Paths, Marked(p, y)
                PROVE  mounted'[y] = p \/ (Within({"unmounted"})' /\ y = Me.md.path)
    BY <1>1 DEF NoGhost, Marked
  <2>1. mounted[y] = p \/ (Within({"unmounted"}) /\ y = Me.md.path)
    BY DEF KernelInv, NoGhost
  <2>2. Within({"unmounted"})' <=> Within({"unmounted"})
    BY <1>1 DEF Within, Emitting
  <2>. QED
    BY <1>1, <1>3, <2>1, <2>2, VolumesAssumption
<1>7. NoMiss'
  <2>. SUFFICES ASSUME NEW y \in Paths, mounted'[y] \in known PROVE Marked(mounted[y], y)' \/ Marks(mounted[y], y)'
    BY <1>1 DEF NoMiss
  <2>1. CASE y = Me.md.path
    BY <1>1, <2>1 DEF Marks
  <2>2. CASE y # Me.md.path
    <3>1. mounted'[y] = mounted[y] /\ (Marked(mounted[y], y) \/ Marks(mounted[y], y))
      BY <1>3, <2>2 DEF KernelInv, NoMiss
    <3>2. CASE Marked(mounted[y], y)
      BY <1>1, <3>1, <3>2 DEF Marked
    <3>3. CASE Marks(mounted[y], y)
      <4>1. Within(Handling) /\ mounted[y] \in Me.parts
        BY <1>1, <1>5, <3>3 DEF Marks
      <4>. QED
        BY <1>1, <3>1, <4>1 DEF Marks, Within, Handling, Emitting
    <3>. QED
      BY <3>1, <3>2, <3>3
  <2>. QED
    BY <2>1, <2>2
<1>8. HeldIsKnown' /\ MountIsOwn' /\ Unmounting'
  BY <1>1, <1>3, <1>4 DEF HeldIsKnown, MountIsOwn, Unmounting, Within, Emitting
<1>9. Sweeping'
  <2>. SUFFICES ASSUME Within({"sweep"})' PROVE Sweeping'
    BY DEF Sweeping
  <2>1. /\ Within({"sweep"}) /\ Me.stale \subseteq Partitions \X MountPoint
    BY <1>1, Basics DEF Within, Emitting, Acting
  <2>2. \A s \in Me.stale : s[2].path \in Paths
    BY <2>1 DEF MountPoint
  <2>. QED
    BY <1>1, <1>3, <2>1, <2>2 DEF KernelInv, Sweeping
<1>10. Looking' /\ Untouched'
  BY <1>1, <1>5 DEF KernelInv, Looking, Untouched, Within, Handling, Emitting
<1>. QED
  BY <1>6, <1>7, <1>8, <1>9, <1>10 DEF KernelInv

(* The partition of a mount is in the map still.                           *)
LEMMA MountedIsKnown ==
    ASSUME Setting, StartupInv, KernelInv, Me.pc = "mounted"
    PROVE  Me.md.part \in known
BY DEF KernelInv, HeldIsKnown, Emitting

LEMMA MountedKernel ==
    ASSUME Setting, StartupInv, StartupInv', KernelInv, Mounted(Udev)
    PROVE  KernelInv'
<1>1. Me.pc = "mounted" /\ Me.md.part \in known
  BY MountedIsKnown, Basics DEF Mounted, At
<1>2. PICK md :
        /\ md = [Me.md EXCEPT !.mounted = TRUE] /\ Put(md.part, md) /\ UNCHANGED <<mounted, known>>
        /\ Fields(Me', "event", Me.job, Me.on, md, Me.patch, Me.auto, Me.back, TRUE, Me.hw,
                  Me.disks, Me.parts, Me.seen, Me.left, Me.stale)
  BY <1>1, MountedStep
<1>3. Me.md \in MountPoint /\ Me.md.path \in Paths /\ Me.md.part \in Partitions
  <2>1. Me.md \in MountPoint /\ OfHome(Me.md)
    BY <1>1, Basics DEF StartupInv, Holding, Emitting, Acting
  <2>. QED
    BY <2>1, VolumesAssumption DEF MountPoint, OfHome
<1>4. md.path = Me.md.path /\ md.part = Me.md.part /\ md.mounted /\ md # None
  <2>1. md.path = Me.md.path /\ md.part = Me.md.part /\ md.mounted /\ md \in MountPoint
    BY <1>2, <1>3 DEF MountPoint
  <2>. QED
    BY <2>1 DEF Setting, NoneIsApart
<1>5. /\ \A q \in Partitions, y \in Paths : q # Me.md.part \/ y # Me.md.path => cache'[q][y] = cache[q][y]
      /\ cache'[Me.md.part][Me.md.path] = md
  BY <1>1, <1>2, <1>3, <1>4 DEF Put, StartupInv, Typed
<1>6. /\ Me'.pc = "event" /\ Me'.job = Me.job /\ Me'.on = Me.on /\ Me'.md = md /\ Me'.back = Me.back
      /\ Me'.disks = Me.disks /\ Me'.parts = Me.parts /\ Me'.stale = Me.stale
  BY <1>2 DEF Fields
<1>7. mounted[Me.md.path] = Me.md.part /\ mounted' = mounted /\ known' = known
  BY <1>1, <1>2 DEF KernelInv, MountIsOwn
<1>8. ~Within({"seen"}) /\ ~Within({"seen"})'
  BY <1>1, <1>6 DEF KernelInv, Looking, Within, Emitting
<1>9. NoGhost'
  <2>. SUFFICES ASSUME NEW p \in Partitions, NEW y \in Paths, Marked(p, y)'
                PROVE  mounted[y] = p \/ (Within({"unmounted"})' /\ y = md.path)
    BY <1>6, <1>7 DEF NoGhost
  <2>1. Within({"unmounted"})' <=> Within({"unmounted"})
    BY <1>1, <1>6 DEF Within, Emitting
  <2>2. CASE p = Me.md.part /\ y = Me.md.path
    BY <1>7, <2>2
  <2>3. CASE ~(p = Me.md.part /\ y = Me.md.path)
    <3>1. Marked(p, y)
      BY <1>5, <2>3 DEF Marked
    <3>. QED
      BY <1>4, <2>1, <3>1 DEF KernelInv, NoGhost
  <2>. QED
    BY <2>2, <2>3
<1>10. NoMiss'
  <2>. SUFFICES ASSUME NEW y \in Paths, mounted[y] \in known PROVE Marked(mounted[y], y)' \/ Marks(mounted[y], y)'
    BY <1>7 DEF NoMiss
  <2>1. CASE y = Me.md.path
    BY <1>4, <1>5, <1>7, <2>1 DEF Marked
  <2>2. CASE y # Me.md.path
    <3>1. mounted[y] \in Partitions
      BY DEF StartupInv, Typed
    <3>2. Marked(mounted[y], y) \/ (Within(Handling) /\ mounted[y] \in Me.parts)
      BY <1>1, <1>8, <2>2 DEF KernelInv, NoMiss, Marks
    <3>. QED
      BY <1>1, <1>5, <1>6, <1>7, <2>2, <3>1, <3>2 DEF Marked, Marks, Within, Handling, Emitting
  <2>. QED
    BY <2>1, <2>2
<1>11. HeldIsKnown' /\ MountIsOwn'
  BY <1>1, <1>4, <1>6, <1>7 DEF HeldIsKnown, MountIsOwn
<1>12. Unmounting'
  BY <1>3, <1>4, <1>6, <1>7, VolumesAssumption DEF Unmounting
<1>13. Sweeping'
  BY <1>1, <1>4, <1>6, <1>7 DEF KernelInv, Sweeping, Within, Emitting
<1>14. Untouched'
  <2>. SUFFICES ASSUME Within(Handling)' PROVE Untouched'
    BY DEF Untouched
  <2>1. Within(Handling) /\ Me.back \in {"seen", "sweep"} /\ Me.parts \subseteq Partitions
    BY <1>1, <1>6, Basics DEF Within, Handling, Emitting, Acting, Backs
  <2>2. Me.md.part = Me.on
    BY <1>1, <2>1 DEF StartupInv, Refreshing, Told, Emitting
  <2>. QED
    BY <1>1, <1>3, <1>5, <1>6, <2>1, <2>2 DEF KernelInv, Untouched
<1>15. Looking'
  BY <1>8 DEF Looking
<1>. QED
  BY <1>9, <1>10, <1>11, <1>12, <1>13, <1>14, <1>15 DEF KernelInv

LEMMA CalmEndKernel ==
    ASSUME Setting, StartupInv, StartupInv', KernelInv, Me.pc \in Calm \cup {"unmount"},
           UNCHANGED <<mounted, known, cache>>, Me'.pc \in Calm
    PROVE  KernelInv'
BY CalmIsPlain, PlainIsRight, SameMap, CalmIsKernel

LEMMA UnmountEndIsCalm ==
    ASSUME UnmountEnds
    PROVE  Me'.pc \in Calm
BY DEF UnmountEnds, Moves, Fields, Resting, Calm, Outer

LEMMA UnmountFailsKernel ==
    ASSUME Setting, StartupInv, StartupInv', KernelInv, UnmountFails(Udev)
    PROVE  KernelInv'
BY UnmountFailsStep, UnmountEndIsCalm, CalmEndKernel

LEMMA UnmountPartitionKernel ==
    ASSUME Setting, StartupInv, StartupInv', KernelInv, UnmountPartition(Udev)
    PROVE  KernelInv'
<1>1. /\ Me.pc = "unmount" /\ UNCHANGED <<known, cache>> /\ mounted[Me.md.path] # None
      /\ mounted' = [mounted EXCEPT ![Me.md.path] = None]
  BY UnmountPartitionStep
<1>2. MapIsRight
  BY <1>1, CalmIsPlain, PlainIsRight
<1>3. Me.md \in MountPoint /\ Me.md.path \in Paths
  BY <1>1, Basics DEF StartupInv, Holding, Acting, MountPoint
<1>4. mounted'[Me.md.path] = None /\ \A y \in Paths : y # Me.md.path => mounted'[y] = mounted[y]
  BY <1>1, <1>3 DEF StartupInv, Typed
<1>5. CASE Me.md.part = None
  <2>1. Me'.pc \in Calm
    BY <1>5, UnmountPartitionStep, UnmountEndIsCalm
  <2>2. \A p \in Partitions : ~Marked(p, Me.md.path)
    BY <1>1, <1>5 DEF KernelInv, Unmounting, Marked
  <2>3. MapIsRight'
    <3>. SUFFICES ASSUME NEW p \in Partitions, NEW y \in Paths
                  PROVE  /\ Marked(p, y) => mounted'[y] = p
                         /\ mounted'[y] = p /\ p \in known => Marked(p, y)
      BY <1>1 DEF MapIsRight, Marked
    <3>. QED
      BY <1>2, <1>4, <2>2, VolumesAssumption DEF MapIsRight
  <2>. QED
    BY <2>1, <2>3, CalmIsKernel
<1>6. CASE Me.md.part # None
  <2>1. PICK md : md = [Me.md EXCEPT !.mounted = FALSE] /\ Tells(md, "unmounted")
    BY <1>6, UnmountPartitionStep
  <2>2. md.path = Me.md.path /\ md.part = Me.md.part /\ ~md.mounted
    BY <1>3, <2>1 DEF MountPoint
  <2>3. Me'.pc = "event" /\ Me'.back = "unmounted" /\ Me'.md = md
    BY <2>1 DEF Tells, Fields
  <2>4. NoGhost'
    <3>. SUFFICES ASSUME NEW p \in Partitions, NEW y \in Paths, Marked(p, y)
                  PROVE  mounted'[y] = p \/ y = Me.md.path
      BY <1>1, <2>2, <2>3 DEF NoGhost, Marked, Within, Emitting
    <3>. QED
      BY <1>2, <1>4 DEF MapIsRight
  <2>5. NoMiss'
    <3>. SUFFICES ASSUME NEW y \in Paths, mounted'[y] \in known PROVE Marked(mounted'[y], y)
      BY <1>1 DEF NoMiss, Marked
    <3>1. mounted'[y] = mounted[y] /\ mounted[y] \in Partitions
      BY <1>4, VolumesAssumption DEF StartupInv, Typed
    <3>. QED
      BY <1>2, <3>1 DEF MapIsRight
  <2>6. HeldIsKnown'
    BY <1>1, <1>6, <2>2, <2>3 DEF KernelInv, HeldIsKnown, Emitting
  <2>7. Unmounting'
    BY <1>4, <2>2, <2>3 DEF Unmounting
  <2>8. MountIsOwn' /\ Looking' /\ Sweeping' /\ Untouched'
    BY <2>3 DEF MountIsOwn, Looking, Sweeping, Untouched, Within, Handling, Emitting
  <2>. QED
    BY <2>4, <2>5, <2>6, <2>7, <2>8 DEF KernelInv
<1>. QED
  BY <1>5, <1>6

LEMMA UnmountedKernel ==
    ASSUME Setting, StartupInv, StartupInv', KernelInv, Unmounted(Udev)
    PROVE  KernelInv'
<1>1. Me.pc = "unmounted" /\ Put(Me.md.part, Me.md) /\ UNCHANGED <<mounted, known>> /\ Me'.pc \in Calm
  BY UnmountedStep, UnmountEndIsCalm
<1>2. /\ Me.md \in MountPoint /\ Me.md # None /\ Me.md.path \in Paths /\ Me.md.part = Home[Me.md.path]
      /\ Me.md.part \in Partitions
  <2>1. Me.md # None /\ OfHome(Me.md) /\ Me.md \in MountPoint \cup {None}
    BY <1>1, Basics DEF StartupInv, Holding, Acting
  <2>. QED
    BY <2>1, VolumesAssumption DEF MountPoint, OfHome
<1>3. Me.md.part \in known /\ (Me.md.mounted <=> mounted[Me.md.path] # None)
  BY <1>1 DEF KernelInv, HeldIsKnown, Unmounting, Within, Emitting
<1>4. /\ \A q \in Partitions, y \in Paths : q # Me.md.part \/ y # Me.md.path => cache'[q][y] = cache[q][y]
      /\ cache'[Me.md.part][Me.md.path] = Me.md
  BY <1>1, <1>2, <1>3 DEF Put, StartupInv, Typed
<1>5. MapIsRight'
  <2>. SUFFICES ASSUME NEW p \in Partitions, NEW y \in Paths
                PROVE  /\ Marked(p, y)' => mounted[y] = p
                       /\ mounted[y] = p /\ p \in known => Marked(p, y)'
    BY <1>1 DEF MapIsRight
  <2>1. mounted[y] \in {None, Home[y]} /\ p # None
    BY VolumesAssumption DEF StartupInv, MountsAreHome
  <2>2. CASE y # Me.md.path
    <3>1. Marked(p, y)' <=> Marked(p, y)
      BY <1>4, <2>2 DEF Marked
    <3>2. Marked(p, y) => mounted[y] = p
      BY <2>2 DEF KernelInv, NoGhost
    <3>3. mounted[y] = p /\ p \in known => Marked(p, y)
      BY <1>1 DEF KernelInv, NoMiss, Marks, Within, Handling, Emitting
    <3>. QED
      BY <3>1, <3>2, <3>3
  <2>3. CASE y = Me.md.path /\ p = Me.md.part
    BY <1>2, <1>3, <1>4, <2>1, <2>3 DEF Marked
  <2>4. CASE y = Me.md.path /\ p # Me.md.part
    <3>1. ~Marked(p, y)'
      BY <1>2, <1>4, <2>4 DEF Marked, StartupInv, EntriesAreHome
    <3>. QED
      BY <1>2, <2>1, <2>4, <3>1
  <2>. QED
    BY <2>2, <2>3, <2>4
<1>. QED
  BY <1>1, <1>5, CalmIsKernel

LEMMA PatchedKernel ==
    ASSUME Setting, StartupInv, StartupInv', KernelInv, Patched(Udev)
    PROVE  KernelInv'
<1>1. PICK md :
        /\ Me.pc = "patched" /\ UNCHANGED <<mounted, known>>
        /\ md = [Me.patch EXCEPT !.mounted = mounted[Me.patch.path] # None]
        /\ IF Me.patch.part \in known \/ {q \in known : Me.patch.path \in Listed(q)} = {}
           THEN Put(Me.patch.part, md)
           ELSE \E q \in {q \in known : Me.patch.path \in Listed(q)} :
                    Put(cache[q][Me.patch.path].part,
                        [cache[q][Me.patch.path] EXCEPT !.startup = md.startup])
        /\ Tells(md, "idle")
  BY PatchedStep
<1>. DEFINE x == Me.patch.path
            p == Me.patch.part
            isMounted == mounted[x] # None
<1>2. Me.job = "patch" /\ Me.patch \in MountPoint /\ x \in Paths /\ p = Home[x] /\ p \in Partitions
  <2>1. Me.job = "patch" /\ Me.patch # None /\ OfHome(Me.patch) /\ Me.patch \in MountPoint \cup {None}
    BY <1>1, Basics DEF StartupInv, Patching, Acting
  <2>. QED
    BY <2>1, VolumesAssumption DEF MountPoint, OfHome
<1>3. md.path = x /\ md.part = p /\ md.mounted = isMounted /\ md # None
  <2>1. md.path = x /\ md.part = p /\ md.mounted = isMounted /\ md \in MountPoint
    BY <1>1, <1>2 DEF MountPoint
  <2>. QED
    BY <2>1 DEF Setting, NoneIsApart
<1>4. cache' = IF p \in known THEN [cache EXCEPT ![p][x] = md] ELSE cache
  <2>1. p \notin known => {q \in known : x \in Listed(q)} = {}
    BY <1>2 DEF StartupInv, Typed, EntriesAreHome, Listed
  <2>. QED
    BY <1>1, <1>3, <2>1 DEF Put
<1>5. Me'.pc = "event" /\ Me'.back = "idle" /\ Me'.md = md /\ Me'.job = "patch"
  BY <1>1, <1>2 DEF Tells, Fields
<1>6. MapIsRight
  BY <1>1, CalmIsPlain, PlainIsRight DEF Calm
<1>. HIDE DEF x, p
<1>7. MapIsRight'
  <2>. SUFFICES ASSUME NEW q \in Partitions, NEW y \in Paths
                PROVE  /\ Marked(q, y)' => mounted[y] = q
                       /\ mounted[y] = q /\ q \in known => Marked(q, y)'
    BY <1>1 DEF MapIsRight
  <2>1. CASE q = p /\ y = x /\ p \in known
    <3>1. cache'[q][y] = md
      BY <1>2, <1>4, <2>1 DEF StartupInv, Typed
    <3>2. Marked(q, y)' <=> mounted[y] # None
      BY <1>3, <2>1, <3>1 DEF Marked
    <3>3. mounted[y] \in {None, q}
      BY <1>2, <2>1 DEF StartupInv, MountsAreHome
    <3>. QED
      BY <3>2, <3>3, VolumesAssumption
  <2>2. CASE ~(q = p /\ y = x /\ p \in known)
    <3>1. cache'[q][y] = cache[q][y]
      BY <1>2, <1>4, <2>2 DEF StartupInv, Typed
    <3>. QED
      BY <1>6, <3>1 DEF MapIsRight, Marked
  <2>. QED
    BY <2>1, <2>2
<1>8. Plain' /\ HeldIsKnown' /\ Unmounting'
  BY <1>5 DEF Plain, HeldIsKnown, Unmounting, Within, Handling
<1>. QED
  BY <1>7, <1>8, RightIsKernel

LEMMA RequestMountKernel ==
    ASSUME Setting, StartupInv, StartupInv', KernelInv, RequestMount(Udev)
    PROVE  KernelInv'
<1>1. PICK x, startup, md :
         /\ x \in Paths /\ startup \in BOOLEAN
         /\ Me.pc = "idle" /\ UNCHANGED <<mounted, known, cache>>
         /\ Home[x] \in known /\ md = NewMountPoint(x, Home[x], startup, FALSE, FALSE)
         /\ Begun("mount", "mount", None, md, None, {})
  BY RequestMountStep
<1>2. Me'.pc = "mount" /\ Me'.back = "idle" /\ Me'.md.part \in known
  BY <1>1 DEF Begun, Fields, NewMountPoint
<1>3. MapIsRight'
  BY <1>1, CalmIsPlain, PlainIsRight, SameMap DEF Calm, Outer
<1>4. Plain' /\ HeldIsKnown' /\ Unmounting'
  BY <1>1, <1>2 DEF Plain, HeldIsKnown, Unmounting, Within, Handling
<1>. QED
  BY <1>3, <1>4, RightIsKernel

LEMMA RequestUnmountKernel ==
    ASSUME Setting, StartupInv, StartupInv', KernelInv, RequestUnmount(Udev)
    PROVE  KernelInv'
<1>1. PICK x, md :
         /\ x \in Paths
         /\ Me.pc = "idle" /\ UNCHANGED <<mounted, known, cache>>
         /\ \/ \E q \in known : x \in Listed(q) /\ md = cache[q][x]
            \/ (\A q \in known : x \notin Listed(q)) /\ md = NewMountPoint(x, None, FALSE, FALSE, FALSE)
         /\ Begun("unmount", "unmount", None, md, None, {})
  BY RequestUnmountStep
<1>2. Me'.pc = "unmount" /\ Me'.md = md
  BY <1>1 DEF Begun, Fields
<1>3. MapIsRight'
  BY <1>1, CalmIsPlain, PlainIsRight, SameMap DEF Calm, Outer
<1>4. /\ md.part \in known \/ md.part = None
      /\ md.part = None => \A p \in Partitions : cache[p][md.path] = None
  <2>1. CASE \E q \in known : x \in Listed(q) /\ md = cache[q][x]
    BY <1>1, <2>1, VolumesAssumption DEF StartupInv, Typed, EntriesAreHome, Listed
  <2>2. CASE (\A q \in known : x \notin Listed(q)) /\ md = NewMountPoint(x, None, FALSE, FALSE, FALSE)
    BY <1>1, <2>2 DEF StartupInv, EntriesAreHome, Listed, NewMountPoint
  <2>. QED
    BY <1>1, <2>1, <2>2
<1>5. Plain' /\ HeldIsKnown' /\ Unmounting'
  BY <1>1, <1>2, <1>4 DEF Plain, HeldIsKnown, Unmounting, Within, Handling, Emitting
<1>. QED
  BY <1>3, <1>5, RightIsKernel

LEMMA RequestsKernel ==
    ASSUME Setting, StartupInv, StartupInv', KernelInv, Request(Udev)
    PROVE  KernelInv'
<1>1. CASE RequestPatch(Udev)
  <2>1. Me.pc = "idle" /\ UNCHANGED <<mounted, known, cache>> /\ Me'.pc \in {"refresh", "patched"}
    BY <1>1, RequestPatchStep DEF Begun, Fields
  <2>. QED
    BY <2>1, CalmEndKernel DEF Calm, Outer
<1>2. CASE Refresh(Udev)
  <2>1. Me.pc = "idle" /\ UNCHANGED <<mounted, known, cache>> /\ Me'.pc = "refresh"
    BY <1>2, RefreshStep DEF Begun, Fields
  <2>. QED
    BY <2>1, CalmEndKernel DEF Calm, Outer
<1>. QED
  BY <1>1, <1>2, RequestMountKernel, RequestUnmountKernel DEF Request

LEMMA UdevEventsKernel ==
    ASSUME Setting, StartupInv, StartupInv', KernelInv, NEW p \in Partitions,
           UdevAddDisk(p) \/ UdevRemoveDisk(p) \/ UdevAdd(p) \/ UdevRemove(p)
    PROVE  KernelInv'
<1>1. CASE UdevAddDisk(p)
  <2>1. Me.pc = "idle" /\ UNCHANGED <<mounted, known, cache>> /\ Me'.pc = "refresh"
    BY <1>1, UdevAddDiskStep DEF Took, Begun, Fields
  <2>. QED
    BY <2>1, CalmEndKernel DEF Calm, Outer
<1>2. CASE UdevRemoveDisk(p)
  <2>1. Me'.pc = "idle" /\ Replace(PartsOf(DiskOf[p]), {})
    BY <1>2, UdevRemoveDiskStep DEF Took
  <2>2. PartsOf(DiskOf[p]) = Partitions
    BY VolumesAssumption DEF PartsOf, Setting, OneDisk
  <2>3. known' = {} /\ \A q \in Partitions, x \in Paths : cache'[q][x] = None
    BY <2>1, <2>2 DEF Replace, NoMountPoints, StartupInv, Typed
  <2>4. MapIsRight'
    BY <2>3 DEF MapIsRight, Marked
  <2>. QED
    BY <2>1, <2>4, CalmIsKernel DEF Calm, Outer
<1>3. CASE UdevAdd(p)
  <2>1. Me.pc = "idle" /\ UNCHANGED <<mounted, known, cache>> /\ Me'.pc = "add"
    BY <1>3, UdevAddStep DEF Took, Begun, Fields
  <2>. QED
    BY <2>1, CalmEndKernel DEF Calm, Outer
<1>4. CASE UdevRemove(p)
  <2>1. Me.pc = "idle" /\ UNCHANGED <<mounted, known, cache>> /\ Me'.pc \in {"remove", "refresh"}
    BY <1>4, UdevRemoveStep DEF Took, Begun, Fields
  <2>. QED
    BY <2>1, CalmEndKernel DEF Calm, Outer
<1>. QED
  BY <1>1, <1>2, <1>3, <1>4

LEMMA RetryMountKernel ==
    ASSUME Setting, StartupInv, StartupInv', Loops, KernelInv, RetryMount
    PROVE  KernelInv'
<1>1. Me.pc = "add" /\ UNCHANGED <<mounted, known, cache>> /\ Me \in Acting
  BY RetryMountStep, Basics
<1>2. PICK x, md :
         /\ x \in Me.left
         /\ md = [cache[Me.on][x] EXCEPT !.part = Me.on]
         /\ IF /\ cache[Me.on][x] # None /\ cache[Me.on][x].startup /\ ~cache[Me.on][x].mounted
            THEN Fields(Me', "mount", Me.job, Me.on, md, Me.patch, FALSE, "add", Me.handled, Me.hw,
                        Me.disks, Me.parts, Me.seen, Me.left \ {x}, Me.stale)
            ELSE Fields(Me', "add", Me.job, Me.on, Me.md, Me.patch, Me.auto, Me.back, Me.handled,
                        Me.hw, Me.disks, Me.parts, Me.seen, Me.left \ {x}, Me.stale)
  BY RetryMountStep
<1>3. CASE cache[Me.on][x] # None /\ cache[Me.on][x].startup /\ ~cache[Me.on][x].mounted
  <2>1. Me'.pc = "mount" /\ Me'.back = "add" /\ Me'.md = md
    BY <1>2, <1>3 DEF Fields
  <2>2. Me.on \in Partitions /\ x \in Paths
    BY <1>1, <1>2 DEF Loops, Acting
  <2>3. cache[Me.on][x] \in MountPoint /\ Me.on \in known
    BY <1>3, <2>2 DEF StartupInv, Typed, EntriesAreHome
  <2>4. md.part = Me.on
    BY <1>2, <2>3 DEF MountPoint
  <2>5. MapIsRight'
    BY <1>1, CalmIsPlain, PlainIsRight, SameMap DEF Calm, Outer
  <2>6. Plain' /\ HeldIsKnown' /\ Unmounting'
    BY <1>1, <2>1, <2>3, <2>4 DEF Plain, HeldIsKnown, Unmounting, Within, Handling
  <2>. QED
    BY <2>5, <2>6, RightIsKernel
<1>4. CASE ~(cache[Me.on][x] # None /\ cache[Me.on][x].startup /\ ~cache[Me.on][x].mounted)
  <2>1. Me'.pc = "add"
    BY <1>2, <1>4 DEF Fields
  <2>. QED
    BY <1>1, <2>1, CalmEndKernel DEF Calm, Outer
<1>. QED
  BY <1>3, <1>4

LEMMA RetriedAllKernel ==
    ASSUME Setting, StartupInv, StartupInv', KernelInv, RetriedAll
    PROVE  KernelInv'
<1>1. Me.pc = "add" /\ UNCHANGED <<mounted, known, cache>> /\ Me'.pc \in {"idle", "refresh"}
  BY RetriedAllStep DEF Moves, Fields, Resting
<1>. QED
  BY <1>1, CalmEndKernel DEF Calm, Outer

LEMMA ReleaseMountKernel ==
    ASSUME Setting, StartupInv, StartupInv', Loops, KernelInv, ReleaseMount
    PROVE  KernelInv'
<1>1. Me.pc = "remove" /\ UNCHANGED <<mounted, known, cache>> /\ Me \in Acting
  BY ReleaseMountStep, Basics
<1>2. PICK x \in Me.left :
        IF Marked(Me.on, x)
        THEN Me'.pc = "unmount" /\ Me'.md = cache[Me.on][x]
        ELSE Me'.pc = "remove"
  BY ReleaseMountStep DEF Fields
<1>3. CASE Marked(Me.on, x)
  <2>1. Me.on \in Partitions /\ x \in Paths
    BY <1>1 DEF Loops, Acting
  <2>2. Me'.pc = "unmount" /\ Me'.md.part = Me.on /\ Me.on \in known /\ Me.on # None
    BY <1>2, <1>3, <2>1, VolumesAssumption DEF Marked, StartupInv, EntriesAreHome
  <2>3. MapIsRight'
    BY <1>1, CalmIsPlain, PlainIsRight, SameMap DEF Calm, Outer
  <2>4. Plain' /\ HeldIsKnown' /\ Unmounting'
    BY <1>1, <2>2 DEF Plain, HeldIsKnown, Unmounting, Within, Handling, Emitting
  <2>. QED
    BY <2>3, <2>4, RightIsKernel
<1>4. CASE ~Marked(Me.on, x)
  BY <1>1, <1>2, <1>4, CalmEndKernel DEF Calm, Outer
<1>. QED
  BY <1>3, <1>4

LEMMA ReleasedAllKernel ==
    ASSUME Setting, StartupInv, StartupInv', Loops, KernelInv, ReleasedAll
    PROVE  KernelInv'
<1>1. Me.pc = "remove" /\ mounted' = mounted /\ Replace({Me.on}, {}) /\ Me'.pc = "refresh"
  BY ReleasedAllStep DEF Moves, Fields
<1>2. MapIsRight
  BY <1>1, CalmIsPlain, PlainIsRight DEF Calm, Outer
<1>3. known' = known \ {Me.on} /\ \A q \in Partitions : cache'[q] = IF q = Me.on THEN NoMountPoints ELSE cache[q]
  BY <1>1 DEF Replace
<1>4. MapIsRight'
  <2>. SUFFICES ASSUME NEW q \in Partitions, NEW x \in Paths
                PROVE  /\ Marked(q, x)' => mounted[x] = q
                       /\ mounted[x] = q /\ q \in known' => Marked(q, x)'
    BY <1>1 DEF MapIsRight
  <2>1. CASE q = Me.on
    BY <1>3, <2>1 DEF Marked, NoMountPoints
  <2>2. CASE q # Me.on
    BY <1>2, <1>3, <2>2 DEF MapIsRight, Marked
  <2>. QED
    BY <2>1, <2>2
<1>. QED
  BY <1>1, <1>4, CalmIsKernel DEF Calm, Outer

LEMMA KernelKept ==
    ASSUME Setting, StartupInv, StartupInv', UNCHANGED <<mounted, known, cache, act>>, KernelInv
    PROVE  KernelInv'
<1>1. Me' = Me
  BY DEF Me
<1>2. NoGhost' /\ NoMiss'
  BY <1>1 DEF KernelInv, NoGhost, NoMiss, Marked, Marks, Within
<1>3. MountIsOwn' /\ HeldIsKnown' /\ Unmounting' /\ Looking' /\ Sweeping' /\ Untouched'
  BY <1>1 DEF KernelInv, MountIsOwn, HeldIsKnown, Unmounting, Looking, Sweeping, Untouched, Marked, Within
<1>. QED
  BY <1>2, <1>3 DEF KernelInv

LEMMA KernelNext ==
    ASSUME Setting, StartupInv, StartupInv', Loops, OneRefresh, KernelInv, [Next]_vars
    PROVE  KernelInv'
<1>1. CASE UNCHANGED vars
  BY <1>1, KernelKept DEF vars, hostVars, mapVars
<1>2. CASE \E p \in Partitions : Plug(p) \/ Unplug(p)
  BY <1>2, KernelKept DEF Plug, Unplug, mapVars
<1>3. CASE Work(Udev)
  BY <1>3, RefreshBeginKernel, RefreshDiskKernel, RefreshEndKernel, LoadRowsKernel, NextDiskKernel,
     ReadMountsKernel, SeeMountKernel, SeenAllKernel, SweepKernel, SweptAllKernel, EventKernel,
     MountEndsKernel, MountPartitionKernel, MountedKernel, UnmountFailsKernel, UnmountPartitionKernel,
     UnmountedKernel, PatchedKernel DEF Work
<1>4. CASE Request(Udev)
  BY <1>4, RequestsKernel
<1>5. CASE UdevStep
  BY <1>5, UdevEventsKernel, RetryMountKernel, RetriedAllKernel, ReleaseMountKernel, ReleasedAllKernel
     DEF UdevStep
<1>. QED
  BY <1>1, <1>2, <1>3, <1>4, <1>5 DEF Next, Setting, OneActor

-----------------------------------------------------------------------------
(* The queue brings back what was plugged in.                              *)
UdevEvent == [kind : {"add", "remove", "addDisk", "removeDisk"}, part : Partitions]

LEMMA ToldWhenAppended ==
    ASSUME \A j \in DOMAIN queue : j \in DOMAIN queue' /\ queue'[j] = queue[j], NEW i, NEW p, ToldAfter(i, p)
    PROVE  ToldAfter(i, p)'
BY DEF ToldAfter

LEMMA ToldWhenTaken ==
    ASSUME queue \in Seq(UdevEvent), queue # <<>>, queue' = Tail(queue), NEW i \in Nat, NEW p, ToldAfter(i + 1, p)
    PROVE  ToldAfter(i, p)'
<1>1. PICK j \in DOMAIN queue : j > i + 1 /\ queue[j] = Queued("add", p)
  BY DEF ToldAfter
<1>2. j - 1 \in DOMAIN queue' /\ queue'[j - 1] = queue[j] /\ j - 1 > i
  BY <1>1
<1>. QED
  BY <1>1, <1>2 DEF ToldAfter

LEMMA SameTold ==
    ASSUME queue' = queue
    PROVE  \A i, p : ToldAfter(i, p) => ToldAfter(i, p)'
BY DEF ToldAfter

(* A step that leaves the hardware, the queue and the map's partitions.    *)
LEMMA QueueKept ==
    ASSUME QueueInv, UNCHANGED <<present, queue, known>>, HardwareIsTold', OneRefresh', AddIsOfDisk',
           \A p \in present \ known : Coming(p) => Coming(p)'
    PROVE  QueueInv'
<1>1. PluggedIsComing'
  BY DEF QueueInv, PluggedIsComing
<1>2. BackIsTold'
  BY SameTold DEF QueueInv, BackIsTold
<1>. QED
  BY <1>1, <1>2 DEF QueueInv

(* While a partition is handled, only the queue brings the others.         *)
LEMMA HandlingQueue ==
    ASSUME QueueInv, UNCHANGED <<present, queue, known, flight>>, Me.pc \in Handling,
           Me'.pc \in Handling \/ (Me'.pc = "event" /\ Me'.back \in {"seen", "sweep"})
    PROVE  QueueInv'
<1>1. HardwareIsTold' /\ OneRefresh' /\ AddIsOfDisk'
  BY DEF HardwareIsTold, OneRefresh, AddIsOfDisk, Within, Handling, Emitting
<1>2. \A p \in present \ known : Coming(p) => Coming(p)'
  BY SameTold DEF Coming, Releasing, Within, Handling, Emitting
<1>. QED
  BY <1>1, <1>2, QueueKept

(* The goroutine goes on with an event or a mount.                         *)
LEMMA EmittingQueue ==
    ASSUME QueueInv, UNCHANGED <<present, queue, known, flight>>, Me.pc \in Emitting, Me'.pc \in Emitting,
           Me'.job = Me.job, Me'.on = Me.on, Me'.back = Me.back, Me'.md.part = Me.md.part,
           Me'.handled = Me.handled \/ Me.md.part \in known
    PROVE  QueueInv'
<1>1. HardwareIsTold' /\ OneRefresh' /\ AddIsOfDisk'
  BY DEF QueueInv, HardwareIsTold, OneRefresh, AddIsOfDisk, Within, Handling, Emitting
<1>2. \A p \in present \ known : Coming(p) => Coming(p)'
  BY SameTold DEF QueueInv, AddIsOfDisk, Coming, Releasing, Within, Emitting
<1>. QED
  BY <1>1, <1>2, QueueKept

LEMMA ReturnQueue ==
    ASSUME Setting, StartupInv, QueueInv, UNCHANGED <<present, queue, known, flight>>, Me.pc \in Emitting, GoesBackTo
    PROVE  QueueInv'
<1>1. Me.back \in Backs
  BY Basics DEF Acting
<1>2. CASE Me.back = "idle"
  <2>1. Me'.pc = "idle" /\ flight' = None
    BY <1>2 DEF GoesBackTo, Resting, QueueInv, OneRefresh, Within, Handling, Emitting
  <2>2. HardwareIsTold' /\ OneRefresh' /\ AddIsOfDisk'
    BY <2>1 DEF HardwareIsTold, OneRefresh, AddIsOfDisk, Within, Emitting
  <2>3. \A p \in present \ known : Coming(p) => Coming(p)'
    BY <1>2, SameTold DEF Coming, Releasing, Within, Emitting
  <2>. QED
    BY <2>2, <2>3, QueueKept
<1>3. CASE Me.back # "idle"
  <2>1. /\ Me'.pc = Me.back /\ Me'.job = Me.job /\ Me'.on = Me.on /\ Me'.back = Me.back
        /\ Me'.md = Me.md /\ Me'.handled = Me.handled
    BY <1>3 DEF GoesBackTo, Moves, Fields
  <2>2. HardwareIsTold' /\ OneRefresh' /\ AddIsOfDisk'
    BY <1>1, <1>3, <2>1 DEF QueueInv, HardwareIsTold, OneRefresh, AddIsOfDisk, Within, Handling, Emitting, Backs
  <2>3. \A p \in present \ known : Coming(p) => Coming(p)'
    BY <1>1, <1>3, <2>1, SameTold DEF Coming, Releasing, Within, Emitting, Backs
  <2>. QED
    BY <2>2, <2>3, QueueKept
<1>. QED
  BY <1>2, <1>3

(* A request begins, or a setting reaches the map.                         *)
LEMMA BeginningQueue ==
    ASSUME QueueInv, UNCHANGED <<present, queue, known, flight>>, Me.pc \in {"idle", "patched"},
           Me'.pc \in {"refresh", "patched", "unmount"} \/ (Me'.pc \in {"event", "mount"} /\ Me'.back = "idle")
    PROVE  QueueInv'
<1>1. flight = None
  BY DEF QueueInv, OneRefresh, Within, Handling, Emitting
<1>2. HardwareIsTold' /\ OneRefresh' /\ AddIsOfDisk'
  BY <1>1 DEF HardwareIsTold, OneRefresh, AddIsOfDisk, Within, Emitting
<1>3. \A p \in present \ known : Coming(p) => Coming(p)'
  BY SameTold DEF Coming, Releasing, Within, Emitting
<1>. QED
  BY <1>2, <1>3, QueueKept

LEMMA UnmountEndsQueue ==
    ASSUME Setting, StartupInv, QueueInv, UNCHANGED <<present, queue, known, flight>>,
           Me.pc \in {"unmount", "unmounted"}, UnmountEnds
    PROVE  QueueInv'
<1>1. flight = None
  BY DEF QueueInv, OneRefresh, Within, Handling, Emitting
<1>2. Me'.pc \in {"idle", "remove"} /\ (Me.job = "remove" => Me'.pc = "remove" /\ Me'.job = "remove")
  BY DEF UnmountEnds, Moves, Fields, Resting
<1>3. HardwareIsTold' /\ OneRefresh' /\ AddIsOfDisk'
  BY <1>1, <1>2 DEF HardwareIsTold, OneRefresh, AddIsOfDisk, Within, Emitting
<1>4. \A p \in present \ known : Coming(p) => Coming(p)'
  BY <1>2, SameTold DEF Coming, Releasing, Within, Emitting
<1>. QED
  BY <1>3, <1>4, QueueKept

LEMMA RefreshBeginQueue ==
    ASSUME Setting, StartupInv, QueueInv, RefreshBegin(Udev)
    PROVE  QueueInv'
<1>1. Me.pc = "refresh" /\ flight = None
  BY Basics DEF RefreshBegin, At, QueueInv, OneRefresh, Within, Handling, Emitting
<1>2. /\ UNCHANGED <<present, queue, known>> /\ Me'.pc = "disk" /\ Me'.hw = present
      /\ Me'.disks = {DiskOf[p] : p \in present}
  BY <1>1, RefreshBeginStep DEF Fields
<1>3. HardwareIsTold' /\ OneRefresh' /\ AddIsOfDisk'
  BY <1>2 DEF HardwareIsTold, OneRefresh, AddIsOfDisk, Within, Emitting
<1>4. \A p \in present \ known : Coming(p)'
  BY <1>2 DEF Coming
<1>. QED
  BY <1>2, <1>3, <1>4, QueueKept

LEMMA RefreshDiskQueue ==
    ASSUME Setting, StartupInv, QueueInv, RefreshDisk(Udev)
    PROVE  QueueInv'
<1>1. /\ Me.pc = "disk" /\ Me.disks # {} /\ UNCHANGED <<present, queue, flight>> /\ known' = Me.hw
      /\ Me'.pc = "part"
  BY RefreshDiskReplaces DEF Fields
<1>2. PluggedIsComing'
  BY <1>1, SameTold DEF QueueInv, HardwareIsTold, PluggedIsComing, Coming
<1>3. BackIsTold'
  BY <1>1, SameTold DEF QueueInv, BackIsTold
<1>4. HardwareIsTold' /\ OneRefresh' /\ AddIsOfDisk'
  BY <1>1 DEF HardwareIsTold, OneRefresh, AddIsOfDisk, Within, Handling, Emitting
<1>. QED
  BY <1>1, <1>2, <1>3, <1>4 DEF QueueInv

LEMMA RefreshEndQueue ==
    ASSUME Setting, StartupInv, QueueInv, RefreshEnd(Udev)
    PROVE  QueueInv'
<1>1. /\ Me.pc = "disk" /\ Me.disks = {} /\ UNCHANGED <<present, queue, known>> /\ flight' = None
      /\ Me'.pc \in {"patched", "idle"}
  BY RefreshEndStep DEF Moves, Fields, Resting
<1>2. HardwareIsTold' /\ OneRefresh' /\ AddIsOfDisk'
  BY <1>1 DEF HardwareIsTold, OneRefresh, AddIsOfDisk, Within, Emitting
<1>3. \A p \in present \ known : Coming(p) => Coming(p)'
  BY <1>1, SameTold DEF Coming, Releasing, Within, Emitting
<1>. QED
  BY <1>1, <1>2, <1>3, QueueKept

LEMMA NextDiskQueue ==
    ASSUME Setting, StartupInv, KernelInv, QueueInv, NextDisk(Udev)
    PROVE  QueueInv'
<1>1. /\ Me.pc = "part" /\ UNCHANGED <<present, queue, known, flight>> /\ Me'.pc = "disk" /\ Me'.disks = {}
  BY NextDiskStep DEF Moves, Fields, KernelInv, Untouched, Within, Handling
<1>2. HardwareIsTold' /\ OneRefresh' /\ AddIsOfDisk'
  BY <1>1 DEF HardwareIsTold, OneRefresh, AddIsOfDisk, Within, Emitting
<1>3. \A p \in present \ known : Coming(p) => Coming(p)'
  BY <1>1, SameTold DEF Coming, Releasing, Within, Emitting
<1>. QED
  BY <1>1, <1>2, <1>3, QueueKept

LEMMA HandlingStepsQueue ==
    ASSUME Setting, StartupInv, QueueInv,
           \/ LoadRows(Udev) \/ ReadMounts(Udev) \/ SeeMount(Udev)
           \/ SeenAll(Udev) \/ Sweep(Udev) \/ SweptAll(Udev)
    PROVE  QueueInv'
<1>1. UNCHANGED <<present, queue, known, flight>> /\ Me.pc \in Handling
  BY LoadRowsStep, ReadMountsStep, SeeMountStep, SeenAllStep, SweepStep, SweptAllStep DEF Handling
<1>2. Me'.pc \in Handling \/ (Me'.pc = "event" /\ Me'.back \in {"seen", "sweep"})
  <2>1. CASE LoadRows(Udev)
    BY <2>1, LoadRowsStep DEF Fields, Handling
  <2>2. CASE ReadMounts(Udev)
    BY <2>2, ReadMountsStep DEF Fields, Handling
  <2>3. CASE SeeMount(Udev)
    BY <2>3, SeeMountStep DEF Fields, Handling
  <2>4. CASE SeenAll(Udev)
    BY <2>4, SeenAllStep DEF Fields, Handling
  <2>5. CASE Sweep(Udev)
    BY <2>5, SweepStep DEF Fields, Handling
  <2>6. CASE SweptAll(Udev)
    BY <2>6, SweptAllStep DEF Moves, Fields, Handling
  <2>. QED
    BY <2>1, <2>2, <2>3, <2>4, <2>5, <2>6
<1>. QED
  BY <1>1, <1>2, HandlingQueue

LEMMA EventQueue ==
    ASSUME Setting, StartupInv, KernelInv, QueueInv,
           Event(Udev) \/ AlreadyMounted(Udev) \/ MountFails(Udev) \/ MountPartition(Udev) \/ Mounted(Udev)
    PROVE  QueueInv'
<1>1. CASE Event(Udev)
  <2>1. Me.pc \in Emitting /\ UNCHANGED <<present, queue, known, flight>>
    BY <1>1, EventStep DEF Emitting
  <2>2. GoesBackTo \/ (Me'.pc = "mount" /\ Me'.job = Me.job /\ Me'.on = Me.on /\ Me'.back = Me.back
                       /\ Me'.md = Me.md /\ Me'.handled = Me.handled)
    BY <1>1, EventStep DEF Fields
  <2>. QED
    BY <2>1, <2>2, ReturnQueue, EmittingQueue DEF Emitting
<1>2. CASE AlreadyMounted(Udev) \/ MountFails(Udev)
  BY <1>2, AlreadyMountedStep, MountFailsStep, ReturnQueue DEF Emitting
<1>3. CASE MountPartition(Udev)
  <2>1. /\ Me.pc = "mount" /\ UNCHANGED <<present, queue, known, flight>>
        /\ Me'.pc = "mounted" /\ Me'.job = Me.job /\ Me'.on = Me.on /\ Me'.back = Me.back
        /\ Me'.md = Me.md /\ Me'.handled = Me.handled
    BY <1>3, MountPartitionStep DEF Moves, Fields
  <2>. QED
    BY <2>1, EmittingQueue DEF Emitting
<1>4. CASE Mounted(Udev)
  <2>1. Me.pc = "mounted" /\ Me.md.part \in known
    BY <1>4, MountedIsKnown, Basics DEF Mounted, At
  <2>2. PICK md :
          /\ UNCHANGED <<present, queue, known, flight>> /\ md = [Me.md EXCEPT !.mounted = TRUE]
          /\ Me'.pc = "event" /\ Me'.job = Me.job /\ Me'.on = Me.on /\ Me'.back = Me.back /\ Me'.md = md
    BY <1>4, <2>1, MountedStep DEF Fields
  <2>3. md.part = Me.md.part
    BY <2>1, <2>2, Basics DEF StartupInv, Holding, Emitting, Acting, MountPoint
  <2>. QED
    BY <2>1, <2>2, <2>3, EmittingQueue DEF Emitting
<1>. QED
  BY <1>1, <1>2, <1>3, <1>4

LEMMA UnmountQueue ==
    ASSUME Setting, StartupInv, QueueInv, UnmountFails(Udev) \/ UnmountPartition(Udev) \/ Unmounted(Udev)
    PROVE  QueueInv'
<1>1. CASE UnmountFails(Udev) \/ Unmounted(Udev) \/ (UnmountPartition(Udev) /\ Me.md.part = None)
  BY <1>1, UnmountFailsStep, UnmountedStep, UnmountPartitionStep, UnmountEndsQueue
<1>2. CASE UnmountPartition(Udev) /\ Me.md.part # None
  <2>1. /\ Me.pc = "unmount" /\ UNCHANGED <<present, queue, known, flight>>
        /\ Me'.pc = "event" /\ Me'.job = Me.job /\ Me'.back = "unmounted"
    BY <1>2, UnmountPartitionStep DEF Tells, Fields
  <2>2. HardwareIsTold' /\ OneRefresh' /\ AddIsOfDisk'
    BY <2>1 DEF QueueInv, HardwareIsTold, OneRefresh, AddIsOfDisk, Within, Handling, Emitting
  <2>3. \A p \in present \ known : Coming(p) => Coming(p)'
    BY <2>1, SameTold DEF Coming, Releasing, Within, Emitting
  <2>. QED
    BY <2>1, <2>2, <2>3, QueueKept
<1>. QED
  BY <1>1, <1>2

LEMMA RequestQueue ==
    ASSUME Setting, StartupInv, QueueInv, Request(Udev) \/ Patched(Udev)
    PROVE  QueueInv'
<1>1. CASE RequestMount(Udev)
  BY <1>1, RequestMountStep, BeginningQueue DEF Begun, Fields
<1>2. CASE RequestUnmount(Udev)
  BY <1>2, RequestUnmountStep, BeginningQueue DEF Begun, Fields
<1>3. CASE RequestPatch(Udev)
  BY <1>3, RequestPatchStep, BeginningQueue DEF Begun, Fields
<1>4. CASE Refresh(Udev)
  BY <1>4, RefreshStep, BeginningQueue DEF Begun, Fields
<1>5. CASE Patched(Udev)
  BY <1>5, PatchedStep, BeginningQueue DEF Tells, Fields
<1>. QED
  BY <1>1, <1>2, <1>3, <1>4, <1>5 DEF Request

(* An event is taken from the queue by a goroutine that rests.             *)
LEMMA TakenQueue ==
    ASSUME QueueInv, NEW kind, NEW p, Took(kind, p), PluggedIsComing',
           Me'.pc \in {"idle", "refresh", "add", "remove"}
    PROVE  QueueInv'
<1>1. /\ queue \in Seq(UdevEvent) /\ queue # <<>> /\ queue' = Tail(queue) /\ present' = present /\ flight' = None
      /\ Me.pc = "idle"
  BY DEF Took, QueueInv, UdevEvent, OneRefresh, Within, Handling, Emitting
<1>2. BackIsTold'
  <2>. SUFFICES ASSUME NEW i \in DOMAIN queue', queue'[i].kind = "removeDisk", NEW q \in present
                PROVE  ToldAfter(i, q)'
    BY <1>1 DEF BackIsTold
  <2>1. i \in Nat /\ i + 1 \in DOMAIN queue /\ queue[i + 1] = queue'[i]
    BY <1>1
  <2>2. ToldAfter(i + 1, q)
    BY <2>1 DEF QueueInv, BackIsTold
  <2>. QED
    BY <1>1, <2>1, <2>2, ToldWhenTaken
<1>3. HardwareIsTold' /\ OneRefresh' /\ AddIsOfDisk'
  BY <1>1 DEF HardwareIsTold, OneRefresh, AddIsOfDisk, Within, Emitting
<1>4. queue' \in Seq(UdevEvent)
  BY <1>1
<1>. QED
  BY <1>2, <1>3, <1>4 DEF QueueInv, UdevEvent

(* What an idle goroutine waits for is still in the queue, but for what    *)
(* the first event told.                                                   *)
LEMMA StillTold ==
    ASSUME QueueInv, NEW kind, NEW p, Took(kind, p), NEW q \in present \ known, Queued(kind, p) # Queued("add", q)
    PROVE  ToldAfter(0, q)'
<1>1. queue \in Seq(UdevEvent) /\ queue # <<>> /\ queue' = Tail(queue) /\ Me.pc = "idle"
      /\ queue[1] = Queued(kind, p)
  BY DEF Took, QueueInv, UdevEvent
<1>2. ToldAfter(0, q)
  BY <1>1 DEF QueueInv, PluggedIsComing, Coming, Releasing, Within, Emitting
<1>3. ToldAfter(0 + 1, q)
  <2>1. PICK j \in DOMAIN queue : j > 0 /\ queue[j] = Queued("add", q)
    BY <1>2 DEF ToldAfter
  <2>2. j # 1 /\ j \in Nat
    BY <1>1, <2>1
  <2>3. j > 0 + 1
    BY <2>1, <2>2
  <2>. QED
    BY <2>1, <2>3 DEF ToldAfter
<1>. QED
  BY <1>1, <1>3, ToldWhenTaken

LEMMA UdevEventsQueue ==
    ASSUME Setting, StartupInv, QueueInv, NEW p \in Partitions,
           UdevAddDisk(p) \/ UdevRemoveDisk(p) \/ UdevAdd(p) \/ UdevRemove(p)
    PROVE  QueueInv'
<1>1. CASE UdevAddDisk(p)
  <2>1. Took("addDisk", p) /\ Me'.pc = "refresh"
    BY <1>1, UdevAddDiskStep DEF Begun, Fields
  <2>2. PluggedIsComing'
    BY <2>1 DEF PluggedIsComing, Coming
  <2>. QED
    BY <2>1, <2>2, TakenQueue
<1>2. CASE UdevRemoveDisk(p)
  <2>1. Took("removeDisk", p) /\ Me'.pc = "idle"
    BY <1>2, UdevRemoveDiskStep DEF Took
  <2>2. /\ queue \in Seq(UdevEvent) /\ queue # <<>> /\ queue' = Tail(queue) /\ present' = present
        /\ queue[1] = Queued("removeDisk", p)
    BY <2>1 DEF Took, QueueInv, UdevEvent
  <2>3. 1 \in DOMAIN queue /\ queue[1].kind = "removeDisk"
    BY <2>2 DEF Queued
  <2>4. \A q \in present : ToldAfter(0 + 1, q)
    BY <2>3 DEF QueueInv, BackIsTold
  <2>5. \A q \in present : ToldAfter(0, q)'
    BY <2>2, <2>4, ToldWhenTaken
  <2>6. PluggedIsComing'
    BY <2>2, <2>5 DEF PluggedIsComing, Coming
  <2>. QED
    BY <2>1, <2>6, TakenQueue
<1>3. CASE UdevAdd(p)
  <2>1. /\ Took("add", p) /\ UNCHANGED <<present, known>>
        /\ Me'.pc = "add" /\ Me'.on = p /\ ~Me'.handled
    BY <1>3, UdevAddStep DEF Took, Begun, Fields
  <2>2. PluggedIsComing'
    <3>. SUFFICES ASSUME NEW q \in present \ known PROVE Coming(q)'
      BY <2>1 DEF PluggedIsComing
    <3>1. CASE q = p
      BY <2>1, <3>1 DEF Coming, Within
    <3>2. CASE q # p
      <4>1. ToldAfter(0, q)'
        BY <2>1, <3>2, StillTold DEF Queued
      <4>. QED
        BY <4>1 DEF Coming
    <3>. QED
      BY <3>1, <3>2
  <2>. QED
    BY <2>1, <2>2, TakenQueue
<1>4. CASE UdevRemove(p)
  <2>1. /\ Took("remove", p) /\ UNCHANGED <<present, known>>
        /\ Me'.pc \in {"remove", "refresh"} /\ Me'.job = "remove"
    BY <1>4, UdevRemoveStep DEF Took, Begun, Fields
  <2>2. PluggedIsComing'
    BY <2>1 DEF PluggedIsComing, Coming, Releasing
  <2>. QED
    BY <2>1, <2>2, TakenQueue
<1>. QED
  BY <1>1, <1>2, <1>3, <1>4

LEMMA RetryQueue ==
    ASSUME Setting, StartupInv, Loops, QueueInv, RetryMount \/ RetriedAll
    PROVE  QueueInv'
<1>1. Me.pc = "add" /\ UNCHANGED <<present, queue, known, flight>> /\ flight = None /\ Me \in Acting
  BY RetryMountStep, RetriedAllStep, Basics DEF QueueInv, OneRefresh, Within, Handling, Emitting
<1>2. CASE RetryMount
  <2>1. PICK x, md :
          /\ x \in Me.left
          /\ md = [cache[Me.on][x] EXCEPT !.part = Me.on]
          /\ IF cache[Me.on][x] # None /\ cache[Me.on][x].startup /\ ~cache[Me.on][x].mounted
             THEN Me'.pc = "mount" /\ Me'.back = "add" /\ Me'.md = md
             ELSE Me'.pc = "add"
          /\ Me'.job = Me.job /\ Me'.on = Me.on /\ Me'.handled = Me.handled
    BY <1>2, RetryMountStep DEF Fields
  <2>2. Me'.pc = "mount" => Me'.back = "add" /\ Me'.md.part = Me.on
    <3>1. CASE cache[Me.on][x] # None /\ cache[Me.on][x].startup /\ ~cache[Me.on][x].mounted
      <4>1. cache[Me.on][x] \in MountPoint
        BY <1>1, <2>1, <3>1 DEF Loops, Acting, StartupInv, Typed
      <4>2. md.part = Me.on
        BY <2>1, <4>1 DEF MountPoint
      <4>. QED
        BY <2>1, <3>1, <4>2
    <3>2. CASE ~(cache[Me.on][x] # None /\ cache[Me.on][x].startup /\ ~cache[Me.on][x].mounted)
      BY <2>1, <3>2
    <3>. QED
      BY <3>1, <3>2
  <2>3. Me'.pc \in {"mount", "add"}
    BY <2>1
  <2>4. HardwareIsTold' /\ OneRefresh' /\ AddIsOfDisk'
    BY <1>1, <2>1, <2>2, <2>3 DEF HardwareIsTold, OneRefresh, AddIsOfDisk, Within
  <2>5. \A p \in present \ known : Coming(p) => Coming(p)'
    BY <1>1, <2>1, <2>2, <2>3, SameTold DEF Coming, Releasing, Within, Emitting
  <2>. QED
    BY <1>1, <2>4, <2>5, QueueKept
<1>3. CASE RetriedAll
  <2>1. Me'.pc = IF Me.handled THEN "idle" ELSE "refresh"
    BY <1>3, RetriedAllStep DEF Moves, Fields, Resting
  <2>2. HardwareIsTold' /\ OneRefresh' /\ AddIsOfDisk'
    BY <1>1, <2>1 DEF HardwareIsTold, OneRefresh, AddIsOfDisk, Within, Emitting
  <2>3. \A p \in present \ known : Coming(p) => Coming(p)'
    BY <1>1, <2>1, SameTold DEF Coming, Releasing, Within, Emitting
  <2>. QED
    BY <1>1, <2>2, <2>3, QueueKept
<1>. QED
  BY <1>2, <1>3

LEMMA ReleaseQueue ==
    ASSUME Setting, StartupInv, Loops, QueueInv, ReleaseMount \/ ReleasedAll
    PROVE  QueueInv'
<1>1. Me.pc = "remove" /\ Me.job = "remove" /\ UNCHANGED <<present, queue, flight>> /\ flight = None
  BY ReleaseMountStep, ReleasedAllStep DEF Loops, QueueInv, OneRefresh, Within, Handling, Emitting
<1>2. \/ known' = known /\ Me'.pc \in {"unmount", "remove"} /\ Me'.job = "remove"
      \/ Me'.pc = "refresh"
  BY <1>1, ReleaseMountStep, ReleasedAllStep DEF Moves, Fields
<1>3. HardwareIsTold' /\ OneRefresh' /\ AddIsOfDisk'
  BY <1>1, <1>2 DEF HardwareIsTold, OneRefresh, AddIsOfDisk, Within, Emitting
<1>4. PluggedIsComing'
  BY <1>1, <1>2 DEF PluggedIsComing, Coming, Releasing
<1>5. BackIsTold'
  BY <1>1, SameTold DEF QueueInv, BackIsTold
<1>. QED
  BY <1>1, <1>3, <1>4, <1>5 DEF QueueInv

(* One event or two at the end of the queue.                               *)
LEMMA OneAppended ==
    ASSUME NEW q \in Seq(UdevEvent), NEW e \in UdevEvent
    PROVE  /\ q \o <<e>> \in Seq(UdevEvent) /\ DOMAIN (q \o <<e>>) = 1 .. Len(q) + 1
           /\ Len(q \o <<e>>) = Len(q) + 1 /\ DOMAIN q = 1 .. Len(q) /\ Len(q) \in Nat
           /\ (q \o <<e>>)[Len(q) + 1] = e /\ \A i \in DOMAIN q : (q \o <<e>>)[i] = q[i]
OBVIOUS

LEMMA TwoAppended ==
    ASSUME NEW q \in Seq(UdevEvent), NEW e \in UdevEvent, NEW f \in UdevEvent, NEW r, r = q \o <<e>> \o <<f>>
    PROVE  /\ r \in Seq(UdevEvent) /\ DOMAIN r = 1 .. Len(q) + 2 /\ DOMAIN q = 1 .. Len(q) /\ Len(q) \in Nat
           /\ r[Len(q) + 1] = e /\ r[Len(q) + 2] = f /\ \A i \in DOMAIN q : r[i] = q[i]
<1>. DEFINE s == q \o <<e>>
<1>1. /\ s \in Seq(UdevEvent) /\ DOMAIN s = 1 .. Len(q) + 1 /\ Len(s) = Len(q) + 1
      /\ DOMAIN q = 1 .. Len(q) /\ Len(q) \in Nat /\ s[Len(q) + 1] = e /\ \A i \in DOMAIN q : s[i] = q[i]
  BY OneAppended
<1>. HIDE DEF s
<1>2. /\ r \in Seq(UdevEvent) /\ DOMAIN r = 1 .. Len(s) + 1
      /\ r[Len(s) + 1] = f /\ \A i \in DOMAIN s : r[i] = s[i]
  <2>1. r = s \o <<f>>
    BY DEF s
  <2>. QED
    BY <1>1, <2>1, OneAppended
<1>. QED
  BY <1>1, <1>2

LEMMA PlugQueue ==
    ASSUME Setting, StartupInv, QueueInv, NEW p \in Partitions, Plug(p)
    PROVE  QueueInv'
<1>1. present' = present \cup {p} /\ UNCHANGED <<known, flight, act>>
  BY DEF Plug, mapVars
<1>2. Queued("add", p) \in UdevEvent /\ Queued("addDisk", p) \in UdevEvent /\ queue \in Seq(UdevEvent)
  BY DEF Queued, UdevEvent, QueueInv
<1>3. \/ queue' = queue \o <<Queued("add", p)>>
      \/ queue' = queue \o <<Queued("addDisk", p)>> \o <<Queued("add", p)>>
  <2>. DEFINE first == present \cap PartsOf(DiskOf[p]) = {}
  <2>1. queue' = queue \o (IF first THEN <<Queued("addDisk", p)>> ELSE <<>>) \o <<Queued("add", p)>>
    BY DEF Plug, Queued
  <2>. HIDE DEF first
  <2>2. CASE first
    BY <2>1, <2>2
  <2>3. CASE ~first
    <3>1. queue \o <<>> = queue
      BY <1>2
    <3>. QED
      BY <2>1, <2>3, <3>1
  <2>. QED
    BY <2>2, <2>3
<1>4. /\ queue' \in Seq(UdevEvent)
      /\ \A j \in DOMAIN queue : j \in DOMAIN queue' /\ queue'[j] = queue[j]
      /\ \E k \in DOMAIN queue' : queue'[k] = Queued("add", p) /\ \A i \in DOMAIN queue \cup {0} : k > i
      /\ \A i \in DOMAIN queue' : (i \in DOMAIN queue /\ queue'[i] = queue[i]) \/ queue'[i].kind # "removeDisk"
  <2>. DEFINE n == Len(queue)
  <2>1. CASE queue' = queue \o <<Queued("add", p)>>
    <3>1. /\ queue' \in Seq(UdevEvent) /\ DOMAIN queue' = 1 .. n + 1 /\ DOMAIN queue = 1 .. n /\ n \in Nat
          /\ queue'[n + 1] = Queued("add", p) /\ \A i \in DOMAIN queue : queue'[i] = queue[i]
      BY <1>2, <2>1, OneAppended
    <3>2. queue'[n + 1].kind # "removeDisk" /\ n + 1 \in DOMAIN queue' /\ \A i \in DOMAIN queue \cup {0} : n + 1 > i
      BY <3>1 DEF Queued
    <3>. HIDE DEF n
    <3>. QED
      BY <3>1, <3>2
  <2>2. CASE queue' = queue \o <<Queued("addDisk", p)>> \o <<Queued("add", p)>>
    <3>1. /\ queue' \in Seq(UdevEvent) /\ DOMAIN queue' = 1 .. n + 2 /\ DOMAIN queue = 1 .. n /\ n \in Nat
          /\ queue'[n + 1] = Queued("addDisk", p) /\ queue'[n + 2] = Queued("add", p)
          /\ \A i \in DOMAIN queue : queue'[i] = queue[i]
      BY <1>2, <2>2, TwoAppended
    <3>2. /\ queue'[n + 1].kind # "removeDisk" /\ queue'[n + 2].kind # "removeDisk" /\ n + 2 \in DOMAIN queue'
          /\ \A i \in DOMAIN queue \cup {0} : n + 2 > i
      BY <3>1 DEF Queued
    <3>. HIDE DEF n
    <3>. QED
      BY <3>1, <3>2
  <2>. QED
    BY <1>3, <2>1, <2>2
<1>5. \A i \in DOMAIN queue \cup {0} : ToldAfter(i, p)'
  BY <1>4 DEF ToldAfter
<1>6. \A i, q : ToldAfter(i, q) => ToldAfter(i, q)'
  BY <1>4, ToldWhenAppended
<1>7. Me' = Me
  BY <1>1 DEF Me
<1>8. PluggedIsComing'
  <2>. SUFFICES ASSUME NEW q \in (present \cup {p}) \ known PROVE Coming(q)'
    BY <1>1 DEF PluggedIsComing
  <2>1. CASE q = p
    BY <1>5, <2>1 DEF Coming
  <2>2. CASE q # p
    BY <1>6, <1>7, <2>2 DEF QueueInv, PluggedIsComing, Coming, Releasing, Within
  <2>. QED
    BY <2>1, <2>2
<1>9. BackIsTold'
  <2>. SUFFICES ASSUME NEW i \in DOMAIN queue', queue'[i].kind = "removeDisk", NEW q \in present \cup {p}
                PROVE  ToldAfter(i, q)'
    BY <1>1 DEF BackIsTold
  <2>. QED
    BY <1>4, <1>5, <1>6 DEF QueueInv, BackIsTold
<1>10. HardwareIsTold'
  BY <1>1, <1>5, <1>6, <1>7 DEF QueueInv, HardwareIsTold
<1>11. OneRefresh' /\ AddIsOfDisk'
  BY <1>1, <1>7 DEF QueueInv, OneRefresh, AddIsOfDisk, Within
<1>. QED
  BY <1>4, <1>8, <1>9, <1>10, <1>11 DEF QueueInv, UdevEvent

(* On one disk, the disk goes when nothing is left on it.                  *)
LEMMA UnplugQueue ==
    ASSUME Setting, StartupInv, QueueInv, NEW p \in Partitions, Unplug(p)
    PROVE  QueueInv'
<1>1. present' = present \ {p} /\ UNCHANGED <<known, flight, act>>
  BY DEF Unplug, mapVars
<1>2. Queued("remove", p) \in UdevEvent /\ Queued("removeDisk", p) \in UdevEvent /\ queue \in Seq(UdevEvent)
  BY DEF Queued, UdevEvent, QueueInv
<1>3. \/ queue' = queue \o <<Queued("remove", p)>>
      \/ queue' = queue \o <<Queued("remove", p)>> \o <<Queued("removeDisk", p)>> /\ present' = {}
  <2>. DEFINE last == present \cap PartsOf(DiskOf[p]) = {p}
  <2>1. last => present' = {}
    BY <1>1, VolumesAssumption DEF PartsOf, Setting, OneDisk, StartupInv, Typed
  <2>2. queue' = queue \o <<Queued("remove", p)>> \o (IF last THEN <<Queued("removeDisk", p)>> ELSE <<>>)
    BY DEF Unplug, Queued
  <2>. HIDE DEF last
  <2>3. CASE last
    BY <2>1, <2>2, <2>3
  <2>4. CASE ~last
    <3>1. queue \o <<Queued("remove", p)>> \o <<>> = queue \o <<Queued("remove", p)>>
      BY <1>2
    <3>. QED
      BY <2>2, <2>4, <3>1
  <2>. QED
    BY <2>3, <2>4
<1>4. /\ queue' \in Seq(UdevEvent)
      /\ \A j \in DOMAIN queue : j \in DOMAIN queue' /\ queue'[j] = queue[j]
      /\ \A i \in DOMAIN queue' :
            (i \in DOMAIN queue /\ queue'[i] = queue[i]) \/ queue'[i].kind # "removeDisk" \/ present' = {}
  <2>. DEFINE n == Len(queue)
  <2>1. CASE queue' = queue \o <<Queued("remove", p)>>
    <3>1. /\ queue' \in Seq(UdevEvent) /\ DOMAIN queue' = 1 .. n + 1 /\ DOMAIN queue = 1 .. n /\ n \in Nat
          /\ queue'[n + 1] = Queued("remove", p) /\ \A i \in DOMAIN queue : queue'[i] = queue[i]
      BY <1>2, <2>1, OneAppended
    <3>2. queue'[n + 1].kind # "removeDisk"
      BY <3>1 DEF Queued
    <3>. HIDE DEF n
    <3>. QED
      BY <3>1, <3>2
  <2>2. CASE queue' = queue \o <<Queued("remove", p)>> \o <<Queued("removeDisk", p)>> /\ present' = {}
    <3>1. /\ queue' \in Seq(UdevEvent) /\ DOMAIN queue' = 1 .. n + 2 /\ DOMAIN queue = 1 .. n /\ n \in Nat
          /\ \A i \in DOMAIN queue : queue'[i] = queue[i]
      BY <1>2, <2>2, TwoAppended
    <3>. HIDE DEF n
    <3>. QED
      BY <2>2, <3>1
  <2>. QED
    BY <1>3, <2>1, <2>2
<1>5. \A i, q : ToldAfter(i, q) => ToldAfter(i, q)'
  BY <1>4, ToldWhenAppended
<1>6. Me' = Me
  BY <1>1 DEF Me
<1>7. PluggedIsComing'
  BY <1>1, <1>5, <1>6 DEF QueueInv, PluggedIsComing, Coming, Releasing, Within
<1>8. BackIsTold'
  <2>. SUFFICES ASSUME NEW i \in DOMAIN queue', queue'[i].kind = "removeDisk", NEW q \in present'
                PROVE  ToldAfter(i, q)'
    BY DEF BackIsTold
  <2>. QED
    BY <1>1, <1>4, <1>5 DEF QueueInv, BackIsTold
<1>9. HardwareIsTold'
  BY <1>1, <1>5, <1>6 DEF QueueInv, HardwareIsTold
<1>10. OneRefresh' /\ AddIsOfDisk'
  BY <1>1, <1>6 DEF QueueInv, OneRefresh, AddIsOfDisk, Within
<1>. QED
  BY <1>4, <1>7, <1>8, <1>9, <1>10 DEF QueueInv, UdevEvent

LEMMA QueueNext ==
    ASSUME Setting, StartupInv, Loops, KernelInv, QueueInv, [Next]_vars
    PROVE  QueueInv'
<1>1. CASE UNCHANGED vars
  <2>1. UNCHANGED <<present, queue, known, flight>> /\ Me' = Me
    BY <1>1 DEF vars, hostVars, mapVars, Me
  <2>2. HardwareIsTold' /\ OneRefresh' /\ AddIsOfDisk'
    BY <2>1, SameTold DEF QueueInv, HardwareIsTold, OneRefresh, AddIsOfDisk, Within
  <2>3. \A p \in present \ known : Coming(p) => Coming(p)'
    BY <2>1, SameTold DEF Coming, Releasing, Within
  <2>. QED
    BY <2>1, <2>2, <2>3, QueueKept
<1>2. CASE \E p \in Partitions : Plug(p) \/ Unplug(p)
  BY <1>2, PlugQueue, UnplugQueue
<1>3. CASE Work(Udev)
  BY <1>3, RefreshBeginQueue, RefreshDiskQueue, RefreshEndQueue, NextDiskQueue, HandlingStepsQueue,
     EventQueue, UnmountQueue, RequestQueue DEF Work
<1>4. CASE Request(Udev)
  BY <1>4, RequestQueue
<1>5. CASE UdevStep
  BY <1>5, UdevEventsQueue, RetryQueue, ReleaseQueue DEF UdevStep
<1>. QED
  BY <1>1, <1>2, <1>3, <1>4, <1>5 DEF Next, Setting, OneActor

-----------------------------------------------------------------------------
(* What is to be mounted at startup is mounted, shown or still to be tried. *)
LEMMA StartsKept ==
    ASSUME StartsOrShown, UNCHANGED <<rows, mounted>>, known' \subseteq known, shown \subseteq shown',
           \A x \in Paths : Starts(x) => Starts(x)' \/ mounted[x] # None \/ x \in shown'
    PROVE  StartsOrShown'
BY DEF StartsOrShown

LEMMA NothingStarts ==
    ASSUME Me.pc \in {"idle", "refresh", "disk", "unmount", "unmounted", "add", "remove"}
    PROVE  \A x \in Paths : ~Starts(x)
BY DEF Starts, Within, Handling, Emitting

(* A step from a place where nothing waits to be tried.                    *)
LEMMA QuietStarts ==
    ASSUME StartsInv, UNCHANGED <<rows, mounted, shown>>, known' \subseteq known,
           Me.pc \in {"idle", "refresh", "disk", "unmount", "unmounted", "add", "remove"},
           Me'.pc # "event", ~Within({"procfs", "seen"})', Me'.job = "patch" /\ Me'.pc = "refresh" => known' = {}
    PROVE  StartsInv'
<1>1. StartsOrShown'
  BY NothingStarts, StartsKept DEF StartsInv
<1>. QED
  BY <1>1 DEF StartsInv, PatchIsFirst, FreshIsSeen, EventIsTrue

LEMMA RefreshDiskStarts ==
    ASSUME Setting, StartupInv, RefreshDisk(Udev), StartsInv
    PROVE  StartsInv'
<1>1. known' = Me.hw /\ Me'.pc = "part" /\ Me'.parts = Me.hw
  BY RefreshDiskReplaces DEF Fields
<1>2. StartsOrShown'
  BY <1>1 DEF StartsOrShown, Starts, Within, Handling
<1>. QED
  BY <1>1, <1>2 DEF StartsInv, PatchIsFirst, FreshIsSeen, EventIsTrue, Within, Emitting

LEMMA LoadRowsStarts ==
    ASSUME Setting, StartupInv, KernelInv, LoadRows(Udev), StartsInv
    PROVE  StartsInv'
<1>1. Me.pc = "part" /\ UNCHANGED <<mounted, known, rows, shown>> /\ Me \in Acting /\ Within(Handling)
  BY LoadRowsStep, Basics DEF Within, Handling
<1>2. PICK p \in Me.parts :
        /\ cache' = [cache EXCEPT ![p] = [x \in Paths |->
                IF p \in known /\ rows[x] # None /\ rows[x].part = p
                THEN NewMountPoint(x, p, rows[x].startup, mounted[x] # None, FALSE)
                ELSE @[x]]]
        /\ Me'.pc = "procfs" /\ Me'.on = p /\ Me'.parts = Me.parts \ {p}
  BY LoadRowsStep DEF Fields
<1>3. \A x \in Paths : Starts(x) => Starts(x)'
  BY <1>1, <1>2 DEF Starts, Within, Handling, Emitting
<1>4. FreshIsSeen'
  <2>. SUFFICES ASSUME NEW x \in Paths, cache'[p][x] # None PROVE ~cache'[p][x].fresh
    BY <1>2 DEF FreshIsSeen
  <2>1. p \in Partitions /\ cache[p][x] = None
    BY <1>1, <1>2 DEF Acting, KernelInv, Untouched
  <2>2. cache'[p][x] = IF p \in known /\ rows[x] # None /\ rows[x].part = p
                       THEN NewMountPoint(x, p, rows[x].startup, mounted[x] # None, FALSE)
                       ELSE None
    BY <1>2, <2>1 DEF StartupInv, Typed
  <2>. QED
    BY <2>2 DEF NewMountPoint
<1>5. StartsOrShown'
  BY <1>1, <1>3, StartsKept DEF StartsInv
<1>. QED
  BY <1>2, <1>4, <1>5 DEF StartsInv, PatchIsFirst, EventIsTrue

LEMMA NextDiskStarts ==
    ASSUME Setting, StartupInv, NextDisk(Udev), StartsInv
    PROVE  StartsInv'
<1>1. Me.pc = "part" /\ Me.parts = {} /\ UNCHANGED <<mounted, known, rows, shown>> /\ Me'.pc = "disk"
  BY NextDiskStep DEF Moves, Fields
<1>2. \A x \in Paths : ~Starts(x)
  BY <1>1 DEF Starts, Within, Emitting
<1>3. StartsOrShown'
  BY <1>1, <1>2, StartsKept DEF StartsInv
<1>. QED
  BY <1>1, <1>3 DEF StartsInv, PatchIsFirst, FreshIsSeen, EventIsTrue, Within, Emitting

LEMMA ReadMountsStarts ==
    ASSUME Setting, StartupInv, ReadMounts(Udev), StartsInv
    PROVE  StartsInv'
<1>1. /\ Me.pc = "procfs" /\ UNCHANGED <<mounted, known, rows, shown, cache>> /\ Me'.pc = "seen"
      /\ Me'.on = Me.on /\ Me'.parts = Me.parts
  BY ReadMountsStep DEF Fields
<1>2. \A x \in Paths : Starts(x) => Starts(x)'
  BY <1>1 DEF Starts, Within, Handling, Emitting
<1>3. StartsOrShown'
  BY <1>1, <1>2, StartsKept DEF StartsInv
<1>. QED
  BY <1>1, <1>3 DEF StartsInv, PatchIsFirst, FreshIsSeen, EventIsTrue, Within

LEMMA SeeMountStarts ==
    ASSUME Setting, StartupInv, KernelInv, SeeMount(Udev), StartsInv
    PROVE  StartsInv'
<1>0. PICK p : p = Me.on
  OBVIOUS
<1>. DEFINE old(x) == cache[p][x]
            found(x) == p \in known /\ old(x) # None
            ours(x) == Me.seen[x] = p
            mp(x) == IF found(x) THEN [old(x) EXCEPT !.mounted = TRUE, !.fresh = TRUE]
                                 ELSE NewMountPoint(x, p, FALSE, TRUE, TRUE)
            emits(x) == p \in known /\ (IF found(x) THEN ~old(x).mounted ELSE ours(x))
<1>1. Me.pc = "seen" /\ UNCHANGED <<mounted, known, rows, shown>> /\ Me \in Acting /\ Within({"seen"})
  BY SeeMountStep, Basics DEF Within
<1>2. PICK x \in Me.left :
         /\ IF found(x) \/ ours(x) THEN Put(p, mp(x)) ELSE UNCHANGED cache
         /\ IF emits(x)
            THEN Fields(Me', "event", Me.job, Me.on, mp(x), Me.patch, Me.auto, "seen", Me.handled,
                        Me.hw, Me.disks, Me.parts, Me.seen, Me.left \ {x}, Me.stale)
            ELSE Fields(Me', "seen", Me.job, Me.on, Me.md, Me.patch, Me.auto, Me.back,
                        Me.handled, Me.hw, Me.disks, Me.parts, Me.seen, Me.left \ {x}, Me.stale)
  BY <1>0, SeeMountStep
<1>3. x \in Paths /\ p \in Partitions /\ mounted[x] # None
  <2>1. x \in Paths /\ p \in Partitions
    BY <1>0, <1>1, <1>2 DEF Acting, StartupInv, Refreshing, Loaded, Within
  <2>. QED
    BY <1>1, <1>2, <2>1 DEF KernelInv, Looking
<1>4. mp(x).path = x /\ mp(x).mounted
  BY <1>3 DEF NewMountPoint, MountPoint, StartupInv, Typed, EntriesAreHome
<1>. HIDE DEF mp
<1>5. /\ Me'.on = p /\ Me'.parts = Me.parts
      /\ (Me'.pc = "event" /\ Me'.back = "seen" /\ Me'.md = mp(x)) \/ Me'.pc = "seen"
  BY <1>0, <1>2 DEF Fields
<1>6. \A y \in Paths : cache'[p][y] = cache[p][y] \/ cache'[p][y].mounted
  <2>1. cache' = cache \/ cache' = [cache EXCEPT ![p][x] = mp(x)]
    BY <1>2, <1>4 DEF Put
  <2>. QED
    BY <1>3, <1>4, <2>1 DEF StartupInv, Typed
<1>7. FreshIsSeen'
  BY <1>0, <1>1, <1>5, <1>6 DEF StartsInv, FreshIsSeen, Within
<1>8. \A y \in Paths : Starts(y) => Starts(y)'
  BY <1>0, <1>1, <1>5 DEF Starts, Within, Handling, Emitting
<1>9. StartsOrShown'
  BY <1>1, <1>8, StartsKept DEF StartsInv
<1>10. EventIsTrue'
  BY <1>1, <1>3, <1>4, <1>5 DEF EventIsTrue
<1>. QED
  BY <1>5, <1>7, <1>9, <1>10 DEF StartsInv, PatchIsFirst

LEMMA SeenAllStarts ==
    ASSUME Setting, StartupInv, KernelInv, SeenAll(Udev), StartsInv
    PROVE  StartsInv'
<1>. DEFINE stale == {s \in known \X MountPoint :
                        /\ cache[s[1]][s[2].path] = s[2]
                        /\ ~s[2].fresh /\ (s[2].mounted \/ s[2].startup)}
<1>1. /\ Me.pc = "seen" /\ UNCHANGED <<mounted, known, rows, shown, cache>> /\ Me'.pc = "sweep"
      /\ Me'.parts = Me.parts /\ Me'.stale = stale
  BY SeenAllStep DEF Fields
<1>2. \A x \in Paths : rows[x] # None /\ rows[x].startup /\ Home[x] = Me.on /\ Me.on \in known
                       => mounted[x] # None \/ \E s \in stale : s[2].path = x
  <2>. SUFFICES ASSUME NEW x \in Paths, rows[x] # None, rows[x].startup, Home[x] = Me.on, Me.on \in known,
                       mounted[x] = None
                PROVE  \E s \in stale : s[2].path = x
    OBVIOUS
  <2>. DEFINE mp == cache[Me.on][x]
  <2>1. Me.on \in Partitions /\ mp # None
    BY <1>1 DEF StartupInv, Refreshing, Loaded, Within
  <2>2. mp \in MountPoint /\ mp.path = x /\ mp.startup
    BY <1>1, <2>1 DEF StartupInv, Typed, EntriesAreHome, EntriesAreAsked, Waits, RowsAreHome
  <2>3. ~mp.mounted
    BY <1>1, <2>1, VolumesAssumption DEF KernelInv, NoGhost, Marked, Within, Emitting
  <2>4. ~mp.fresh
    BY <1>1, <2>1, <2>3 DEF StartsInv, FreshIsSeen, Within
  <2>5. <<Me.on, mp>> \in stale
    BY <2>1, <2>2, <2>4
  <2>. QED
    BY <2>2, <2>5
<1>. HIDE DEF stale
<1>3. StartsOrShown'
  <2>. SUFFICES ASSUME NEW x \in Paths, rows[x] # None, rows[x].startup, Home[x] \in known
                PROVE  mounted[x] # None \/ x \in shown \/ Starts(x)'
    BY <1>1 DEF StartsOrShown
  <2>1. mounted[x] # None \/ x \in shown \/ Home[x] \in Me.parts \/ Home[x] = Me.on
    BY <1>1 DEF StartsInv, StartsOrShown, Starts, Within, Emitting
  <2>. QED
    BY <1>1, <1>2, <2>1 DEF Starts, Within, Handling
<1>. QED
  BY <1>1, <1>3 DEF StartsInv, PatchIsFirst, FreshIsSeen, EventIsTrue, Within, Emitting

LEMMA SweepStarts ==
    ASSUME Setting, StartupInv, KernelInv, Sweep(Udev), StartsInv
    PROVE  StartsInv'
<1>1. Me.pc = "sweep" /\ UNCHANGED <<mounted, known, rows, shown>> /\ Me \in Acting /\ Within({"sweep"})
  BY SweepStep, Basics DEF Within
<1>2. PICK s, mp :
         /\ s \in Me.stale
         /\ mp = [s[2] EXCEPT !.mounted = FALSE, !.fresh = TRUE]
         /\ IF Me.on \in known
            THEN Me'.pc = "event" /\ Me'.back = "sweep" /\ Me'.md = mp
            ELSE Me'.pc = "sweep"
         /\ Me'.parts = Me.parts /\ Me'.stale = Me.stale \ {s}
  BY SweepStep DEF Fields
<1>3. s[2] \in MountPoint /\ s[2].part = Me.on /\ OfHome(s[2]) /\ s[2].startup = asked[s[2].path]
  BY <1>1, <1>2 DEF Acting, StartupInv, Refreshing, Swept
<1>4. mp.path = s[2].path /\ mp.startup = asked[s[2].path] /\ ~mp.mounted /\ Home[s[2].path] = Me.on
  BY <1>2, <1>3 DEF MountPoint, OfHome
<1>5. StartsOrShown'
  <2>. SUFFICES ASSUME NEW x \in Paths, rows[x] # None, rows[x].startup, Home[x] \in known
                PROVE  mounted[x] # None \/ x \in shown \/ Starts(x)'
    BY <1>1 DEF StartsOrShown
  <2>1. mounted[x] # None \/ x \in shown \/ Home[x] \in Me.parts \/ \E t \in Me.stale : t[2].path = x
    BY <1>1 DEF StartsInv, StartsOrShown, Starts, Within, Emitting
  <2>2. CASE s[2].path = x
    BY <1>2, <1>4, <2>2 DEF Starts, StartupInv, RowsAreHome
  <2>3. CASE s[2].path # x /\ \E t \in Me.stale : t[2].path = x
    BY <1>2, <2>3 DEF Starts, Within, Emitting
  <2>4. CASE Home[x] \in Me.parts
    BY <1>2, <2>4 DEF Starts, Within, Handling, Emitting
  <2>. QED
    BY <2>1, <2>2, <2>3, <2>4
<1>6. Me'.pc = "sweep" \/ (Me'.pc = "event" /\ Me'.back = "sweep" /\ ~Me'.md.mounted)
  BY <1>2, <1>4
<1>. QED
  BY <1>5, <1>6 DEF StartsInv, PatchIsFirst, FreshIsSeen, EventIsTrue, Within, Emitting

LEMMA SweptAllStarts ==
    ASSUME Setting, StartupInv, SweptAll(Udev), StartsInv
    PROVE  StartsInv'
<1>1. /\ Me.pc = "sweep" /\ Me.stale = {} /\ UNCHANGED <<mounted, known, rows, shown>>
      /\ Me'.pc = "part" /\ Me'.parts = Me.parts
  BY SweptAllStep DEF Moves, Fields
<1>2. \A x \in Paths : Starts(x) => Starts(x)'
  BY <1>1 DEF Starts, Within, Handling, Emitting
<1>3. StartsOrShown'
  BY <1>1, <1>2, StartsKept DEF StartsInv
<1>. QED
  BY <1>1, <1>3 DEF StartsInv, PatchIsFirst, FreshIsSeen, EventIsTrue, Within, Emitting

(* An event or a mount is over, and it has left nothing to be tried at its *)
(* own path.                                                               *)
LEMMA ReturnStarts ==
    ASSUME Setting, StartupInv, KernelInv, StartsInv, GoesBackTo, UNCHANGED <<mounted, known, cache>>,
           Me.pc \in {"event", "mount"}, shown \subseteq shown',
           \A x \in Paths : x = Me.md.path \/ rows'[x] = rows[x],
           \/ mounted[Me.md.path] # None
           \/ Me.pc = "event" /\ ~rows'[Me.md.path].startup
           \/ Me.pc = "mount" /\ rows' = rows /\ (Me.auto => Me.md.path \in shown')
    PROVE  StartsInv'
<1>1. Me.back \in Backs
  BY Basics DEF Acting
<1>2. IF Me.back = "idle" THEN Me'.pc = "idle" ELSE
      /\ Me'.pc = Me.back /\ Me'.on = Me.on /\ Me'.back = Me.back /\ Me'.parts = Me.parts /\ Me'.stale = Me.stale
  BY DEF GoesBackTo, Moves, Fields, Resting
<1>3. Me.pc = "mount" => Me.back # "seen"
  BY DEF KernelInv, Looking, Within, Emitting
<1>4. FreshIsSeen'
  BY <1>1, <1>2 DEF StartsInv, FreshIsSeen, Within, Emitting, Backs
<1>5. EventIsTrue' /\ PatchIsFirst'
  BY <1>1, <1>2 DEF EventIsTrue, PatchIsFirst, Backs
<1>6. StartsOrShown'
  <2>. SUFFICES ASSUME NEW x \in Paths, rows'[x] # None, rows'[x].startup, Home[x] \in known
                PROVE  mounted[x] # None \/ x \in shown' \/ Starts(x)'
    BY DEF StartsOrShown
  <2>1. CASE Me.pc = "event" /\ x = Me.md.path
    BY <2>1
  <2>2. CASE Me.pc = "event" /\ x # Me.md.path
    <3>1. mounted[x] # None \/ x \in shown \/ Starts(x)
      BY <2>2 DEF StartsInv, StartsOrShown
    <3>. QED
      BY <1>1, <1>2, <2>2, <3>1 DEF Starts, Within, Handling, Emitting, Backs
  <2>3. CASE Me.pc = "mount" /\ rows'[x] = rows[x]
    <3>1. mounted[x] # None \/ x \in shown \/ Starts(x)
      BY <2>3 DEF StartsInv, StartsOrShown
    <3>. QED
      BY <1>1, <1>2, <1>3, <2>3, <3>1 DEF Starts, Within, Handling, Emitting, Backs
  <2>4. CASE Me.pc = "mount" /\ rows'[x] # rows[x]
    BY <2>4
  <2>. QED
    BY <2>1, <2>2, <2>3, <2>4
<1>. QED
  BY <1>4, <1>5, <1>6 DEF StartsInv

LEMMA HeldMountPoint ==
    ASSUME Setting, StartupInv, Me.pc \in Emitting \cup {"unmount", "unmounted"}
    PROVE  Me.md \in MountPoint /\ Me.md.path \in Paths
BY Basics DEF StartupInv, Holding, Acting, MountPoint

LEMMA EventStarts ==
    ASSUME Setting, StartupInv, KernelInv, StartsInv, Event(Udev)
    PROVE  StartsInv'
<1>1. /\ Me.pc = "event" /\ UNCHANGED <<mounted, shown, known, cache>>
      /\ rows' = [rows EXCEPT ![Me.md.path] = [part |-> Me.md.part, startup |-> Me.md.startup]]
  BY EventStep
<1>2. Me.md \in MountPoint /\ Me.md.path \in Paths
  BY <1>1, HeldMountPoint DEF Emitting
<1>3. /\ rows'[Me.md.path].startup = Me.md.startup
      /\ \A x \in Paths : x # Me.md.path => rows'[x] = rows[x]
  BY <1>1, <1>2 DEF StartupInv, Typed
<1>4. CASE ~(Me.md.startup /\ ~Me.md.mounted)
  <2>1. GoesBackTo
    BY <1>4, EventStep
  <2>2. mounted[Me.md.path] # None \/ ~rows'[Me.md.path].startup
    BY <1>1, <1>3, <1>4 DEF StartsInv, EventIsTrue
  <2>. QED
    BY <1>1, <1>3, <2>1, <2>2, ReturnStarts
<1>5. CASE Me.md.startup /\ ~Me.md.mounted
  <2>1. /\ Me'.pc = "mount" /\ Me'.on = Me.on /\ Me'.md = Me.md /\ Me'.back = Me.back /\ Me'.auto
        /\ Me'.parts = Me.parts /\ Me'.stale = Me.stale
    BY <1>5, EventStep DEF Fields
  <2>2. Me.back # "seen"
    BY <1>1, <1>5 DEF KernelInv, Looking, Within, Emitting
  <2>3. StartsOrShown'
    <3>. SUFFICES ASSUME NEW x \in Paths, rows'[x] # None, rows'[x].startup, Home[x] \in known
                  PROVE  mounted[x] # None \/ x \in shown \/ Starts(x)'
      BY <1>1 DEF StartsOrShown
    <3>1. CASE x = Me.md.path
      BY <2>1, <3>1 DEF Starts
    <3>2. CASE x # Me.md.path
      <4>1. mounted[x] # None \/ x \in shown \/ Starts(x)
        BY <1>3, <3>2 DEF StartsInv, StartsOrShown
      <4>. QED
        BY <1>1, <2>1, <2>2, <3>2, <4>1 DEF Starts, Within, Handling, Emitting
    <3>. QED
      BY <3>1, <3>2
  <2>4. FreshIsSeen' /\ EventIsTrue' /\ PatchIsFirst'
    BY <1>1, <2>1, <2>2, Basics DEF FreshIsSeen, EventIsTrue, PatchIsFirst, Within, Emitting, StartsInv, Acting, Backs
  <2>. QED
    BY <2>3, <2>4 DEF StartsInv
<1>. QED
  BY <1>4, <1>5

LEMMA MountEndsStarts ==
    ASSUME Setting, StartupInv, KernelInv, StartsInv, AlreadyMounted(Udev) \/ MountFails(Udev)
    PROVE  StartsInv'
<1>1. CASE AlreadyMounted(Udev)
  BY <1>1, AlreadyMountedStep, ReturnStarts
<1>2. CASE MountFails(Udev)
  <2>1. shown \subseteq shown' /\ (Me.auto => Me.md.path \in shown')
    BY <1>2, MountFailsStep
  <2>. QED
    BY <1>2, <2>1, MountFailsStep, ReturnStarts
<1>. QED
  BY <1>1, <1>2

LEMMA MountPartitionStarts ==
    ASSUME Setting, StartupInv, KernelInv, StartsInv, MountPartition(Udev)
    PROVE  StartsInv'
<1>1. /\ Me.pc = "mount" /\ UNCHANGED <<rows, shown, known, cache>>
      /\ mounted' = [mounted EXCEPT ![Me.md.path] = Me.md.part]
      /\ Me'.pc = "mounted" /\ Me'.on = Me.on /\ Me'.md = Me.md /\ Me'.back = Me.back
      /\ Me'.parts = Me.parts /\ Me'.stale = Me.stale
  BY MountPartitionStep DEF Moves, Fields
<1>2. Me.md.path \in Paths /\ Me.back # "seen" /\ Me.md.part # None
  <2>1. Me.md \in MountPoint /\ OfHome(Me.md) /\ Me.md.path \in Paths
    BY <1>1, HeldMountPoint DEF StartupInv, Holding, Emitting
  <2>. QED
    BY <1>1, <2>1, VolumesAssumption DEF OfHome, KernelInv, Looking, Within, Emitting
<1>3. mounted'[Me.md.path] # None /\ \A x \in Paths : x # Me.md.path => mounted'[x] = mounted[x]
  BY <1>1, <1>2 DEF StartupInv, Typed
<1>4. StartsOrShown'
  <2>. SUFFICES ASSUME NEW x \in Paths, x # Me.md.path, rows[x] # None, rows[x].startup, Home[x] \in known
                PROVE  mounted[x] # None \/ x \in shown \/ Starts(x)'
    BY <1>1, <1>3 DEF StartsOrShown
  <2>1. mounted[x] # None \/ x \in shown \/ Starts(x)
    BY DEF StartsInv, StartsOrShown
  <2>. QED
    BY <1>1, <1>2, <2>1 DEF Starts, Within, Handling, Emitting
<1>5. FreshIsSeen' /\ EventIsTrue' /\ PatchIsFirst'
  BY <1>1, <1>2, Basics DEF FreshIsSeen, EventIsTrue, PatchIsFirst, Within, Emitting, Acting, Backs
<1>. QED
  BY <1>4, <1>5 DEF StartsInv

(* A notification is shown of a path, and one of a device is dismissed.    *)
PathsAreNotDevices == Paths \cap Partitions = {}

LEMMA MountedStarts ==
    ASSUME Setting, PathsAreNotDevices, StartupInv, KernelInv, StartsInv, Mounted(Udev)
    PROVE  StartsInv'
<1>1. Me.pc = "mounted" /\ Me.md.part \in known
  BY MountedIsKnown, Basics DEF Mounted, At
<1>2. PICK md :
        /\ md = [Me.md EXCEPT !.mounted = TRUE] /\ UNCHANGED <<mounted, known, rows>>
        /\ shown' = shown \ {Me.md.part}
        /\ Me'.pc = "event" /\ Me'.on = Me.on /\ Me'.md = md /\ Me'.back = Me.back
        /\ Me'.parts = Me.parts /\ Me'.stale = Me.stale
  BY <1>1, MountedStep DEF Fields
<1>3. md.path = Me.md.path /\ Me.back # "seen" /\ Me.md.part \in Partitions
  BY <1>1, <1>2, HeldMountPoint DEF MountPoint, Emitting, KernelInv, Looking, Within, StartupInv, Typed
<1>4. mounted[Me.md.path] # None
  BY <1>1, <1>3, VolumesAssumption DEF KernelInv, MountIsOwn
<1>5. StartsOrShown'
  <2>. SUFFICES ASSUME NEW x \in Paths, rows[x] # None, rows[x].startup, Home[x] \in known, mounted[x] = None
                PROVE  x \in shown' \/ Starts(x)'
    BY <1>2 DEF StartsOrShown
  <2>1. x \in shown \/ Starts(x)
    BY DEF StartsInv, StartsOrShown
  <2>2. x \in shown => x \in shown'
    BY <1>2, <1>3 DEF PathsAreNotDevices
  <2>. QED
    BY <1>1, <1>2, <1>3, <2>1, <2>2 DEF Starts, Within, Handling, Emitting
<1>6. FreshIsSeen' /\ PatchIsFirst'
  BY <1>2, <1>3, Basics DEF FreshIsSeen, PatchIsFirst, Within, Emitting, Acting, Backs
<1>7. EventIsTrue'
  BY <1>2, <1>3, <1>4 DEF EventIsTrue
<1>. QED
  BY <1>5, <1>6, <1>7 DEF StartsInv

LEMMA UnmountEndsStarts ==
    ASSUME StartsInv, UNCHANGED <<rows, mounted, shown, known>>, Me.pc \in {"unmount", "unmounted"}, UnmountEnds
    PROVE  StartsInv'
<1>1. Me'.pc \in {"idle", "remove"}
  BY DEF UnmountEnds, Moves, Fields, Resting
<1>2. ~Within({"procfs", "seen"})'
  BY <1>1 DEF Within, Emitting
<1>. QED
  BY <1>1, <1>2, QuietStarts

LEMMA UnmountPartitionStarts ==
    ASSUME Setting, StartupInv, KernelInv, StartsInv, UnmountPartition(Udev)
    PROVE  StartsInv'
<1>1. /\ Me.pc = "unmount" /\ UNCHANGED <<rows, shown, known, cache>> /\ mounted[Me.md.path] # None
      /\ mounted' = [mounted EXCEPT ![Me.md.path] = None]
  BY UnmountPartitionStep
<1>2. Me.md \in MountPoint /\ Me.md.path \in Paths
  BY <1>1, HeldMountPoint
<1>3. mounted'[Me.md.path] = None /\ \A x \in Paths : x # Me.md.path => mounted'[x] = mounted[x]
  BY <1>1, <1>2 DEF StartupInv, Typed
<1>4. \A x \in Paths : x # Me.md.path /\ rows[x] # None /\ rows[x].startup /\ Home[x] \in known
                       => mounted'[x] # None \/ x \in shown
  BY <1>1, <1>3, NothingStarts DEF StartsInv, StartsOrShown
<1>5. CASE Me.md.part = None
  <2>1. Me'.pc \in {"idle", "remove"}
    BY <1>5, UnmountPartitionStep DEF UnmountEnds, Moves, Fields, Resting
  <2>2. Home[Me.md.path] \notin known
    <3>1. MapIsRight
      BY <1>1, CalmIsPlain, PlainIsRight
    <3>2. \A p \in Partitions : ~Marked(p, Me.md.path)
      BY <1>1, <1>5 DEF KernelInv, Unmounting, Marked
    <3>3. mounted[Me.md.path] = Home[Me.md.path]
      BY <1>1, <1>2 DEF StartupInv, MountsAreHome
    <3>. QED
      BY <1>2, <3>1, <3>2, <3>3, VolumesAssumption DEF MapIsRight
  <2>3. StartsOrShown'
    BY <1>1, <1>4, <2>2 DEF StartsOrShown
  <2>. QED
    BY <2>1, <2>3 DEF StartsInv, PatchIsFirst, FreshIsSeen, EventIsTrue, Within, Emitting
<1>6. CASE Me.md.part # None
  <2>1. PICK md : md = [Me.md EXCEPT !.mounted = FALSE] /\ Tells(md, "unmounted")
    BY <1>6, UnmountPartitionStep
  <2>2. md.path = Me.md.path /\ md.startup = Me.md.startup /\ ~md.mounted
    BY <1>2, <2>1 DEF MountPoint
  <2>3. Me'.pc = "event" /\ Me'.back = "unmounted" /\ Me'.md = md
    BY <2>1 DEF Tells, Fields
  <2>4. rows[Me.md.path] # None /\ rows[Me.md.path].startup => Me.md.startup
    <3>1. Me.job # "mount" /\ Me.md.startup = asked[Me.md.path]
      BY <1>1, <1>6 DEF StartupInv, Holding, Mounting, Emitting
    <3>. QED
      BY <1>2, <3>1 DEF StartupInv, RowsAreHome
  <2>5. StartsOrShown'
    <3>. SUFFICES ASSUME NEW x \in Paths, rows[x] # None, rows[x].startup, Home[x] \in known
                  PROVE  mounted'[x] # None \/ x \in shown \/ Starts(x)'
      BY <1>1 DEF StartsOrShown
    <3>1. CASE x = Me.md.path
      BY <2>2, <2>3, <2>4, <3>1 DEF Starts
    <3>. QED
      BY <1>4, <3>1
  <2>. QED
    BY <2>2, <2>3, <2>5 DEF StartsInv, PatchIsFirst, FreshIsSeen, EventIsTrue, Within, Emitting
<1>. QED
  BY <1>5, <1>6

LEMMA PatchedStarts ==
    ASSUME Setting, StartupInv, KernelInv, StartsInv, Patched(Udev)
    PROVE  StartsInv'
<1>1. PICK md :
        /\ Me.pc = "patched" /\ UNCHANGED <<mounted, known, rows, shown>>
        /\ md = [Me.patch EXCEPT !.mounted = mounted[Me.patch.path] # None]
        /\ Me'.pc = "event" /\ Me'.back = "idle" /\ Me'.md = md
  BY PatchedStep DEF Tells, Fields
<1>. DEFINE isMounted == mounted[Me.patch.path] # None
<1>2. Me.patch \in MountPoint /\ Me.patch.path \in Paths /\ Me.patch.startup = asked[Me.patch.path]
  <2>1. Me.patch # None /\ Me.patch.startup = asked[Me.patch.path] /\ Me.patch \in MountPoint \cup {None}
    BY <1>1, Basics DEF StartupInv, Patching, Acting
  <2>. QED
    BY <2>1 DEF MountPoint
<1>3. md.path = Me.patch.path /\ md.startup = Me.patch.startup /\ md.mounted = isMounted
  BY <1>1, <1>2 DEF MountPoint
<1>4. StartsOrShown'
  <2>. SUFFICES ASSUME NEW x \in Paths, rows[x] # None, rows[x].startup, Home[x] \in known
                PROVE  mounted[x] # None \/ x \in shown \/ Starts(x)'
    BY <1>1 DEF StartsOrShown
  <2>1. CASE x = Me.patch.path /\ mounted[x] = None
    <3>1. md.startup /\ ~md.mounted
      BY <1>2, <1>3, <2>1 DEF StartupInv, RowsAreHome
    <3>. QED
      BY <1>1, <1>3, <2>1, <3>1 DEF Starts
  <2>2. CASE x # Me.patch.path
    BY <1>1, <2>2 DEF StartsInv, StartsOrShown, Starts, Within, Handling, Emitting
  <2>. QED
    BY <2>1, <2>2
<1>5. EventIsTrue'
  BY <1>1, <1>3 DEF EventIsTrue
<1>. QED
  BY <1>1, <1>4, <1>5 DEF StartsInv, PatchIsFirst, FreshIsSeen, Within, Emitting

LEMMA RefreshEdgesStarts ==
    ASSUME Setting, StartupInv, OneRefresh, StartsInv, RefreshBegin(Udev) \/ RefreshEnd(Udev)
    PROVE  StartsInv'
<1>1. CASE RefreshBegin(Udev)
  <2>1. Me.pc = "refresh" /\ flight = None
    BY <1>1, Basics DEF RefreshBegin, At, OneRefresh, Within, Handling, Emitting
  <2>2. UNCHANGED <<mounted, rows, shown, known>> /\ Me'.pc = "disk"
    BY <1>1, <2>1, RefreshBeginStep DEF Fields
  <2>. QED
    BY <2>1, <2>2, QuietStarts DEF Within, Emitting
<1>2. CASE RefreshEnd(Udev)
  <2>1. Me.pc = "disk" /\ UNCHANGED <<mounted, rows, shown, known>> /\ Me'.pc \in {"patched", "idle"}
    BY <1>2, RefreshEndStep DEF Moves, Fields, Resting
  <2>. QED
    BY <2>1, QuietStarts DEF Within, Emitting
<1>. QED
  BY <1>1, <1>2

(* The row that a change of settings turns on is the one that it will tell *)
(* of.                                                                     *)
LEMMA RequestPatchStarts ==
    ASSUME Setting, StartupInv, StartsInv, RequestPatch(Udev)
    PROVE  StartsInv'
<1>1. Me.pc = "idle" /\ UNCHANGED <<mounted, shown, known, cache>>
  BY RequestPatchStep
<1>2. PICK x, startup, patch :
        /\ x \in Paths /\ startup \in BOOLEAN
        /\ rows[x] # None /\ rows' = [rows EXCEPT ![x].startup = startup]
        /\ patch = NewMountPoint(x, rows[x].part, startup, FALSE, FALSE)
        /\ Begun(IF known = {} THEN "refresh" ELSE "patched", "patch", None, None, patch, {})
  BY RequestPatchStep
<1>3. /\ Me'.pc = IF known = {} THEN "refresh" ELSE "patched"
      /\ Me'.job = "patch" /\ Me'.patch = patch /\ Me'.back = "idle" /\ patch.path = x
  BY <1>2 DEF Begun, Fields, NewMountPoint
<1>4. StartsOrShown'
  <2>. SUFFICES ASSUME NEW y \in Paths, rows'[y] # None, rows'[y].startup, Home[y] \in known
                PROVE  mounted[y] # None \/ y \in shown \/ Starts(y)'
    BY <1>1 DEF StartsOrShown
  <2>1. CASE y = x
    BY <1>3, <2>1 DEF Starts
  <2>2. CASE y # x
    <3>1. rows'[y] = rows[y]
      BY <1>2, <2>2 DEF StartupInv, Typed
    <3>. QED
      BY <1>1, <3>1, NothingStarts DEF StartsInv, StartsOrShown
  <2>. QED
    BY <2>1, <2>2
<1>. QED
  BY <1>1, <1>3, <1>4 DEF StartsInv, PatchIsFirst, FreshIsSeen, EventIsTrue, Within, Emitting

LEMMA RequestsStarts ==
    ASSUME Setting, StartupInv, StartsInv, Request(Udev)
    PROVE  StartsInv'
<1>1. CASE RequestMount(Udev)
  <2>1. /\ Me.pc = "idle" /\ UNCHANGED <<mounted, rows, shown, known>>
        /\ Me'.pc = "mount" /\ Me'.back = "idle"
    BY <1>1, RequestMountStep DEF Begun, Fields
  <2>. QED
    BY <2>1, QuietStarts DEF Within
<1>2. CASE RequestUnmount(Udev)
  <2>1. /\ Me.pc = "idle" /\ UNCHANGED <<mounted, rows, shown, known>>
        /\ Me'.pc = "unmount" /\ Me'.back = "idle"
    BY <1>2, RequestUnmountStep DEF Begun, Fields
  <2>. QED
    BY <2>1, QuietStarts DEF Within
<1>3. CASE RequestPatch(Udev)
  BY <1>3, RequestPatchStarts
<1>4. CASE Refresh(Udev)
  <2>1. /\ Me.pc = "idle" /\ UNCHANGED <<mounted, rows, shown, known>>
        /\ Me'.pc = "refresh" /\ Me'.job = "start" /\ Me'.back = "idle"
    BY <1>4, RefreshStep DEF Begun, Fields
  <2>. QED
    BY <2>1, QuietStarts DEF Within
<1>. QED
  BY <1>1, <1>2, <1>3, <1>4 DEF Request

LEMMA UdevEventsStarts ==
    ASSUME Setting, StartupInv, StartsInv, NEW p \in Partitions,
           UdevAddDisk(p) \/ UdevRemoveDisk(p) \/ UdevAdd(p) \/ UdevRemove(p)
    PROVE  StartsInv'
<1>1. CASE UdevAddDisk(p)
  <2>1. /\ Me.pc = "idle" /\ UNCHANGED <<mounted, rows, shown, known>>
        /\ Me'.pc = "refresh" /\ Me'.job = "start" /\ Me'.back = "idle"
    BY <1>1, UdevAddDiskStep DEF Took, Begun, Fields
  <2>. QED
    BY <2>1, QuietStarts DEF Within
<1>2. CASE UdevRemoveDisk(p)
  <2>1. Me.pc = "idle" /\ UNCHANGED <<mounted, rows, shown>> /\ known' \subseteq known /\ Me' = Me
    BY <1>2, UdevRemoveDiskStep DEF Took, Replace
  <2>. QED
    BY <2>1, QuietStarts DEF Within, Emitting
<1>3. CASE UdevAdd(p)
  <2>1. /\ Me.pc = "idle" /\ UNCHANGED <<mounted, rows, shown, known>>
        /\ Me'.pc = "add" /\ Me'.job = "add" /\ Me'.back = "idle"
    BY <1>3, UdevAddStep DEF Took, Begun, Fields
  <2>. QED
    BY <2>1, QuietStarts DEF Within
<1>4. CASE UdevRemove(p)
  <2>1. /\ Me.pc = "idle" /\ UNCHANGED <<mounted, rows, shown, known>>
        /\ Me'.pc \in {"remove", "refresh"} /\ Me'.job = "remove" /\ Me'.back = "idle"
    BY <1>4, UdevRemoveStep DEF Took, Begun, Fields
  <2>. QED
    BY <2>1, QuietStarts DEF Within
<1>. QED
  BY <1>1, <1>2, <1>3, <1>4

LEMMA RetryStarts ==
    ASSUME Setting, StartupInv, Loops, StartsInv, RetryMount \/ RetriedAll
    PROVE  StartsInv'
<1>1. Me.pc = "add" /\ UNCHANGED <<mounted, rows, shown, known>>
  BY RetryMountStep, RetriedAllStep
<1>2. Me.job = "add"
  BY <1>1 DEF Loops
<1>3. CASE RetryMount
  <2>1. (Me'.pc = "mount" /\ Me'.back = "add") \/ Me'.pc = "add"
    BY <1>3, RetryMountStep DEF Fields
  <2>. QED
    BY <1>1, <2>1, QuietStarts DEF Within, Emitting
<1>4. CASE RetriedAll
  <2>1. Me'.pc = "idle" \/ (Me'.pc = "refresh" /\ Me'.job = "add")
    BY <1>2, <1>4, RetriedAllStep DEF Moves, Fields, Resting
  <2>. QED
    BY <1>1, <2>1, QuietStarts DEF Within, Emitting
<1>. QED
  BY <1>3, <1>4

LEMMA ReleaseStarts ==
    ASSUME Setting, StartupInv, Loops, StartsInv, ReleaseMount \/ ReleasedAll
    PROVE  StartsInv'
<1>1. Me.pc = "remove" /\ UNCHANGED <<mounted, rows, shown>>
  BY ReleaseMountStep, ReleasedAllStep
<1>2. Me.job = "remove"
  BY <1>1 DEF Loops
<1>3. CASE ReleaseMount
  <2>1. Me'.pc \in {"unmount", "remove"} /\ known' = known
    BY <1>3, ReleaseMountStep DEF Fields
  <2>. QED
    BY <1>1, <2>1, QuietStarts DEF Within, Emitting
<1>4. CASE ReleasedAll
  <2>1. Me'.pc = "refresh" /\ Me'.job = "remove" /\ known' \subseteq known
    BY <1>2, <1>4, ReleasedAllStep DEF Moves, Fields, Replace
  <2>. QED
    BY <1>1, <2>1, QuietStarts DEF Within, Emitting
<1>. QED
  BY <1>3, <1>4

LEMMA UnmountsStarts ==
    ASSUME Setting, StartupInv, StartsInv, UnmountFails(Udev) \/ Unmounted(Udev)
    PROVE  StartsInv'
<1>1. /\ UNCHANGED <<rows, mounted, shown, known>> /\ Me.pc \in {"unmount", "unmounted"}
      /\ UnmountEnds
  BY UnmountFailsStep, UnmountedStep
<1>. QED
  BY <1>1, UnmountEndsStarts

LEMMA StartsNext ==
    ASSUME Setting, PathsAreNotDevices, StartupInv, Loops, KernelInv, OneRefresh, StartsInv, [Next]_vars
    PROVE  StartsInv'
<1>1. CASE UNCHANGED <<mounted, rows, shown, known, cache, act>>
  <2>1. Me' = Me
    BY <1>1 DEF Me
  <2>2. StartsOrShown'
    BY <1>1, <2>1, StartsKept DEF StartsInv, Starts, Within
  <2>. QED
    BY <1>1, <2>1, <2>2 DEF StartsInv, PatchIsFirst, FreshIsSeen, EventIsTrue, Within
<1>2. CASE UNCHANGED vars
  BY <1>1, <1>2 DEF vars, hostVars, mapVars
<1>3. CASE \E p \in Partitions : Plug(p) \/ Unplug(p)
  BY <1>1, <1>3 DEF Plug, Unplug, mapVars
<1>4. CASE Work(Udev)
  BY <1>4, RefreshEdgesStarts, RefreshDiskStarts, LoadRowsStarts, NextDiskStarts, ReadMountsStarts,
     SeeMountStarts, SeenAllStarts, SweepStarts, SweptAllStarts, EventStarts, MountEndsStarts,
     MountPartitionStarts, MountedStarts, UnmountsStarts, UnmountPartitionStarts, PatchedStarts DEF Work
<1>5. CASE Request(Udev)
  BY <1>5, RequestsStarts
<1>6. CASE UdevStep
  BY <1>6, UdevEventsStarts, RetryStarts, ReleaseStarts DEF UdevStep
<1>. QED
  BY <1>2, <1>3, <1>4, <1>5, <1>6 DEF Next, Setting, OneActor

-----------------------------------------------------------------------------
(* The map stays true, and what should be mounted is tried                 *)

LEMMA BeginsEmpty ==
    ASSUME Setting, Init
    PROVE  /\ Me.pc = "refresh" /\ Me.job = "start" /\ queue = <<>> /\ flight = None /\ known = {}
           /\ \A p \in Partitions, x \in Paths : cache[p][x] = None
<1>1. act[Udev] = [Resting EXCEPT !.pc = "refresh", !.job = "start"]
  BY DEF Init, Setting, OneActor
<1>2. Me.pc = "refresh" /\ Me.job = "start"
  BY <1>1 DEF Me, Resting
<1>. QED
  BY <1>2 DEF Init, NoMountPoints

LEMMA MapInit == ASSUME Setting, Init PROVE KernelInv /\ QueueInv /\ StartsInv
<1>. USE BeginsEmpty
<1>1. NoGhost /\ NoMiss
  BY DEF NoGhost, NoMiss, Marked
<1>2. MountIsOwn /\ HeldIsKnown /\ Unmounting /\ Looking /\ Sweeping /\ Untouched
  BY DEF MountIsOwn, HeldIsKnown, Unmounting, Looking, Sweeping, Untouched, Within, Handling, Emitting
<1>3. PluggedIsComing /\ BackIsTold /\ HardwareIsTold /\ OneRefresh /\ AddIsOfDisk
  BY DEF PluggedIsComing, BackIsTold, HardwareIsTold, OneRefresh, AddIsOfDisk, Coming, Within, Emitting
<1>4. queue \in Seq([kind : {"add", "remove", "addDisk", "removeDisk"}, part : Partitions])
  OBVIOUS
<1>5. StartsOrShown /\ PatchIsFirst /\ FreshIsSeen /\ EventIsTrue
  BY DEF StartsOrShown, PatchIsFirst, FreshIsSeen, EventIsTrue, Within, Emitting
<1>. QED
  BY <1>1, <1>2, <1>3, <1>4, <1>5 DEF KernelInv, QueueInv, StartsInv

MapInv == StartupInv /\ Loops /\ KernelInv /\ QueueInv

LEMMA MapNext == ASSUME Setting, MapInv, [Next]_vars PROVE MapInv'
<1>1. (StartupInv /\ Loops)'
  BY StartupNext DEF MapInv
<1>2. KernelInv'
  BY <1>1, KernelNext DEF MapInv, QueueInv
<1>3. QueueInv'
  BY QueueNext DEF MapInv
<1>. QED
  BY <1>1, <1>2, <1>3 DEF MapInv

LEMMA MapAlways == ASSUME Setting PROVE Spec => []MapInv
<1>1. Init => MapInv
  BY StartupInit, MapInit DEF MapInv
<1>2. MapInv /\ [Next]_vars => MapInv'
  BY MapNext
<1>. QED
  BY <1>1, <1>2, PTL DEF Spec

(* At rest every plugged partition is in the map.                          *)
LEMMA QuietKnows ==
    ASSUME Setting, MapInv, Quiet
    PROVE  Me.pc = "idle" /\ present \subseteq known
<1>1. Me.pc = "idle" /\ queue = <<>>
  BY Basics DEF Quiet, At, MapInv
<1>2. \A p : ~Coming(p)
  BY <1>1 DEF Coming, ToldAfter, Releasing, Within, Emitting
<1>. QED
  BY <1>1, <1>2 DEF MapInv, QueueInv, PluggedIsComing, StartupInv, Typed

(* When everything is handled, the entry of a plugged partition marks as   *)
(* mounted what the kernel has mounted, and nothing else: every mount and  *)
(* every unmount is told to the map before the goroutine rests, and every  *)
(* partition that is plugged in while it works is still to be told or      *)
(* found (handlePartitionEvent, the mount manager, the udev handlers).     *)
THEOREM MapStaysTrue == ASSUME Setting PROVE Spec => []MapIsKernel
<1>1. ASSUME MapInv PROVE MapIsKernel
  <2>. SUFFICES ASSUME Quiet, NEW x \in Paths, Home[x] \in present
                PROVE  (x \in Listed(Home[x]) /\ cache[Home[x]][x].mounted) <=> mounted[x] = Home[x]
    BY DEF MapIsKernel
  <2>1. MapIsRight
    BY <1>1, QuietKnows, CalmIsPlain, PlainIsRight DEF Calm, Outer, MapInv
  <2>2. Home[x] \in known /\ Home[x] \in Partitions
    BY <1>1, QuietKnows DEF MapInv, StartupInv, Typed
  <2>3. Marked(Home[x], x) <=> mounted[x] = Home[x]
    BY <2>1, <2>2 DEF MapIsRight
  <2>. QED
    BY <2>3 DEF Marked, Listed
<1>. QED
  BY <1>1, MapAlways, PTL

LEMMA StartsAlways == ASSUME Setting, PathsAreNotDevices PROVE Spec => [](MapInv /\ StartsInv)
<1>1. Init => StartsInv
  BY MapInit
<1>2. MapInv /\ StartsInv /\ [Next]_vars => StartsInv'
  BY StartsNext DEF MapInv, QueueInv
<1>. QED
  BY <1>1, <1>2, MapAlways, PTL DEF Spec

(* When everything is handled, a plugged volume that is to be mounted at   *)
(* startup is mounted, or its failure has been shown: from the moment its  *)
(* partition enters the map something is left to be done about it, the     *)
(* sweep, an event or a mount, until one of the two is true                *)
(* (handlePartitionEvent, handleMountPointEvent, MountVolume).             *)
THEOREM StartupIsTried == ASSUME Setting, PathsAreNotDevices PROVE Spec => []StartupIsMountedOrShown
<1>1. ASSUME MapInv, StartsInv PROVE StartupIsMountedOrShown
  <2>. SUFFICES ASSUME Quiet, NEW x \in Paths, rows[x] # None, rows[x].startup, rows[x].part \in present
                PROVE  mounted[x] # None \/ x \in shown
    BY DEF StartupIsMountedOrShown
  <2>1. Me.pc = "idle" /\ rows[x].part \in known
    BY <1>1, QuietKnows
  <2>2. rows[x].part = Home[x]
    BY <1>1 DEF MapInv, StartupInv, RowsAreHome
  <2>. QED
    BY <1>1, <2>1, <2>2, NothingStarts DEF StartsInv, StartsOrShown
<1>. QED
  BY <1>1, StartsAlways, PTL
=============================================================================
