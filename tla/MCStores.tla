------------------------------ MODULE MCStores ------------------------------
(***************************************************************************)
(* One run of TLC for six systems that share nothing: the volumes of one   *)
(* disk, the problems with two actors, failures and restarts, the problems *)
(* with one actor, all severities and a longer queue, the component in     *)
(* Home Assistant, the cache of the hardware, and the filesystem tools     *)
(* with theirs.  The first state says which of them a behaviour is of; the *)
(* others stay as they are, so that there are as many states as the six    *)
(* have together.                                                          *)
(***************************************************************************)
EXTENDS MCVolumes

CONSTANTS
    Clients, Overlap,                   \* of Problems, CustomComponent and FilesystemTools
    ProblemKeys, Severities, MaxRows, MaxQueue,
    Shown, MaxBacklog,                  \* of the problems with one actor
    Length, Manifest, Embedded, Cut, Channels, Develop, Initial, Requests, MaxRequests, MaxFailures,
    Others, Readers, MaxVersion, MaxCalls, MayFail,
    Filesystems, Labels, Failing, Trusted, MaxToolCalls

VARIABLES
    world,      \* the system of the behaviour
    pRows, nextId, pCache, ready, component, pQueue, pShown, tracked, pc, job, item, todo,
    channel, develop, dying, dir, files, loaded, restarting, connected, restartAsked, missing,
    cpc, op, want, next, linked, saw, verdict, requests, failures,
    host, events, hready, hcache, hflight, disks, hpc, answer, floor, least, calls,
    fs, damage, label, tmounted, tcache, unmounted, tpc, call, output, told, tcalls, damages, labels

problemVars ==
    <<pRows, nextId, pCache, ready, component, pQueue, pShown, tracked, pc, job, item, todo>>
componentVars ==
    <<channel, develop, dying, dir, files, loaded, restarting, connected, restartAsked, missing,
      cpc, op, want, next, linked, saw, verdict, requests, failures>>
hardwareVars ==
    <<host, events, hready, hcache, hflight, disks, hpc, answer, floor, least, calls>>
toolVars ==
    <<fs, damage, label, tmounted, tcache, unmounted, tpc, call, output, told, tcalls, damages, labels>>
storesVars == <<vars, problemVars, componentVars, hardwareVars, toolVars, world>>

(* Two actors and whatever fails.                                          *)
Two == INSTANCE Problems WITH
    rows <- pRows, cache <- pCache, queue <- pQueue, shown <- pShown, Keys <- ProblemKeys,
    Actors <- Clients, Ops <- {"upsert", "dismiss", "fix", "get"}, MayRestart <- TRUE

(* One actor, in the long run.                                             *)
One == INSTANCE Problems WITH
    rows <- pRows, cache <- pCache, queue <- pQueue, shown <- pShown, Keys <- ProblemKeys,
    Severities <- Shown, Ops <- {"upsert", "fix"}, MaxQueue <- MaxBacklog,
    MayFail <- FALSE, MayRestart <- FALSE

(* Requests, other than removals beside installations, and failures.       *)
C == INSTANCE CustomComponent WITH
    asked <- restartAsked, pc <- cpc, Callers <- Clients, Ops <- Requests

(* Udev events, a format and the starts of Home Assistant.                 *)
H == INSTANCE Hardware WITH ready <- hready, cache <- hcache, flight <- hflight, pc <- hpc

(* The adapters with their callers and with tools that may fail.           *)
F == INSTANCE FilesystemTools WITH
    mounted <- tmounted, cache <- tcache, pc <- tpc, answer <- output, calls <- tcalls,
    Callers <- Clients, MaxCalls <- MaxToolCalls

NoVolumes ==
    /\ present = {} /\ mounted = [x \in Paths |-> None] /\ queue = <<>>
    /\ rows = [x \in Paths |-> None] /\ shown = {}
    /\ known = {} /\ cache = [p \in Partitions |-> NoMountPoints] /\ flight = None
    /\ act = [a \in Actors |-> Resting] /\ asked = [x \in Paths |-> FALSE]

StoresInit ==
    /\ C!Init /\ H!Init /\ F!Init /\ label = CHOOSE l \in Labels : TRUE
    /\ \/ world = "volumes" /\ Init /\ One!Init /\ ~ready
       \/ world = "two" /\ Two!Init /\ NoVolumes
       \/ world = "one" /\ One!Init /\ NoVolumes
       \/ world \in {"component", "hardware", "tools"} /\ One!Init /\ ~ready /\ NoVolumes
    /\ world # "component" => channel = "release" /\ develop = 0 /\ ~dir
    /\ world # "hardware" => ~hready
    /\ world # "tools" => fs = "zfs"

(* Nothing more changes and no more requests come.                         *)
Rests ==
    \/ world = "component" /\ requests = MaxRequests /\ C!Quiet
    \/ world = "hardware" /\ host = MaxVersion /\ calls = MaxCalls /\ H!Quiet
    \/ world = "tools" /\ tcalls = MaxToolCalls /\ F!Quiet

StoresNext ==
    \/ world = "volumes" /\ Next /\ UNCHANGED <<problemVars, componentVars, hardwareVars, toolVars, world>>
    \/ world = "two" /\ Two!Next /\ UNCHANGED <<vars, componentVars, hardwareVars, toolVars, world>>
    \/ world = "one" /\ One!Next /\ UNCHANGED <<vars, componentVars, hardwareVars, toolVars, world>>
    \/ /\ world = "component" /\ C!Next
       /\ UNCHANGED <<vars, problemVars, hardwareVars, toolVars, world>>
    \/ /\ world = "hardware" /\ H!Next
       /\ UNCHANGED <<vars, problemVars, componentVars, toolVars, world>>
    \/ /\ world = "tools" /\ F!Next
       /\ UNCHANGED <<vars, problemVars, componentVars, hardwareVars, world>>
    \/ Rests /\ UNCHANGED storesVars

StoresSpec == StoresInit /\ [][StoresNext]_storesVars

(* The properties of Problems, CustomComponent, Hardware and               *)
(* FilesystemTools, in the systems they are about.                         *)
WellTyped ==
    CASE world = "volumes" -> TypeOK [] world = "two" -> Two!TypeOK [] world = "one" -> One!TypeOK
      [] world = "component" -> C!TypeOK [] world = "tools" -> F!TypeOK
      [] OTHER -> H!TypeOK
CacheIsStore == world = "two" => Two!CacheIsStore
FixedIsSilent == world = "one" => One!FixedIsSilent
LastRemoverGets == C!LastRemoverGets
RestartIsAsked == C!RestartIsAsked
MapNeverGoesBack == H!MapNeverGoesBack
AnswersAreTrue == F!AnswersAreTrue
ChecksAreTrue == F!ChecksAreTrue
=============================================================================
