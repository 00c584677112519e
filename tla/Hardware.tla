------------------------------ MODULE Hardware ------------------------------
(***************************************************************************)
(* HardwareService: the supervisor's answer about the disks, kept for half *)
(* an hour and invalidated whenever they may have changed, with those who  *)
(* ask for it.  VolumeService refreshes its disk map from it, one refresh  *)
(* at a time that others join; the handler of the spin-down only reads it. *)
(*                                                                         *)
(* The hardware is a version.  An answer takes long: after the supervisor  *)
(* each disk is asked for its S.M.A.R.T. and spin-down data.               *)
(***************************************************************************)
EXTENDS Naturals

CONSTANTS
    Udev,        \* the goroutine that takes the udev events
    Others,      \* goroutines that refresh: a format's end, Home Assistant's start, a request
    Readers,     \* requests that only read
    MaxVersion,  \* bound on the changes of the hardware
    MaxCalls,    \* bound on the calls of the others and the readers
    MayFail,     \* whether the supervisor may fail to answer
    None

Refreshers == {Udev} \cup Others
Callers    == Refreshers \cup Readers
Versions   == 0 .. MaxVersion

VARIABLES
    host,    \* the version of the hardware
    events,  \* udev events not yet handled
    ready,   \* HACoreReady
    cache,   \* the answer in the cache, or None
    flight,  \* who runs getVolumesData in the singleflight group, or None
    disks,   \* the answer that the disk map was filled from, or None
    pc,      \* where each caller is
    answer,  \* what it has been answered, or None
    floor,   \* history: the hardware at the last invalidation
    least,   \* history: the hardware at the last one before the caller's call
    calls

hostVars == <<host, events, ready>>
callVars == <<pc, answer, least>>
vars == <<hostVars, cache, flight, disks, callVars, floor, calls>>

TypeOK ==
    /\ host \in Versions /\ events \in Versions /\ ready \in BOOLEAN
    /\ cache \in Versions \cup {None} /\ disks \in Versions \cup {None}
    /\ flight \in Refreshers \cup {None}
    /\ pc \in [Callers -> {"idle", "invalidate", "refresh", "joined", "look", "ask", "store", "answered"}]
    /\ answer \in [Callers -> Versions \cup {None}]
    /\ floor \in Versions /\ least \in [Callers -> Versions]
    /\ calls \in 0 .. MaxCalls

Init ==
    /\ host = 0 /\ events = 0 /\ ready \in BOOLEAN
    /\ cache = None /\ flight = None /\ disks = None
    /\ pc = [c \in Callers |-> "idle"] /\ answer = [c \in Callers |-> None]
    /\ floor = 0 /\ least = [c \in Callers |-> 0] /\ calls = 0

Goto(c, from, to) == pc[c] = from /\ pc' = [pc EXCEPT ![c] = to]

-----------------------------------------------------------------------------
(* The host and Home Assistant *)

Change ==
    /\ host < MaxVersion
    /\ host' = host + 1 /\ events' = events + 1
    /\ UNCHANGED <<ready, cache, flight, disks, callVars, floor, calls>>

HomeAssistantStops ==
    /\ ready /\ ready' = FALSE
    /\ UNCHANGED <<host, events, cache, flight, disks, callVars, floor, calls>>

(* Its start has the cache invalidated and the map refreshed.              *)
HomeAssistantStarts(c) ==
    /\ ~ready /\ ready' = TRUE
    /\ calls < MaxCalls /\ calls' = calls + 1
    /\ Goto(c, "idle", "invalidate")
    /\ UNCHANGED <<host, events, cache, flight, disks, answer, least, floor>>

-----------------------------------------------------------------------------
(* VolumeService *)

(* Of a disk that appears, or of a partition that the map does not know or  *)
(* that goes.                                                              *)
OnUdevEvent ==
    /\ events > 0 /\ events' = events - 1
    /\ Goto(Udev, "idle", "invalidate")
    /\ UNCHANGED <<host, ready, cache, flight, disks, answer, least, floor, calls>>

OnFormatted(c) ==
    /\ calls < MaxCalls /\ calls' = calls + 1
    /\ Goto(c, "idle", "invalidate")
    /\ UNCHANGED <<hostVars, cache, flight, disks, answer, least, floor>>

(* A request for the volumes refreshes a map that is still empty.          *)
RequestVolumes(c) ==
    /\ disks = None
    /\ calls < MaxCalls /\ calls' = calls + 1
    /\ Goto(c, "idle", "refresh")
    /\ UNCHANGED <<hostVars, cache, flight, disks, answer, least, floor>>

InvalidateHardwareInfo(c) ==
    /\ Goto(c, "invalidate", "refresh")
    /\ cache' = None /\ floor' = host
    /\ UNCHANGED <<hostVars, flight, disks, answer, least, calls>>

(* Mutant of GetVolumesData: every caller refreshes on its own.            *)
GetVolumesDataAlone(c) ==
    /\ Goto(c, "refresh", "look") /\ flight' = None
    /\ UNCHANGED <<hostVars, cache, disks, answer, least, floor, calls>>

(* sfGroup.Do: whoever finds a refresh under way waits for its end.        *)
GetVolumesData(c) ==
    /\ IF flight = None THEN Goto(c, "refresh", "look") /\ flight' = c
                        ELSE Goto(c, "refresh", "joined") /\ UNCHANGED flight
    /\ UNCHANGED <<hostVars, cache, disks, answer, least, floor, calls>>

(* The disks of the answer enter the map; without one it stays as it is.   *)
RefreshEnds(c) ==
    /\ pc[c] = "answered" /\ flight' = None
    /\ disks' = IF answer[c] = None THEN disks ELSE answer[c]
    /\ pc' = [b \in Callers |-> IF b = c \/ pc[b] = "joined" THEN "idle" ELSE pc[b]]
    /\ answer' = [answer EXCEPT ![c] = None]
    /\ UNCHANGED <<hostVars, cache, least, floor, calls>>

-----------------------------------------------------------------------------
(* GetHardwareInfo *)

(* findDiskRotational of the spin-down's handler.                          *)
Read(c) ==
    /\ calls < MaxCalls /\ calls' = calls + 1
    /\ Goto(c, "idle", "look")
    /\ UNCHANGED <<hostVars, cache, flight, disks, answer, least, floor>>

ReadEnds(c) ==
    /\ Goto(c, "answered", "idle")
    /\ answer' = [answer EXCEPT ![c] = None]
    /\ UNCHANGED <<hostVars, cache, flight, disks, least, floor, calls>>

(* The cache, or nothing while Home Assistant is not ready.                *)
LookIntoCache(c) ==
    /\ Goto(c, "look", IF cache # None \/ ~ready THEN "answered" ELSE "ask")
    /\ answer' = [answer EXCEPT ![c] = cache]
    /\ least' = [least EXCEPT ![c] = floor]
    /\ UNCHANGED <<hostVars, cache, flight, disks, floor, calls>>

AskSupervisor(c) ==
    /\ Goto(c, "ask", "store")
    /\ answer' = [answer EXCEPT ![c] = host]
    /\ UNCHANGED <<hostVars, cache, flight, disks, least, floor, calls>>

AskFails(c) ==
    /\ MayFail
    /\ Goto(c, "ask", "answered")
    /\ UNCHANGED <<hostVars, cache, flight, disks, answer, least, floor, calls>>

StoreAnswer(c) ==
    /\ Goto(c, "store", "answered")
    /\ cache' = answer[c]
    /\ UNCHANGED <<hostVars, flight, disks, answer, least, floor, calls>>

(* Half an hour has passed.                                                *)
Expire ==
    /\ cache # None /\ cache' = None
    /\ UNCHANGED <<hostVars, flight, disks, callVars, floor, calls>>

-----------------------------------------------------------------------------
Next ==
    \/ Change \/ HomeAssistantStops \/ OnUdevEvent \/ Expire
    \/ \E c \in Others : HomeAssistantStarts(c) \/ OnFormatted(c) \/ RequestVolumes(c)
    \/ \E c \in Refreshers : InvalidateHardwareInfo(c) \/ GetVolumesData(c) \/ RefreshEnds(c)
    \/ \E c \in Readers : Read(c) \/ ReadEnds(c)
    \/ \E c \in Callers : LookIntoCache(c) \/ AskSupervisor(c) \/ AskFails(c) \/ StoreAnswer(c)

Spec == Init /\ [][Next]_vars

-----------------------------------------------------------------------------
(* Properties *)

Quiet == events = 0 /\ \A c \in Callers : pc[c] = "idle"

(* However the refreshes of a format, of Home Assistant's start and of the *)
(* udev events overlap, the disk map is never filled from older hardware   *)
(* than it has been: only one of them runs (volume_service.go              *)
(* getVolumesData).  Readers must be left out, see NextCallIsFresh.        *)
MapNeverGoesBack == [][disks # None => disks' # None /\ disks' >= disks]_vars

(* "InvalidateHardwareInfo clears the cached hardware info so the next     *)
(* call to GetHardwareInfo will fetch fresh data from the HA Supervisor":  *)
(* whoever asks after an invalidation gets nothing older than it.          *)
NextCallIsFresh ==
    \A c \in Callers : pc[c] = "answered" /\ answer[c] # None => answer[c] >= least[c]

(* Once every event is handled, the disk map has been filled from the      *)
(* hardware as it is, as long as Home Assistant answers                    *)
(* (volume_service_udev_linux.go udevEventHandler).                        *)
MapIsHardware ==
    Quiet /\ disks # None => disks = host
=============================================================================
