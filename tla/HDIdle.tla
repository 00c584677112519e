------------------------------- MODULE HDIdle -------------------------------
(***************************************************************************)
(* HDIdleService: disks that nobody reads or writes are spun down.         *)
(*                                                                         *)
(* A monitor looks at the counters of the disks every minute, or every     *)
(* five when all of them are down, and sends a disk down that has been     *)
(* quiet for longer than its idle time.  A change of a disk's setting      *)
(* saves its row and stops and starts the monitor, which reads the rows    *)
(* without the mutex.  The unit of time is the minute.                     *)
(***************************************************************************)
EXTENDS Naturals, FiniteSets

CONSTANTS
    None,
    Disks,
    Callers,    \* requests that change settings
    IdleTimes,  \* idle times; 0 is the setting NOENABLED
    MaxPuts,    \* bound on the changes
    MaxSleeps,  \* bound on the times the host sleeps
    MayFail     \* whether the rows may be unreadable

ASSUME IdleAssumption ==
    /\ IdleTimes \subseteq Nat /\ 0 \in IdleTimes
    /\ \E i \in IdleTimes : \A j \in IdleTimes : j <= i
    /\ None \notin Nat
ASSUME BoundAssumption == MaxPuts \in Nat /\ MaxSleeps \in Nat

Active  == 1  \* hdidleActiveInterval
Dormant == 5  \* hdidleDormantInterval

(* Times are told apart up to one above the longest idle time.             *)
Cap == 1 + (CHOOSE i \in IdleTimes : \A j \in IdleTimes : j <= i)
Later(age) == IF age < Cap THEN age + 1 ELSE Cap

VARIABLES
    row,      \* the idle time each disk's row has
    config,   \* s.config.Devices: the idle time each monitored disk has, else 0
    stopChan, \* s.stopChan: the number of the monitor it stops
    closed,   \* the stop channels that are closed
    started,  \* how many monitors there have been
    loops,    \* the monitors whose goroutine goes on, each with its timer
    stats,    \* s.diskStats: what is known of each disk, None before the first look
    slept,    \* the host has slept since the last look: lastNow is long ago
    rest,     \* how long each disk has been quiet in fact
    io,       \* its counters differ from those stored
    up,       \* the disk spins
    pc,       \* where each request is
    read,     \* the rows its convertConfig has read
    puts, sleeps

vars == <<row, config, stopChan, closed, started, loops, stats, slept, rest, io, up, pc, read, puts, sleeps>>

Rows == [Disks -> IdleTimes]
Stat == [quiet : 0 .. Cap, since : 0 .. Cap, down : BOOLEAN, idle : IdleTimes]

TypeOK ==
    /\ row \in Rows /\ config \in Rows
    /\ started \in Nat /\ closed \subseteq 1 .. started /\ stopChan \in {None} \cup (1 .. started)
    /\ loops \in [1 .. started -> 0 .. Dormant \cup {None}]
    /\ stats \in [Disks -> Stat \cup {None}]
    /\ slept \in BOOLEAN
    /\ rest \in [Disks -> 0 .. Cap] /\ io \in [Disks -> BOOLEAN] /\ up \in [Disks -> BOOLEAN]
    /\ pc \in [Callers -> {"idle", "stop", "start", "convert", "install"}]
    /\ read \in [Callers -> Rows]
    /\ puts \in 0 .. MaxPuts /\ sleeps \in 0 .. MaxSleeps

Off == [d \in Disks |-> 0]

(* Start has run once, with the rows there are.                            *)
Init ==
    /\ row \in Rows /\ config = row
    /\ started = IF row = Off THEN 0 ELSE 1
    /\ stopChan = (IF row = Off THEN None ELSE 1) /\ closed = {}
    /\ loops = [n \in 1 .. started |-> Active]
    /\ stats = [d \in Disks |-> None] /\ slept = FALSE
    /\ rest = [d \in Disks |-> 0] /\ io = [d \in Disks |-> FALSE] /\ up = [d \in Disks |-> TRUE]
    /\ pc = [c \in Callers |-> "idle"] /\ read = [c \in Callers |-> Off]
    /\ puts = 0 /\ sleeps = 0

-----------------------------------------------------------------------------
(* PUT of a disk's setting *)

Goto(c, from, to) == pc[c] = from /\ pc' = [pc EXCEPT ![c] = to]

SaveDeviceConfig(c, d, idle) ==
    /\ puts < MaxPuts
    /\ Goto(c, "idle", "stop")
    /\ row' = [row EXCEPT ![d] = idle]
    /\ puts' = puts + 1
    /\ UNCHANGED <<config, stopChan, closed, started, loops, stats, slept, rest, io, up, read, sleeps>>

(* Mutant of Stop: the channel is closed and kept.                         *)
StopKeeps(c) ==
    /\ Goto(c, "stop", "start")
    /\ closed' = closed \cup ({stopChan} \ {None})
    /\ UNCHANGED <<row, config, stopChan, started, loops, stats, slept, rest, io, up, read, puts, sleeps>>

Stop(c) ==
    /\ Goto(c, "stop", "start")
    /\ stopChan' = None /\ closed' = closed \cup ({stopChan} \ {None})
    /\ UNCHANGED <<row, config, started, loops, stats, slept, rest, io, up, read, puts, sleeps>>

(* Start: a monitor that runs is left as it is.                            *)
AlreadyRunning(c) ==
    /\ Goto(c, "start", "idle")
    /\ stopChan # None
    /\ UNCHANGED <<row, config, stopChan, closed, started, loops, stats, slept, rest, io, up, read, puts, sleeps>>

(* convertConfig reads the rows with the mutex released, and may fail.     *)
ConvertConfig(c) ==
    /\ Goto(c, "start", "install")
    /\ stopChan = None
    /\ read' = [read EXCEPT ![c] = row]
    /\ UNCHANGED <<row, config, stopChan, closed, started, loops, stats, slept, rest, io, up, puts, sleeps>>

ConvertFails(c) ==
    /\ Goto(c, "start", "idle")
    /\ stopChan = None /\ MayFail
    /\ UNCHANGED <<row, config, stopChan, closed, started, loops, stats, slept, rest, io, up, read, puts, sleeps>>

Launch(rows) ==
    /\ config' = rows
    /\ stats' = [d \in Disks |-> None]
    /\ IF rows = Off
       THEN UNCHANGED <<stopChan, started, loops, slept>>
       ELSE /\ started' = started + 1 /\ stopChan' = started'
            /\ loops' = [n \in 1 .. started' |-> IF n = started' THEN Active ELSE loops[n]]
            /\ slept' = FALSE

(* Mutant of Install: the monitor of another request is not looked for.    *)
InstallUnchecked(c) ==
    /\ Goto(c, "install", "idle")
    /\ Launch(read[c])
    /\ read' = [read EXCEPT ![c] = Off]
    /\ UNCHANGED <<row, closed, rest, io, up, puts, sleeps>>

(* Mutant of Install: what was known of the disks is kept.                 *)
InstallKeepsStats(c) ==
    /\ Goto(c, "install", "idle")
    /\ IF stopChan # None
       THEN UNCHANGED <<config, stopChan, started, loops, stats, slept>>
       ELSE /\ config' = read[c]
            /\ stats' = stats
            /\ IF read[c] = Off
               THEN UNCHANGED <<stopChan, started, loops, slept>>
               ELSE /\ started' = started + 1 /\ stopChan' = started'
                    /\ loops' = [n \in 1 .. started' |-> IF n = started' THEN Active ELSE loops[n]]
                    /\ slept' = FALSE
    /\ read' = [read EXCEPT ![c] = Off]
    /\ UNCHANGED <<row, closed, rest, io, up, puts, sleeps>>

(* With the mutex again: unless another request was faster, the monitor    *)
(* starts, if a disk is enabled, and knows nothing of the disks.           *)
Install(c) ==
    /\ Goto(c, "install", "idle")
    /\ IF stopChan # None
       THEN UNCHANGED <<config, stopChan, started, loops, stats, slept>>
       ELSE Launch(read[c])
    /\ read' = [read EXCEPT ![c] = Off]
    /\ UNCHANGED <<row, closed, rest, io, up, puts, sleeps>>

-----------------------------------------------------------------------------
(* The disks and the clock *)

DiskIo(d) ==
    /\ io' = [io EXCEPT ![d] = TRUE]
    /\ rest' = [rest EXCEPT ![d] = 0] /\ up' = [up EXCEPT ![d] = TRUE]
    /\ UNCHANGED <<row, config, stopChan, closed, started, loops, stats, slept, pc, read, puts, sleeps>>

(* A minute, once no monitor whose timer has fired waits for its look.     *)
Minute ==
    /\ \A n \in DOMAIN loops : loops[n] # 0
    /\ loops' = [n \in DOMAIN loops |-> IF loops[n] = None THEN None ELSE loops[n] - 1]
    /\ rest' = [d \in Disks |-> Later(rest[d])]
    /\ stats' = [d \in Disks |->
                    IF stats[d] = None THEN None
                    ELSE [stats[d] EXCEPT !.quiet = Later(@), !.since = Later(@)]]
    /\ UNCHANGED <<row, config, stopChan, closed, started, slept, io, up, pc, read, puts, sleeps>>

(* The host sleeps for longer than SkewTime; the disks spin afterwards.    *)
Sleep ==
    /\ sleeps < MaxSleeps
    /\ sleeps' = sleeps + 1
    /\ slept' = TRUE
    /\ up' = [d \in Disks |-> TRUE]
    /\ UNCHANGED <<row, config, stopChan, closed, started, loops, stats, rest, io, pc, read, puts>>

-----------------------------------------------------------------------------
(* monitorLoop *)

(* The stop channel of the monitor is closed.                              *)
LoopEnds(n) ==
    /\ loops[n] # None /\ n \in closed
    /\ loops' = [loops EXCEPT ![n] = None]
    /\ UNCHANGED <<row, config, stopChan, closed, started, stats, slept, rest, io, up, pc, read, puts, sleeps>>

(* What updateDiskState makes of a disk; a command that fails leaves the   *)
(* disk up and is recorded as if it had not.                               *)
New(d) == [quiet |-> 0, since |-> Cap, down |-> FALSE, idle |-> config[d]]

Awake(d) == IF slept THEN [stats[d] EXCEPT !.quiet = 0, !.down = FALSE] ELSE stats[d]

SpinsDown(d) ==
    /\ config[d] # 0 /\ stats[d] # None /\ ~io[d]
    /\ ~Awake(d).down
    /\ Awake(d).quiet > stats[d].idle /\ stats[d].since > stats[d].idle

Observed(d) ==
    IF config[d] = 0 THEN stats[d]
    ELSE IF stats[d] = None THEN New(d)
    ELSE IF io[d] THEN [Awake(d) EXCEPT !.quiet = 0, !.down = FALSE]
    ELSE IF SpinsDown(d) THEN [Awake(d) EXCEPT !.since = 0, !.down = TRUE]
    ELSE Awake(d)

NextPoll(known) ==
    IF {d \in Disks : known[d] # None} # {} /\ \A d \in Disks : known[d] = None \/ known[d].down
    THEN Dormant ELSE Active

(* observeDiskActivity, whichever monitor it is that has seen its timer    *)
(* before its stop channel; afterwards the timer is set again.             *)
ObserveDiskActivity(n) ==
    /\ loops[n] = 0
    /\ IF stopChan = None
       THEN UNCHANGED <<stats, slept, io, up>>
       ELSE /\ stats' = [d \in Disks |-> Observed(d)]
            /\ io' = [d \in Disks |-> io[d] /\ config[d] = 0]
            /\ \E failed \in SUBSET {d \in Disks : SpinsDown(d)} :
                 up' = [d \in Disks |-> up[d] /\ (SpinsDown(d) => d \in failed)]
            /\ slept' = FALSE
    /\ loops' = [loops EXCEPT ![n] = NextPoll(stats')]
    /\ UNCHANGED <<row, config, stopChan, closed, started, rest, pc, read, puts, sleeps>>

-----------------------------------------------------------------------------
Serve(c) ==
    Stop(c) \/ AlreadyRunning(c) \/ ConvertConfig(c) \/ ConvertFails(c) \/ Install(c)

Next ==
    \/ \E c \in Callers : Serve(c) \/ \E d \in Disks, i \in IdleTimes : SaveDeviceConfig(c, d, i)
    \/ \E d \in Disks : DiskIo(d)
    \/ Minute \/ Sleep
    \/ \E n \in DOMAIN loops : LoopEnds(n) \/ ObserveDiskActivity(n)

Spec == Init /\ [][Next]_vars

(* Requests are served, monitors run and time passes.                      *)
Fairness ==
    /\ \A c \in Callers : WF_vars(Serve(c))
    /\ WF_vars(Minute)
    /\ \A n \in 1 .. MaxPuts + 1 :
         WF_vars(n \in DOMAIN loops /\ (LoopEnds(n) \/ ObserveDiskActivity(n)))
FairSpec == Spec /\ Fairness

-----------------------------------------------------------------------------
(* Whatever requests start and stop at once, every monitor but the one     *)
(* that Stop would stop has been told to end: no goroutine is left that    *)
(* nothing can stop (Start's second look at stopChan).                     *)
StartedOnce == \A n \in DOMAIN loops : loops[n] = None \/ n = stopChan \/ n \in closed

(* A disk is only sent down when it has rested, in fact and not only by    *)
(* what the monitor knows, for longer than the idle time that the running  *)
(* configuration gives it: no setting, restart of the monitor or late      *)
(* look of a monitor that was stopped shortens it (updateDiskState).       *)
OnlyIdleDisksSpinDown ==
    [][\A d \in Disks : up[d] /\ ~up'[d] => config[d] # 0 /\ rest[d] > config[d]]_vars

(* A monitored disk that stays quiet is sent down (monitorLoop).           *)
Watched(d) == stopChan # None /\ config[d] # 0
IdleDisksSpinDown ==
    \A d \in Disks :
        Watched(d) ~> ~Watched(d) \/ rest[d] = 0 \/ (stats[d] # None /\ stats[d].down)

(* Once no request is under way, and none has failed to read the rows, the *)
(* monitor runs what the rows say (hdidle_handler.go:163: "Restart the     *)
(* monitor so it picks up the new per-disk config").                       *)
RunsTheRows ==
    ~MayFail /\ (\A c \in Callers : pc[c] = "idle")
        => config = row /\ (stopChan = None <=> row = Off)

(* A disk whose status says that it is down is down (spindownDisk).        *)
DownIsDown == \A d \in Disks : stats[d] # None /\ stats[d].down /\ ~io[d] /\ ~slept => ~up[d]
=============================================================================
