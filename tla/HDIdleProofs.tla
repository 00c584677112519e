---------------------------- MODULE HDIdleProofs ----------------------------
(***************************************************************************)
(* Every monitor of HDIdle can be stopped, for any number of requests that *)
(* stop and start it at once.                                              *)
(***************************************************************************)
EXTENDS HDIdle, TLAPS

(* The monitors are numbered in the order of their starts, and stopChan    *)
(* stops one of them.                                                      *)
Numbered ==
    /\ started \in Nat /\ DOMAIN loops = 1 .. started
    /\ stopChan \in {None} \cup (1 .. started)

Inv == Numbered /\ StartedOnce

-----------------------------------------------------------------------------
LEMMA NoneIsNoNumber == \A n \in 1 .. started : n # None
BY IdleAssumption

(* Stopping moves the monitor from stopChan to the closed channels.        *)
LEMMA StopKeepsInv == ASSUME Inv, NEW c \in Callers, Stop(c) PROVE Inv'
BY DEF Inv, Numbered, StartedOnce, Stop

(* The second look at stopChan: a monitor is started when there is none    *)
(* left that has not been told to end.                                     *)
LEMMA InstallKeepsInv == ASSUME Inv, NEW c \in Callers, Install(c) PROVE Inv'
<1>1. CASE UNCHANGED <<stopChan, started, loops>>
  BY <1>1 DEF Inv, Numbered, StartedOnce, Install
<1>2. CASE /\ stopChan = None /\ started' = started + 1 /\ stopChan' = started'
           /\ loops' = [n \in 1 .. started' |-> IF n = started' THEN Active ELSE loops[n]]
  <2>1. Numbered'
    BY <1>2 DEF Inv, Numbered
  <2>2. closed' = closed
    BY DEF Install
  <2>3. ASSUME NEW n \in 1 .. started', n # started' PROVE loops'[n] = None \/ n \in closed'
    <3>1. n \in 1 .. started /\ loops'[n] = loops[n]
      BY <1>2, <2>3 DEF Inv, Numbered
    <3>. QED
      BY <1>2, <2>2, <3>1, NoneIsNoNumber DEF Inv, Numbered, StartedOnce
  <2>. QED
    BY <1>2, <2>1, <2>3 DEF Inv, Numbered, StartedOnce
<1>. QED
  BY <1>1, <1>2 DEF Install, Launch

(* A monitor whose goroutine has ended does not come back.                 *)
LEMMA LoopsKeepInv ==
    ASSUME Inv, UNCHANGED <<started, stopChan, closed>>, DOMAIN loops' = DOMAIN loops,
           \A n \in DOMAIN loops : loops[n] = None => loops'[n] = None
    PROVE  Inv'
BY DEF Inv, Numbered, StartedOnce

(* What touches neither the monitors nor stopChan.                         *)
LEMMA OthersKeepInv ==
    ASSUME Inv, UNCHANGED <<started, stopChan, closed, loops>>
    PROVE  Inv'
BY DEF Inv, Numbered, StartedOnce

LEMMA ObserveKeepsInv ==
    ASSUME Inv, NEW n \in DOMAIN loops, ObserveDiskActivity(n)
    PROVE  Inv'
<1>1. loops[n] # None
  BY IdleAssumption DEF ObserveDiskActivity
<1>2. loops' = [loops EXCEPT ![n] = NextPoll(stats')] /\ UNCHANGED <<started, stopChan, closed>>
  BY DEF ObserveDiskActivity
<1>. QED
  BY <1>1, <1>2, LoopsKeepInv

LEMMA NextKeepsInv == ASSUME Inv, [Next]_vars PROVE Inv'
<1>1. ASSUME NEW c \in Callers, Serve(c) PROVE Inv'
  BY <1>1, StopKeepsInv, InstallKeepsInv, OthersKeepInv
     DEF Serve, AlreadyRunning, ConvertConfig, ConvertFails
<1>2. ASSUME NEW c \in Callers, NEW d \in Disks, NEW i \in IdleTimes, SaveDeviceConfig(c, d, i)
      PROVE  Inv'
  BY <1>2, OthersKeepInv DEF SaveDeviceConfig
<1>3. ASSUME NEW d \in Disks, DiskIo(d) PROVE Inv'
  BY <1>3, OthersKeepInv DEF DiskIo
<1>4. CASE Minute
  BY <1>4, LoopsKeepInv DEF Minute
<1>5. CASE Sleep
  BY <1>5, OthersKeepInv DEF Sleep
<1>6. ASSUME NEW n \in DOMAIN loops, LoopEnds(n) PROVE Inv'
  BY <1>6, LoopsKeepInv DEF LoopEnds
<1>7. CASE UNCHANGED vars
  BY <1>7, OthersKeepInv DEF vars
<1>. QED
  BY <1>1, <1>2, <1>3, <1>4, <1>5, <1>6, <1>7, ObserveKeepsInv DEF Next

(* Whatever requests start and stop at once, every monitor but the one     *)
(* that Stop would stop has been told to end.                              *)
THEOREM EveryMonitorStops == Spec => []StartedOnce
<1>1. Init => Inv
  BY IdleAssumption DEF Init, Inv, Numbered, StartedOnce
<1>2. Inv => StartedOnce
  BY DEF Inv
<1>. QED
  BY <1>1, <1>2, NextKeepsInv, PTL DEF Spec
-----------------------------------------------------------------------------
(* What the monitor knows of a disk.  It has counted no longer rest than   *)
(* the disk has had, unless the counters have changed since, which the     *)
(* next look will see; and the idle time it compares with is the running   *)
(* configuration's, since a monitor starts by forgetting the disks.        *)

Known ==
    \A d \in Disks : stats[d] # None =>
        stats[d].idle = config[d] /\ (~io[d] => stats[d].quiet <= rest[d])

RestInv == TypeOK /\ Known

LEMMA CapIsLongest == Cap \in Nat /\ \A i \in IdleTimes : i < Cap
<1> DEFINE longest == CHOOSE i \in IdleTimes : \A j \in IdleTimes : j <= i
<1>1. longest \in IdleTimes /\ \A j \in IdleTimes : j <= longest
  BY IdleAssumption
<1>2. Cap = 1 + longest
  BY DEF Cap
<1> HIDE DEF longest
<1>3. longest \in Nat /\ \A i \in IdleTimes : i \in Nat
  BY <1>1, IdleAssumption
<1>. QED
  BY <1>1, <1>2, <1>3

LEMMA LaterIsMonotone ==
    /\ \A a \in 0 .. Cap : Later(a) \in 0 .. Cap
    /\ \A a, b \in 0 .. Cap : a <= b => Later(a) <= Later(b)
BY CapIsLongest DEF Later

(* What is known of a disk that was used, or sent down, is of its type.    *)
LEMMA StatUsed ==
    ASSUME NEW s \in Stat, NEW t, t = [s EXCEPT !.quiet = 0, !.down = FALSE]
    PROVE  t \in Stat /\ t.quiet = 0 /\ t.idle = s.idle
<1>1. 0 \in 0 .. Cap
  BY CapIsLongest
<1>. QED
  BY <1>1 DEF Stat

LEMMA StatDown ==
    ASSUME NEW s \in Stat, NEW t, t = [s EXCEPT !.since = 0, !.down = TRUE]
    PROVE  t \in Stat /\ t.quiet = s.quiet /\ t.idle = s.idle
<1>1. 0 \in 0 .. Cap
  BY CapIsLongest
<1>. QED
  BY <1>1 DEF Stat

LEMMA OffIsRows == Off \in Rows
BY IdleAssumption DEF Off, Rows

LEMMA RestInit == Init => RestInv
<1> SUFFICES ASSUME Init PROVE RestInv
  OBVIOUS
<1>1. started \in {0, 1} /\ loops \in [1 .. started -> 0 .. Dormant \cup {None}]
  BY DEF Init, Active, Dormant
<1>2. stopChan \in {None} \cup (1 .. started)
  BY DEF Init
<1>3. /\ stats \in [Disks -> Stat \cup {None}] /\ rest \in [Disks -> 0 .. Cap]
      /\ read \in [Callers -> Rows]
  BY OffIsRows, CapIsLongest DEF Init
<1>4. /\ pc \in [Callers -> {"idle", "stop", "start", "convert", "install"}]
      /\ puts \in 0 .. MaxPuts /\ sleeps \in 0 .. MaxSleeps
  BY BoundAssumption DEF Init
<1>5. Known
  BY DEF Init, Known
<1>. QED
  BY <1>1, <1>2, <1>3, <1>4, <1>5 DEF Init, RestInv, TypeOK

(* Launch, with rows that have been read.                                  *)
LEMMA LaunchKeepsRest ==
    ASSUME RestInv, NEW rows \in Rows, Launch(rows)
    PROVE  /\ config' \in Rows /\ started' \in Nat /\ started <= started'
           /\ stopChan' \in {None} \cup (1 .. started')
           /\ loops' \in [1 .. started' -> 0 .. Dormant \cup {None}]
           /\ stats' \in [Disks -> Stat \cup {None}] /\ slept' \in BOOLEAN
           /\ Known'
<1>1. /\ config' = rows /\ stats' = [d \in Disks |-> None]
  BY DEF Launch
<1>2. CASE rows = Off
  BY <1>1, <1>2 DEF Launch, RestInv, TypeOK, Known
<1>3. CASE rows # Off
  <2>1. /\ started' = started + 1 /\ stopChan' = started' /\ slept' = FALSE
        /\ loops' = [n \in 1 .. started' |-> IF n = started' THEN Active ELSE loops[n]]
    BY <1>3 DEF Launch
  <2>2. started' \in Nat /\ started <= started' /\ stopChan' \in 1 .. started'
    BY <2>1 DEF RestInv, TypeOK
  <2>3. ASSUME NEW n \in 1 .. started', n # started'
        PROVE  loops[n] \in 0 .. Dormant \cup {None}
    <3>1. n \in 1 .. started
      BY <2>1, <2>3 DEF RestInv, TypeOK
    <3>. QED
      BY <3>1 DEF RestInv, TypeOK
  <2>4. loops' \in [1 .. started' -> 0 .. Dormant \cup {None}]
    BY <2>1, <2>3 DEF Active, Dormant
  <2>. QED
    BY <1>1, <2>1, <2>2, <2>4 DEF Known
<1>. QED
  BY <1>2, <1>3

LEMMA ServeKeepsRest == ASSUME RestInv, NEW c \in Callers, Serve(c) PROVE RestInv'
<1>1. CASE Stop(c)
  BY <1>1 DEF RestInv, TypeOK, Known, Stop, Goto
<1>2. CASE AlreadyRunning(c) \/ ConvertConfig(c) \/ ConvertFails(c)
  BY <1>2 DEF RestInv, TypeOK, Known, AlreadyRunning, ConvertConfig, ConvertFails, Goto
<1>3. CASE Install(c)
  <2>1. read[c] \in Rows
    BY DEF RestInv, TypeOK
  <2>2. CASE stopChan # None
    BY <1>3, <2>2, OffIsRows DEF RestInv, TypeOK, Known, Install, Goto
  <2>3. CASE stopChan = None
    <3>1. Launch(read[c])
      BY <1>3, <2>3 DEF Install
    <3>2. closed' \subseteq 1 .. started'
      BY <1>3, <2>1, <3>1, LaunchKeepsRest DEF RestInv, TypeOK, Install
    <3>. QED
      BY <1>3, <2>1, <3>1, <3>2, LaunchKeepsRest, OffIsRows DEF RestInv, TypeOK, Install, Goto
  <2>. QED
    BY <2>2, <2>3
<1>. QED
  BY <1>1, <1>2, <1>3 DEF Serve

LEMMA MinuteKeepsRest == ASSUME RestInv, Minute PROVE RestInv'
<1>1. ASSUME NEW d \in Disks
      PROVE  /\ rest'[d] = Later(rest[d]) /\ rest'[d] \in 0 .. Cap
             /\ stats'[d] \in Stat \cup {None}
             /\ stats'[d] # None =>
                  /\ stats[d] # None
                  /\ stats'[d].idle = stats[d].idle /\ stats'[d].quiet = Later(stats[d].quiet)
  BY LaterIsMonotone DEF Minute, RestInv, TypeOK, Stat
<1>2. loops' \in [1 .. started -> 0 .. Dormant \cup {None}]
  <2>1. ASSUME NEW n \in 1 .. started, loops[n] # None
        PROVE  loops[n] - 1 \in 0 .. Dormant
    <3>1. loops[n] # 0
      BY DEF Minute, RestInv, TypeOK
    <3>2. loops[n] \in 0 .. 5
      BY <2>1 DEF RestInv, TypeOK, Dormant
    <3>. QED
      BY <3>1, <3>2 DEF Dormant
  <2>. QED
    BY <2>1 DEF Minute, RestInv, TypeOK
<1>3. ASSUME NEW d \in Disks, stats'[d] # None
      PROVE  stats'[d].idle = config[d] /\ (~io[d] => stats'[d].quiet <= rest'[d])
  <2>1. stats[d] \in Stat /\ rest[d] \in 0 .. Cap
    BY <1>1, <1>3 DEF RestInv, TypeOK
  <2>. QED
    BY <1>1, <1>3, <2>1, LaterIsMonotone DEF RestInv, Known, Stat
<1>4. Known'
  BY <1>3 DEF Known, Minute
<1>5. rest' \in [Disks -> 0 .. Cap] /\ stats' \in [Disks -> Stat \cup {None}]
  BY <1>1 DEF Minute
<1>. QED
  BY <1>2, <1>4, <1>5 DEF RestInv, TypeOK, Minute

(* What a look makes of a disk.                                            *)
LEMMA ObservedIsKnown ==
    ASSUME RestInv, NEW d \in Disks
    PROVE  /\ Observed(d) \in Stat \cup {None}
           /\ Observed(d) # None =>
                /\ Observed(d).idle = config[d]
                /\ ~(io[d] /\ config[d] = 0) => Observed(d).quiet <= rest[d]
           /\ SpinsDown(d) => config[d] # 0 /\ rest[d] > config[d]
<1> USE DEF RestInv, TypeOK, Rows
<1>1. /\ config[d] \in IdleTimes /\ config[d] \in Nat /\ rest[d] \in 0 .. Cap
      /\ stats[d] \in Stat \cup {None} /\ Cap \in Nat
  BY IdleAssumption, CapIsLongest
<1>2. New(d) \in Stat /\ New(d).idle = config[d] /\ New(d).quiet <= rest[d]
  BY <1>1 DEF New, Stat
<1>3. ASSUME stats[d] # None
      PROVE  /\ Awake(d) \in Stat /\ Awake(d).idle = config[d] /\ Awake(d).quiet \in 0 .. Cap
             /\ ~io[d] => Awake(d).quiet <= rest[d]
  <2>1. stats[d] \in Stat /\ stats[d].quiet \in 0 .. Cap /\ stats[d].idle = config[d]
        /\ (~io[d] => stats[d].quiet <= rest[d])
    BY <1>1, <1>3 DEF Stat, Known
  <2>2. CASE slept
    <3>1. Awake(d) = [stats[d] EXCEPT !.quiet = 0, !.down = FALSE]
      BY <2>2 DEF Awake
    <3>2. /\ Awake(d) \in Stat /\ Awake(d).quiet = 0 /\ Awake(d).idle = stats[d].idle
      BY <2>1, <3>1, StatUsed
    <3>. QED
      BY <1>1, <2>1, <3>2
  <2>3. CASE ~slept
    BY <2>1, <2>3 DEF Awake
  <2>. QED
    BY <2>2, <2>3
<1>4. ASSUME stats[d] # None, config[d] # 0, io[d]
      PROVE  /\ Observed(d) \in Stat /\ Observed(d).idle = config[d]
             /\ Observed(d).quiet <= rest[d]
  <2>1. Observed(d) = [Awake(d) EXCEPT !.quiet = 0, !.down = FALSE]
    BY <1>4 DEF Observed
  <2>2. Observed(d) \in Stat /\ Observed(d).idle = Awake(d).idle /\ Observed(d).quiet = 0
    BY ZenonT(60), <1>3, <1>4, <2>1, StatUsed
  <2>. QED
    BY <1>1, <1>3, <1>4, <2>2
<1>5. ASSUME stats[d] # None, config[d] # 0, ~io[d]
      PROVE  /\ Observed(d) \in Stat /\ Observed(d).idle = config[d]
             /\ Observed(d).quiet <= rest[d]
  <2>1. Observed(d) \in {Awake(d), [Awake(d) EXCEPT !.since = 0, !.down = TRUE]}
    BY <1>5 DEF Observed
  <2>2. /\ [Awake(d) EXCEPT !.since = 0, !.down = TRUE] \in Stat
        /\ [Awake(d) EXCEPT !.since = 0, !.down = TRUE].idle = Awake(d).idle
        /\ [Awake(d) EXCEPT !.since = 0, !.down = TRUE].quiet = Awake(d).quiet
    BY <1>3, <1>5, StatDown
  <2>. QED
    BY <1>3, <1>5, <2>1, <2>2
<1>6. CASE config[d] = 0
  BY <1>1, <1>6 DEF Observed, SpinsDown, Known
<1>7. CASE config[d] # 0 /\ stats[d] = None
  BY <1>2, <1>7 DEF Observed, SpinsDown
<1>8. CASE config[d] # 0 /\ stats[d] # None
  <2>1. SpinsDown(d) => rest[d] > config[d]
    <3>1. stats[d].idle = config[d]
      BY <1>8 DEF Known
    <3>. QED
      BY <1>1, <1>3, <1>8, <3>1 DEF SpinsDown
  <2>. QED
    BY <1>4, <1>5, <1>8, <2>1
<1>. QED
  BY <1>6, <1>7, <1>8

LEMMA LookKeepsRest ==
    ASSUME RestInv, NEW n \in DOMAIN loops, ObserveDiskActivity(n)
    PROVE  RestInv'
<1>1. loops' \in [1 .. started -> 0 .. Dormant \cup {None}]
  BY DEF ObserveDiskActivity, NextPoll, RestInv, TypeOK, Active, Dormant
<1>2. CASE stopChan = None
  BY <1>1, <1>2 DEF ObserveDiskActivity, RestInv, TypeOK, Known
<1>3. CASE stopChan # None
  <2>1. /\ stats' = [d \in Disks |-> Observed(d)]
        /\ io' = [d \in Disks |-> io[d] /\ config[d] = 0]
        /\ up' \in [Disks -> BOOLEAN] /\ slept' = FALSE
        /\ UNCHANGED <<config, rest>>
    BY <1>3 DEF ObserveDiskActivity, RestInv, TypeOK
  <2>2. Known' /\ stats' \in [Disks -> Stat \cup {None}]
    BY <2>1, ObservedIsKnown DEF Known
  <2>. QED
    BY <1>1, <2>1, <2>2 DEF ObserveDiskActivity, RestInv, TypeOK
<1>. QED
  BY <1>2, <1>3

LEMMA RestStep == ASSUME RestInv, [Next]_vars PROVE RestInv'
<1>1. ASSUME NEW c \in Callers, NEW d \in Disks, NEW i \in IdleTimes, SaveDeviceConfig(c, d, i)
      PROVE  RestInv'
  BY <1>1, BoundAssumption DEF SaveDeviceConfig, RestInv, TypeOK, Known, Goto, Rows
<1>2. ASSUME NEW d \in Disks, DiskIo(d) PROVE RestInv'
  BY <1>2, CapIsLongest DEF DiskIo, RestInv, TypeOK, Known
<1>3. CASE Sleep
  BY <1>3, BoundAssumption DEF Sleep, RestInv, TypeOK, Known
<1>4. ASSUME NEW n \in DOMAIN loops, LoopEnds(n) PROVE RestInv'
  BY <1>4 DEF LoopEnds, RestInv, TypeOK, Known
<1>5. CASE UNCHANGED vars
  BY <1>5 DEF vars, RestInv, TypeOK, Known
<1>. QED
  BY <1>1, <1>2, <1>3, <1>4, <1>5, ServeKeepsRest, MinuteKeepsRest, LookKeepsRest DEF Next

(* Every reachable state is well typed, however many requests, sleeps and  *)
(* monitors there are.                                                     *)
THEOREM TypeCorrect == Spec => []TypeOK
<1>1. RestInv => TypeOK
  BY DEF RestInv
<1>. QED
  BY <1>1, RestInit, RestStep, PTL DEF Spec

(* A disk goes down only by a look of a monitor that finds it idle for     *)
(* longer than it is configured, and that is how long it has rested.       *)
THEOREM OnlyIdle == Spec => OnlyIdleDisksSpinDown
<1>1. ASSUME RestInv, Next, NEW d \in Disks, up[d], ~up'[d]
      PROVE  config[d] # 0 /\ rest[d] > config[d]
  <2>1. PICK n \in DOMAIN loops : ObserveDiskActivity(n)
    BY <1>1 DEF Next, Serve, Stop, AlreadyRunning, ConvertConfig, ConvertFails, Install,
       SaveDeviceConfig, DiskIo, Minute, Sleep, LoopEnds, RestInv, TypeOK
  <2>2. SpinsDown(d)
    BY <1>1, <2>1 DEF ObserveDiskActivity
  <2>. QED
    BY <1>1, <2>2, ObservedIsKnown
<1>2. RestInv /\ [Next]_vars =>
          [\A d \in Disks : up[d] /\ ~up'[d] => config[d] # 0 /\ rest[d] > config[d]]_vars
  BY <1>1
<1>. QED
  BY <1>2, RestInit, RestStep, PTL DEF Spec, OnlyIdleDisksSpinDown
=============================================================================
