----------------------------- MODULE MCMonitors -----------------------------
(***************************************************************************)
(* One run of TLC for three services that watch something and share        *)
(* nothing: the spin-down of disks, the web socket to Home Assistant and   *)
(* the watcher of the add-on's options.  The first state says which of     *)
(* them a behaviour is of; the others stay as they are.                    *)
(***************************************************************************)
EXTENDS HDIdle, Sequences

CONSTANTS Started, Stopped, w1, A, B, r1, r2, t

VARIABLES
    world,      \* the service of the behaviour
    loop, conn, dials, dead, reader, stage, pending, subs, called, listens, handlers, ready, wire,
    subscribed, events,
    content, mtime, lastHash, lastMtime, heard, timer, wpc, hash, failures

socketVars ==
    <<loop, conn, dials, dead, reader, stage, pending, subs, called, listens, handlers, ready, wire,
      subscribed, events>>
watcherVars == <<content, mtime, lastHash, lastMtime, heard, timer, wpc, hash, failures>>
monitorsVars == <<vars, socketVars, watcherVars, world>>

(* The two subscriptions of HaWsService, one that is tried again, a second *)
(* connection, and requests that fall into a handshake.                    *)
S == INSTANCE HaSocket WITH
    closed <- dead, Watchers <- {w1}, EarlyRequest <- TRUE, MaxDials <- 2, MaxEvents <- 1

(* A change and the change back, noticed by events, a timer and a ticker.  *)
W == INSTANCE ConfigWatcher WITH
    pc <- wpc, Contents <- {A, B}, Readers <- {r1, r2}, Ticker <- t, Local <- FALSE,
    MaxChanges <- 2, MaxFailures <- 1

NoDisks ==
    /\ row = Off /\ config = Off /\ started = 0 /\ stopChan = None /\ closed = {} /\ loops = <<>>
    /\ stats = [d \in Disks |-> None] /\ slept = FALSE
    /\ rest = [d \in Disks |-> 0] /\ io = [d \in Disks |-> FALSE] /\ up = [d \in Disks |-> TRUE]
    /\ pc = [c \in Callers |-> "idle"] /\ read = [c \in Callers |-> Off]
    /\ puts = 0 /\ sleeps = 0

MonitorsInit ==
    /\ world \in {"disks", "socket", "watcher"}
    /\ S!Init /\ W!Init
    /\ IF world = "disks" THEN Init ELSE NoDisks
    /\ world # "watcher" => content = A

MonitorsNext ==
    \/ world = "disks" /\ Next /\ UNCHANGED <<socketVars, watcherVars, world>>
    \/ world = "socket" /\ S!Next /\ UNCHANGED <<vars, watcherVars, world>>
    \/ world = "watcher" /\ W!Next /\ UNCHANGED <<vars, socketVars, world>>

(* The fairness of each service, where the behaviour is of it.             *)
MonitorsSpec ==
    /\ MonitorsInit /\ [][MonitorsNext]_monitorsVars
    /\ \A c \in Callers : WF_vars(world = "disks" /\ Serve(c))
    /\ WF_vars(world = "disks" /\ Minute)
    /\ \A n \in 1 .. MaxPuts + 1 :
         WF_vars(world = "disks" /\ n \in DOMAIN loops /\ (LoopEnds(n) \/ ObserveDiskActivity(n)))
    /\ WF_socketVars(world = "socket"
                     /\ (S!Dial \/ S!HelloFails \/ S!HelloSucceeds \/ S!Lost \/ S!Ended))
    /\ WF_socketVars(world = "socket" /\ S!Read)
    /\ WF_socketVars(world = "socket" /\ S!OnHaConnected)
    /\ WF_socketVars(world = "socket" /\ S!OnHaDisconnected)
    /\ \A r \in {Started, Stopped, w1} : WF_socketVars(world = "socket" /\ S!Step(r))
    /\ WF_watcherVars(world = "watcher" /\ W!Tick)
    /\ \A a \in {r1, r2, t} :
         /\ WF_watcherVars(world = "watcher" /\ W!Hash(a))
         /\ WF_watcherVars(world = "watcher" /\ W!MaybeNotify(a))

WellTyped == TypeOK /\ S!TypeOK /\ W!TypeOK
NobodyWaits == S!NobodyWaits
LastIsAnnounced == <>[](world = "watcher" => lastHash = content)
=============================================================================
