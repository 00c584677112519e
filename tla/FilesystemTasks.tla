-------------------------- MODULE FilesystemTasks --------------------------
(***************************************************************************)
(* FilesystemService and the base of its adapters: formatting, checking    *)
(* and labelling of devices.                                               *)
(*                                                                         *)
(* A format or a check registers its device and goes on in a goroutine:    *)
(* the adapter starts a tool, a second goroutine polls the tool's output,  *)
(* two more report its lines, and the adapter and then the service         *)
(* announce the end before the device is released.  A check can be         *)
(* aborted.  Labels are set without registering.  Readers ask for the      *)
(* state of a device through a cache of command results, which every       *)
(* task flushes when it ends.                                              *)
(***************************************************************************)
EXTENDS Naturals, FiniteSets

CONSTANTS
    Devices,
    Tasks,      \* the tasks of a behaviour: each is started once at most
    Kinds,      \* the kinds of task: "format", "check", "label"
    Aborters,   \* HTTP requests that abort a check
    Readers,    \* HTTP requests and the statistics loop, which read states
    MaxLines,   \* bound on the lines that a tool writes
    BufferSize, \* lines that the command runner keeps
    Overlap,    \* whether a reader's query may last beyond a flush
    None

Statuses == {"start", "running", "success", "failure", "canceled"}
Ends     == {"success", "failure", "canceled"}
Codes    == {"ok", "left", "bad"}   \* exit 0; 4: errors left uncorrected; all others

ASSUME InstanceAssumption ==
    /\ Kinds \subseteq {"format", "check", "label"} /\ Overlap \in BOOLEAN
    /\ MaxLines \in Nat /\ BufferSize \in Nat
    /\ None \notin Tasks \cup Devices \cup Codes \cup Nat
    /\ None \notin {"format", "check", "label", "running", "canceled"}
    /\ None \notin [task : Tasks, status : Statuses]

VARIABLES
    active,     \* activeOperationInfo: the task registered for each device
    stage,      \* where the goroutine of each task is
    kind,       \* what it does
    device,     \* to which device
    cancelled,  \* the tasks whose context is cancelled
    tool,       \* the tool's process: None, "running" or how it ended
    written,    \* lines it has written
    polled,     \* nextLineIndex: lines of the buffer that the poller has passed on
    queued,     \* lines passed on and not reported yet
    seen,       \* lines reported
    outcome,    \* the result that the poller has sent
    told,       \* the last event about each device
    version,    \* what is on each device: counts the tools that have changed it
    cached,     \* the state of each device in the command cache
    aim,        \* the task whose cancel function an abort holds
    query       \* the device and the state that each reader has read

toolVars == <<tool, written, polled, queued, seen, outcome>>
taskVars == <<stage, kind, device, toolVars>>
vars == <<active, taskVars, cancelled, told, version, cached, aim, query>>

Stages == {"idle", "announce", "launch", "run", "flush", "final", "finish", "done"}
Results == Codes \cup {"canceled"}

TypeOK ==
    /\ active \in [Devices -> Tasks \cup {None}]
    /\ stage \in [Tasks -> Stages]
    /\ kind \in [Tasks -> Kinds \cup {None}]
    /\ device \in [Tasks -> Devices \cup {None}]
    /\ cancelled \subseteq Tasks
    /\ tool \in [Tasks -> Codes \cup {None, "running"}]
    /\ written \in [Tasks -> 0 .. MaxLines] /\ polled \in [Tasks -> 0 .. BufferSize]
    /\ queued \in [Tasks -> SUBSET (1 .. MaxLines)]
    /\ seen \in [Tasks -> SUBSET (1 .. MaxLines)]
    /\ outcome \in [Tasks -> Results \cup {None}]
    /\ told \in [Devices -> [task : Tasks, status : Statuses] \cup {None}]
    /\ version \in [Devices -> Nat] /\ cached \in [Devices -> Nat \cup {None}]
    /\ aim \in [Aborters -> Tasks \cup {None}]
    /\ query \in [Readers -> [device : Devices, state : Nat] \cup {None}]

Init ==
    /\ active = [d \in Devices |-> None]
    /\ stage = [t \in Tasks |-> "idle"]
    /\ kind = [t \in Tasks |-> None] /\ device = [t \in Tasks |-> None]
    /\ cancelled = {}
    /\ tool = [t \in Tasks |-> None]
    /\ written = [t \in Tasks |-> 0] /\ polled = [t \in Tasks |-> 0]
    /\ queued = [t \in Tasks |-> {}] /\ seen = [t \in Tasks |-> {}]
    /\ outcome = [t \in Tasks |-> None]
    /\ told = [d \in Devices |-> None]
    /\ version = [d \in Devices |-> 0] /\ cached = [d \in Devices |-> None]
    /\ aim = [a \in Aborters |-> None] /\ query = [r \in Readers |-> None]

-----------------------------------------------------------------------------
Enter(t, here, next) == stage[t] = here /\ stage' = [stage EXCEPT ![t] = next]

Tell(t, status) == told' = [told EXCEPT ![device[t]] = [task |-> t, status |-> status]]

Begin(t, d, k, next) ==
    /\ k \in Kinds
    /\ Enter(t, "idle", next)
    /\ kind' = [kind EXCEPT ![t] = k]
    /\ device' = [device EXCEPT ![t] = d]

(* Mutant of StartOperation: it registers without looking.                  *)
StartOperationBlindly(t, d, k) ==
    /\ active' = [active EXCEPT ![d] = t]
    /\ Begin(t, d, k, "announce")
    /\ UNCHANGED <<toolVars, cancelled, told, version, cached, aim, query>>

(* FormatPartition and CheckPartition: a registered device is a conflict.   *)
StartOperation(t, d, k) ==
    /\ active[d] = None
    /\ active' = [active EXCEPT ![d] = t]
    /\ Begin(t, d, k, "announce")
    /\ UNCHANGED <<toolVars, cancelled, told, version, cached, aim, query>>

(* The service's start event; the adapter's start and running events.       *)
Announce(t) ==
    /\ Enter(t, "announce", "launch")
    /\ Tell(t, "start")
    /\ UNCHANGED <<active, kind, device, toolVars, cancelled, version, cached, aim, query>>

(* Under a cancelled context no tool is started.                            *)
Launch(t) ==
    /\ Enter(t, "launch", "run")
    /\ Tell(t, "running")
    /\ \/ t \notin cancelled /\ tool' = [tool EXCEPT ![t] = "running"] /\ UNCHANGED outcome
       \/ t \in cancelled /\ outcome' = [outcome EXCEPT ![t] = "canceled"] /\ UNCHANGED tool
       \/ t \notin cancelled /\ outcome' = [outcome EXCEPT ![t] = "bad"] /\ UNCHANGED tool
    /\ UNCHANGED <<active, kind, device, written, polled, queued, seen, cancelled, version, cached, aim, query>>

(* SetPartitionLabel runs its tool at once, whatever else there is.         *)
StartLabel(t, d) ==
    /\ Begin(t, d, "label", "run")
    /\ tool' = [tool EXCEPT ![t] = "running"]
    /\ UNCHANGED <<active, written, polled, queued, seen, outcome, cancelled, told, version, cached, aim, query>>

-----------------------------------------------------------------------------
(* The tool *)

Writes(t) ==
    /\ kind[t] # "label" /\ tool[t] = "running" /\ written[t] < MaxLines
    /\ written' = [written EXCEPT ![t] = @ + 1]
    /\ UNCHANGED <<active, stage, kind, device, tool, polled, queued, seen, outcome, cancelled, told,
                   version, cached, aim, query>>

(* It ends by itself, or some time after its context was cancelled.         *)
Exits(t, c) ==
    /\ tool[t] = "running"
    /\ c = "left" => kind[t] = "check"
    /\ tool' = [tool EXCEPT ![t] = c]
    /\ version' = [version EXCEPT ![device[t]] = @ + 1]
    /\ UNCHANGED <<active, stage, kind, device, written, polled, queued, seen, outcome, cancelled, told,
                   cached, aim, query>>

-----------------------------------------------------------------------------
(* executeCommandWithProgress and drainCommandOutput *)

Least(i, j) == IF i < j THEN i ELSE j

Waiting(t) == stage[t] = "run" /\ kind[t] # "label" /\ outcome[t] = None

(* The snapshot holds the last lines; those after the index are passed on.  *)
Poll(t) ==
    LET size  == Least(written[t], BufferSize)
        fresh == {written[t] - size + i : i \in polled[t] + 1 .. size}
    IN
    /\ Waiting(t)
    /\ fresh # {} \/ tool[t] # "running"
    /\ queued' = [queued EXCEPT ![t] = @ \cup fresh]
    /\ polled' = [polled EXCEPT ![t] = size]
    /\ outcome' = [outcome EXCEPT ![t] = IF tool[t] = "running" THEN None ELSE tool[t]]
    /\ UNCHANGED <<active, stage, kind, device, tool, written, seen, cancelled, told, version, cached, aim, query>>

(* A cancelled context ends the polling at once.                            *)
GiveUp(t) ==
    /\ Waiting(t) /\ t \in cancelled
    /\ outcome' = [outcome EXCEPT ![t] = "canceled"]
    /\ UNCHANGED <<active, stage, kind, device, tool, written, polled, queued, seen, cancelled, told,
                   version, cached, aim, query>>

(* Two goroutines, one for each channel, report a line each.                *)
Report(t) ==
    /\ \E l \in queued[t] :
         /\ queued' = [queued EXCEPT ![t] = @ \ {l}]
         /\ seen' = [seen EXCEPT ![t] = @ \cup {l}]
    /\ Tell(t, "running")
    /\ UNCHANGED <<active, stage, kind, device, tool, written, polled, outcome, cancelled, version, cached, aim, query>>

(* Mutant of AdapterEnds: the adapter does not wait for the two goroutines. *)
AdapterEndsEarly(t) ==
    /\ outcome[t] # None
    /\ Enter(t, "run", "flush")
    /\ Tell(t, IF outcome[t] = "ok" THEN "success" ELSE "failure")
    /\ UNCHANGED <<active, kind, device, toolVars, cancelled, version, cached, aim, query>>

(* When all lines are reported, the adapter announces how its tool ended.   *)
AdapterEnds(t) ==
    /\ outcome[t] # None /\ queued[t] = {}
    /\ Enter(t, "run", "flush")
    /\ Tell(t, IF outcome[t] = "ok" THEN "success" ELSE "failure")
    /\ UNCHANGED <<active, kind, device, toolVars, cancelled, version, cached, aim, query>>

LabelEnds(t) ==
    /\ kind[t] = "label" /\ tool[t] \in Codes
    /\ Enter(t, "run", "flush")
    /\ UNCHANGED <<active, kind, device, toolVars, cancelled, told, version, cached, aim, query>>

(* Mutant of Flush: the deferred flush is missing.                          *)
FlushNothing(t) ==
    /\ Enter(t, "flush", IF kind[t] = "label" THEN "done" ELSE "final")
    /\ UNCHANGED <<active, kind, device, toolVars, cancelled, told, version, cached, aim, query>>

(* On its way out the adapter flushes the whole cache.                      *)
Flush(t) ==
    /\ Overlap \/ \A r \in Readers : query[r] = None
    /\ Enter(t, "flush", IF kind[t] = "label" THEN "done" ELSE "final")
    /\ cached' = [d \in Devices |-> None]
    /\ UNCHANGED <<active, kind, device, toolVars, cancelled, told, version, aim, query>>

-----------------------------------------------------------------------------
(* The service announces the end of its own ...                             *)
FinalEvent(t) ==
    /\ Enter(t, "final", "finish")
    /\ \/ kind[t] = "format" /\ Tell(t, IF outcome[t] = "ok" THEN "success" ELSE "failure")
       \/ kind[t] = "check" /\ outcome[t] \in {"ok", "left"} /\ Tell(t, "success")
       \/ kind[t] = "check" /\ outcome[t] \in {"bad", "canceled"}
            /\ Tell(t, IF t \in cancelled THEN "canceled" ELSE "failure")
    /\ UNCHANGED <<active, kind, device, toolVars, cancelled, version, cached, aim, query>>

(* ... and releases the device.                                             *)
FinishOperation(t) ==
    /\ Enter(t, "finish", "done")
    /\ active' = [active EXCEPT ![device[t]] = None]
    /\ UNCHANGED <<kind, device, toolVars, cancelled, told, version, cached, aim, query>>

(* AbortCheckPartition takes the cancel function of a check ...             *)
AbortLooks(a, d) ==
    /\ aim[a] = None
    /\ active[d] # None /\ kind[active[d]] = "check"
    /\ aim' = [aim EXCEPT ![a] = active[d]]
    /\ UNCHANGED <<active, taskVars, cancelled, told, version, cached, query>>

(* Mutant of AbortCancels: whatever runs on the device by now is cancelled. *)
AbortCancelsWhatRuns(a) ==
    /\ aim[a] # None
    /\ cancelled' = cancelled \cup ({active[device[aim[a]]]} \ {None})
    /\ aim' = [aim EXCEPT ![a] = None]
    /\ UNCHANGED <<active, taskVars, told, version, cached, query>>

(* ... and calls it when it has left the mutex.                             *)
AbortCancels(a) ==
    /\ aim[a] # None
    /\ cancelled' = cancelled \cup {aim[a]}
    /\ aim' = [aim EXCEPT ![a] = None]
    /\ UNCHANGED <<active, taskVars, told, version, cached, query>>

-----------------------------------------------------------------------------
(* GetPartitionState answers from the cache or queries the device ...       *)
Query(r, d) ==
    /\ query[r] = None /\ cached[d] = None
    /\ query' = [query EXCEPT ![r] = [device |-> d, state |-> version[d]]]
    /\ UNCHANGED <<active, taskVars, cancelled, told, version, cached, aim>>

(* ... and caches the result.                                               *)
Cache(r) ==
    /\ query[r] # None
    /\ cached' = [cached EXCEPT ![query[r].device] = query[r].state]
    /\ query' = [query EXCEPT ![r] = None]
    /\ UNCHANGED <<active, taskVars, cancelled, told, version, aim>>

-----------------------------------------------------------------------------
(* The goroutines of a task, its tool aside.                                *)
Step(t) ==
    \/ Announce(t) \/ Launch(t) \/ Poll(t) \/ GiveUp(t) \/ Report(t) \/ AdapterEnds(t)
    \/ LabelEnds(t) \/ Flush(t) \/ FinalEvent(t) \/ FinishOperation(t)

Next ==
    \/ \E t \in Tasks, d \in Devices :
         StartLabel(t, d) \/ \E k \in Kinds \ {"label"} : StartOperation(t, d, k)
    \/ \E t \in Tasks : Step(t) \/ Writes(t) \/ \E c \in Codes : Exits(t, c)
    \/ \E a \in Aborters : AbortCancels(a) \/ \E d \in Devices : AbortLooks(a, d)
    \/ \E r \in Readers : Cache(r) \/ \E d \in Devices : Query(r, d)

Spec == Init /\ [][Next]_vars

(* The goroutines go on and a query ends; nothing is assumed of the tool.   *)
Fairness ==
    /\ \A t \in Tasks : WF_vars(Step(t))
    /\ \A r \in Readers : WF_vars(Cache(r))
FairSpec == Spec /\ Fairness

-----------------------------------------------------------------------------
(* Properties *)

Works(t) == tool[t] = "running" /\ kind[t] # "label"

(* Formats and checks never work on one device at once, save when one is an *)
(* aborted check whose tool is dying.                                       *)
ToolsExclude ==
    \A s, t \in Tasks :
        s # t /\ device[s] = device[t] /\ Works(s) /\ Works(t)
          => s \in cancelled \/ t \in cancelled

(* As the comment of CheckPartition has it: an operation is refused while   *)
(* another one runs on the device.                                          *)
OneToolPerDevice ==
    \A s, t \in Tasks : device[s] = device[t] /\ Works(s) /\ Works(t) => s = t

(* What was said last of a device that is free is how its last operation    *)
(* ended, and of one that is not, it is about the operation in progress:    *)
(* no late line and no event of an earlier operation comes after.           *)
LastWordIsFinal ==
    \A d \in Devices :
        /\ active[d] = None /\ told[d] # None => told[d].status \in Ends
        /\ active[d] # None /\ stage[active[d]] # "announce"
             => told[d] # None /\ told[d].task = active[d]

(* An abort that comes late never cancels a format that has taken over.     *)
AbortHitsItsCheck == \A t \in cancelled : kind[t] = "check"

(* With no tool at work and no query under way, the cache knows the device  *)
(* as the last tool left it, unless an aborted one outlived its task.       *)
CacheIsCurrent ==
    \A d \in Devices :
        /\ \A t \in Tasks : device[t] = d => stage[t] = "done" /\ t \notin cancelled
        /\ \A r \in Readers : query[r] = None
        => cached[d] \in {None, version[d]}

(* The task of every reported line; a verbose tool may write more lines     *)
(* than the buffer holds, and the index then points past the new ones.      *)
AllIsShown ==
    \A t \in Tasks : stage[t] = "final" /\ outcome[t] \in Codes /\ t \notin cancelled
        => seen[t] = 1 .. written[t]

(* An aborted check ends and releases its device even when its tool hangs.  *)
AbortedEnds == \A t \in Tasks : t \in cancelled ~> stage[t] = "done"
=============================================================================
