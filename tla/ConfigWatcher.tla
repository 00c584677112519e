--------------------------- MODULE ConfigWatcher ---------------------------
(***************************************************************************)
(* AddonConfigWatcherService: whether the options of the add-on have been  *)
(* changed from outside.                                                   *)
(*                                                                         *)
(* Three paths notice a change and none of them is certain to: an event of *)
(* the Supervisor, an event of the file with a debounce, and a ticker.     *)
(* Each reads the options, makes a hash of them and then, in maybeNotify   *)
(* and under hashMu, compares it with the last hash and announces what     *)
(* differs.  Nothing orders two readings by the time they were made.       *)
(***************************************************************************)
EXTENDS Naturals

CONSTANTS
    Contents,   \* contents of the options; a hash is the content it is made of
    Readers,    \* goroutines of Supervisor events and of debounce timers
    Ticker,     \* the goroutine of the ticker
    Local,      \* no Supervisor: the options are read from the file
    MaxChanges, \* bound on the changes
    MaxFailures \* bound on the readings that fail

Actors == Readers \cup {Ticker}

VARIABLES
    content,   \* the options
    mtime,     \* how often they were changed, which is the file's time
    lastHash,  \* s.lastHash, the content announced last
    lastMtime, \* of watchViaTicker, 0 when zero
    heard,     \* a change whose event has not been taken yet
    timer,     \* debounceTimer is armed
    pc,        \* where each goroutine is
    hash,      \* what it has read
    failures   \* how many readings have failed

vars == <<content, mtime, lastHash, lastMtime, heard, timer, pc, hash, failures>>

TypeOK ==
    /\ content \in Contents /\ lastHash \in Contents
    /\ mtime \in 1 .. MaxChanges + 1 /\ lastMtime \in 0 .. MaxChanges + 1
    /\ heard \subseteq {"supervisor", "file"} /\ timer \in BOOLEAN
    /\ pc \in [Actors -> {"idle", "read", "notify"}] /\ hash \in [Actors -> Contents]
    /\ failures \in 0 .. MaxFailures

(* OnStart has seeded lastHash.                                            *)
Init ==
    /\ content \in Contents /\ lastHash = content
    /\ mtime = 1 /\ lastMtime = 0
    /\ heard = {} /\ timer = FALSE
    /\ pc = [a \in Actors |-> "idle"] /\ hash = [a \in Actors |-> content]
    /\ failures = 0

Goto(a, from, to) == pc[a] = from /\ pc' = [pc EXCEPT ![a] = to]

(* Somebody changes the options; either event, both or none may follow.    *)
Change ==
    /\ mtime <= MaxChanges
    /\ mtime' = mtime + 1
    /\ content' \in Contents \ {content}
    /\ \E more \in SUBSET {"supervisor", "file"} : heard' = heard \cup more
    /\ UNCHANGED <<lastHash, lastMtime, timer, pc, hash, failures>>

(* The handler of a supervisor_event.                                      *)
SupervisorEvent(a) ==
    /\ a \in Readers /\ "supervisor" \in heard
    /\ Goto(a, "idle", "read")
    /\ heard' = heard \ {"supervisor"}
    /\ UNCHANGED <<content, mtime, lastHash, lastMtime, timer, hash, failures>>

(* watchViaFsnotify stops the timer there is and arms another.             *)
FileEvent ==
    /\ "file" \in heard
    /\ heard' = heard \ {"file"}
    /\ timer' = TRUE
    /\ UNCHANGED <<content, mtime, lastHash, lastMtime, pc, hash, failures>>

(* After 500 ms of quiet.                                                  *)
Debounced(a) ==
    /\ a \in Readers /\ timer
    /\ Goto(a, "idle", "read")
    /\ timer' = FALSE
    /\ UNCHANGED <<content, mtime, lastHash, lastMtime, heard, hash, failures>>

(* Mutant of Tick: the time of the file is looked at in any case.          *)
TickByTime ==
    /\ mtime # lastMtime
    /\ Goto(Ticker, "idle", "read")
    /\ lastMtime' = mtime
    /\ UNCHANGED <<content, mtime, lastHash, heard, timer, hash, failures>>

(* Every minute; the time of the file counts without a Supervisor.         *)
Tick ==
    /\ Local => mtime # lastMtime
    /\ Goto(Ticker, "idle", "read")
    /\ lastMtime' = IF Local THEN mtime ELSE lastMtime
    /\ UNCHANGED <<content, mtime, lastHash, heard, timer, hash, failures>>

(* hashObservedConfig.                                                     *)
Hash(a) ==
    /\ Goto(a, "read", "notify")
    /\ hash' = [hash EXCEPT ![a] = content]
    /\ UNCHANGED <<content, mtime, lastHash, lastMtime, heard, timer, failures>>

HashFails(a) ==
    /\ failures < MaxFailures
    /\ Goto(a, "read", "idle")
    /\ failures' = failures + 1
    /\ UNCHANGED <<content, mtime, lastHash, lastMtime, heard, timer, hash>>

(* maybeNotify, with the announcement that onChanged makes.                *)
MaybeNotify(a) ==
    /\ Goto(a, "notify", "idle")
    /\ lastHash' = hash[a]
    /\ UNCHANGED <<content, mtime, lastMtime, heard, timer, hash, failures>>

Next ==
    \/ Change \/ FileEvent \/ Tick
    \/ \E a \in Actors : SupervisorEvent(a) \/ Debounced(a) \/ Hash(a) \/ HashFails(a) \/ MaybeNotify(a)

Spec == Init /\ [][Next]_vars

(* Goroutines go on, and the ticker ticks; no event is promised.           *)
Fairness ==
    /\ WF_vars(Tick)
    /\ \A a \in Actors : WF_vars(Hash(a)) /\ WF_vars(MaybeNotify(a))
FairSpec == Spec /\ Fairness

-----------------------------------------------------------------------------
(* What is announced last is, in the end, what the options are: whatever   *)
(* reading overtook another, and although both events may be missing, the  *)
(* ticker reads them again (watchViaTicker, "a safety net").               *)
LastIsAnnounced == <>[](lastHash = content)

(* What has been replaced is not announced again after what replaced it    *)
(* (addon_config_watcher_service.go:36: "onChanged is invoked at most once *)
(* per unique SHA-256 content hash").                                      *)
NothingOldIsAnnounced ==
    [][lastHash' # lastHash => lastHash # content]_vars
=============================================================================
