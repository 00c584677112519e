----------------------------- MODULE DiskStats ------------------------------
(***************************************************************************)
(* DiskStatsService: the readings of one disk and what it remembers of the *)
(* disk's S.M.A.R.T. switch.                                               *)
(*                                                                         *)
(* Every ten seconds run() makes new readings, from those before on a      *)
(* light tick and from the disk on every sixth, the heavy one.  It asks a  *)
(* disk for S.M.A.R.T. data when a cache says that S.M.A.R.T. is on there; *)
(* the cache is filled by its own questions, and by the events of the      *)
(* requests that turn S.M.A.R.T. on and off.  A setting turns the whole    *)
(* integration off and empties the cache.                                  *)
(***************************************************************************)
EXTENDS Naturals

CONSTANTS
    None,
    Callers,     \* requests that turn the disk's S.M.A.R.T. on and off
    MaxChanges,  \* bound on the changes of the disk and of the setting
    MaxFailures  \* bound on the failures

Period == 6  \* a heavy tick in six

VARIABLES
    smart,     \* the disk's switch
    mode,      \* the stored setting: whether there is S.M.A.R.T. integration
    disabled,  \* s.smartIntegrationDisabled
    cache,     \* s.smartEnabledCache: what it holds of the disk, or None
    ticks,     \* ticks of run()
    seen,      \* s.lastStats holds counters of the disk
    data,      \* PerDiskIO's SmartData: what was on the disk, or None
    age,       \* how many ticks ago that was read
    info,      \* PerDiskInfo: whether it has SmartInfo, or None without an entry
    pc,        \* where run() is
    last,      \* the readings of the update before
    answer,    \* what the disk has answered
    mutex,     \* SmartService's mutex
    req,       \* where each request is
    setting,   \* where the request that changes the setting is
    changes, failures

vars == <<smart, mode, disabled, cache, ticks, seen, data, age, info, pc, last, answer,
          mutex, req, setting, changes, failures>>
runVars == <<ticks, seen, data, age, info, pc, last, answer>>
reqVars == <<mutex, req, setting, changes>>

Known == BOOLEAN \cup {None}

TypeOK ==
    /\ smart \in BOOLEAN /\ mode \in BOOLEAN /\ disabled \in BOOLEAN /\ cache \in Known
    /\ ticks \in 0 .. Period - 1 /\ seen \in BOOLEAN
    /\ data \in Known /\ age \in 0 .. Period /\ info \in Known
    /\ pc \in {"wait", "data", "dataAsked", "status", "info", "infoAsked", "details"}
    /\ last \in [data : Known, age : 0 .. Period, info : Known, heavy : BOOLEAN]
    /\ answer \in BOOLEAN
    /\ mutex \in Callers \cup {None}
    /\ req \in [Callers -> {"idle", "checked", "switched"}]
    /\ setting \in {"idle", "stored"}
    /\ changes \in 0 .. MaxChanges /\ failures \in 0 .. MaxFailures

NoReadings == [data |-> None, age |-> 0, info |-> None, heavy |-> TRUE]

Init ==
    /\ smart \in BOOLEAN /\ mode \in BOOLEAN /\ disabled = ~mode /\ cache = None
    /\ ticks = 0 /\ seen = FALSE /\ data = None /\ age = 0 /\ info = None
    /\ pc = "wait" /\ last = NoReadings /\ answer = FALSE
    /\ mutex = None /\ req = [c \in Callers |-> "idle"]
    /\ setting = "idle" /\ changes = 0 /\ failures = 0

-----------------------------------------------------------------------------
(* run() and updateDiskStats                                               *)

Fail == failures < MaxFailures /\ failures' = failures + 1
Older(a) == IF a < Period THEN a + 1 ELSE a

(* Mutant of Tick: every seventh tick is a heavy one.                      *)
LazyTick ==
    /\ pc = "wait"
    /\ ticks' = (ticks + 1) % (Period + 1)
    /\ last' = [data |-> data, age |-> Older(age), info |-> info, heavy |-> ticks = 0]
    /\ data' = None /\ age' = 0 /\ info' = None
    /\ seen' = TRUE /\ pc' = IF seen THEN "data" ELSE "info"
    /\ UNCHANGED <<smart, mode, disabled, cache, answer, failures, reqVars>>

(* The readings are taken away and filled again; without the disk's        *)
(* counters, which are compared with those before, there is no PerDiskIO.  *)
Tick ==
    /\ pc = "wait"
    /\ ticks' = (ticks + 1) % Period
    /\ last' = [data |-> data, age |-> Older(age), info |-> info, heavy |-> ticks = 0]
    /\ data' = None /\ age' = 0 /\ info' = None
    /\ seen' = TRUE /\ pc' = IF seen THEN "data" ELSE "info"
    /\ UNCHANGED <<smart, mode, disabled, cache, answer, failures, reqVars>>

(* The counters cannot be read: the readings stay empty.                   *)
TickFails ==
    /\ pc = "wait" /\ Fail
    /\ ticks' = (ticks + 1) % Period
    /\ data' = None /\ age' = 0 /\ info' = None
    /\ UNCHANGED <<smart, mode, disabled, cache, seen, pc, last, answer, reqVars>>

(* A light tick takes the data of the one before.                          *)
ReuseData ==
    /\ pc = "data" /\ ~last.heavy /\ last.data # None
    /\ data' = last.data /\ age' = last.age /\ pc' = "info"
    /\ UNCHANGED <<smart, mode, disabled, cache, ticks, seen, info, last, answer, failures, reqVars>>

(* isSmartEnabled, up to its answer from the cache or from the disk.  A    *)
(* disk that does not answer counts as one with S.M.A.R.T. off.            *)
AskSmart(asked, yes, no) ==
    \/ disabled /\ pc' = no /\ UNCHANGED <<answer, failures>>
    \/ ~disabled /\ cache # None /\ pc' = (IF cache THEN yes ELSE no) /\ UNCHANGED <<answer, failures>>
    \/ ~disabled /\ cache = None /\ pc' = asked
       /\ \/ answer' = smart /\ UNCHANGED failures
          \/ answer' = FALSE /\ Fail

(* Its Set, some time after the disk has answered.                         *)
Remember(asked, yes, no) ==
    /\ pc = asked
    /\ cache' = answer /\ pc' = IF answer THEN yes ELSE no
    /\ UNCHANGED <<smart, mode, disabled, ticks, seen, data, age, info, last, answer, failures, reqVars>>

AskForData ==
    /\ pc = "data" /\ (last.heavy \/ last.data = None)
    /\ AskSmart("dataAsked", "status", "info")
    /\ UNCHANGED <<smart, mode, disabled, cache, ticks, seen, data, age, info, last, reqVars>>

(* GetSmartStatus, and what it says goes to the cache.                     *)
ReadStatus ==
    /\ pc = "status" /\ pc' = "info"
    /\ \/ data' = smart /\ age' = 0 /\ cache' = smart /\ UNCHANGED failures
       \/ Fail /\ UNCHANGED <<data, age, cache>>
    /\ UNCHANGED <<smart, mode, disabled, ticks, seen, info, last, answer, reqVars>>

(* A light tick takes the disk's information as it was.                    *)
ReuseInfo ==
    /\ pc = "info" /\ ~last.heavy /\ last.info # None
    /\ info' = last.info /\ pc' = "wait"
    /\ UNCHANGED <<smart, mode, disabled, cache, ticks, seen, data, age, last, answer, failures, reqVars>>

(* populatePerDiskInfo                                                     *)
AskForInfo ==
    /\ pc = "info" /\ (last.heavy \/ last.info = None)
    /\ info' = FALSE
    /\ AskSmart("infoAsked", "details", "wait")
    /\ UNCHANGED <<smart, mode, disabled, cache, ticks, seen, data, age, last, reqVars>>

(* GetSmartInfo and GetHealthStatus.                                       *)
ReadInfo ==
    /\ pc = "details" /\ pc' = "wait"
    /\ \/ info' = TRUE /\ UNCHANGED failures
       \/ Fail /\ UNCHANGED info
    /\ UNCHANGED <<smart, mode, disabled, cache, ticks, seen, data, age, last, answer, reqVars>>

UpdateDiskStats ==
    \/ Tick \/ ReuseData \/ AskForData \/ Remember("dataAsked", "status", "info") \/ ReadStatus
    \/ ReuseInfo \/ AskForInfo \/ Remember("infoAsked", "details", "wait") \/ ReadInfo

(* Mutant of Expire: entries are kept for ever.                            *)
NeverExpires ==
    /\ FALSE
    /\ UNCHANGED <<smart, mode, disabled, cache, failures, runVars, reqVars>>

(* Half an hour goes by.                                                   *)
Expire ==
    /\ cache # None /\ cache' = None
    /\ UNCHANGED <<smart, mode, disabled, failures, runVars, reqVars>>

-----------------------------------------------------------------------------
(* The requests                                                            *)

(* ensureSmartIntegrationEnabled looks at the stored setting.              *)
Check(c) ==
    /\ req[c] = "idle" /\ mode /\ changes < MaxChanges
    /\ req' = [req EXCEPT ![c] = "checked"]
    /\ UNCHANGED <<smart, mode, disabled, cache, mutex, setting, changes, failures, runVars>>

(* EnableSMART and DisableSMART, as far as the disk is concerned.          *)
Switch(c) ==
    /\ req[c] = "checked" /\ mutex = None /\ changes < MaxChanges
    /\ mutex' = c /\ req' = [req EXCEPT ![c] = "switched"]
    /\ smart' \in BOOLEAN /\ changes' = changes + 1
    /\ UNCHANGED <<mode, disabled, cache, setting, failures, runVars>>

(* The event's listener remembers what the disk says now.                  *)
OnSmart(c) ==
    /\ req[c] = "switched"
    /\ req' = [req EXCEPT ![c] = "idle"] /\ mutex' = None
    /\ cache' = IF disabled THEN cache ELSE smart
    /\ UNCHANGED <<smart, mode, disabled, setting, changes, failures, runVars>>

(* The disk has changed and cannot be read back: there is no event.        *)
ReadBackFails(c) ==
    /\ req[c] = "switched" /\ Fail
    /\ req' = [req EXCEPT ![c] = "idle"] /\ mutex' = None
    /\ UNCHANGED <<smart, mode, disabled, cache, setting, changes, runVars>>

PutSetting ==
    /\ setting = "idle" /\ changes < MaxChanges
    /\ mode' = ~mode /\ setting' = "stored" /\ changes' = changes + 1
    /\ UNCHANGED <<smart, disabled, cache, mutex, req, failures, runVars>>

OnSetting ==
    /\ setting = "stored" /\ setting' = "idle"
    /\ disabled' = ~mode
    /\ cache' = IF disabled # ~mode THEN None ELSE cache
    /\ UNCHANGED <<smart, mode, mutex, req, changes, failures, runVars>>

Next ==
    \/ UpdateDiskStats \/ TickFails \/ Expire
    \/ \E c \in Callers : Check(c) \/ Switch(c) \/ OnSmart(c) \/ ReadBackFails(c)
    \/ PutSetting \/ OnSetting

(* run() goes on and handlers end.  An entry that says no is not renewed   *)
(* by being looked up, so that it expires; one that says yes is renewed by *)
(* every heavy tick.                                                       *)
Spec ==
    /\ Init /\ [][Next]_vars
    /\ WF_vars(UpdateDiskStats)
    /\ WF_vars(cache = FALSE /\ Expire)
    /\ \A c \in Callers : WF_vars(OnSmart(c))
    /\ WF_vars(OnSetting)

-----------------------------------------------------------------------------
(* The readings come to say what the disk and the setting say, whatever    *)
(* was remembered wrongly on the way: after a failed read-back, a failed   *)
(* look at the disk, or an answer that was overtaken by a request.         *)
ReadingsFollow ==
    <>[](pc = "wait" => /\ data = IF mode /\ smart THEN TRUE ELSE None
                        /\ info = (mode /\ smart))

(* What the readings say of S.M.A.R.T. was read within the last six ticks, *)
(* whatever ticks failed and however the setting was turned off and on.    *)
ReadingsAreFresh == pc = "wait" /\ data # None => age < Period

(* With no request under way and no failure, the cache says what the disk  *)
(* says.  An answer of before a request's event is remembered after it.    *)
CacheIsTrue ==
    (failures = 0 /\ pc = "wait" /\ mutex = None /\ setting = "idle") => cache \in {None, smart}

=============================================================================
