---------------------------- MODULE DirtyRestart ----------------------------
(***************************************************************************)
(* From a stored change to the restarted file services.                    *)
(*                                                                         *)
(* A request goroutine stores a change of the shares, users or settings    *)
(* and emits its event; DirtyDataService marks the kind dirty and arms a   *)
(* five second timer; the timer's callback emits RESTART while it holds    *)
(* timerMutex; ServerService renders the configuration from the database,  *)
(* writes it, has testparm check it, reloads or restarts each managed      *)
(* service whose mask meets the dirty flags and emits CLEAN, on which      *)
(* DirtyDataService wipes the flags and stops the timer without taking the *)
(* mutex.  PUT /samba/apply runs the same procedure from another goroutine *)
(* without the mutex, and the health loop re-arms a timer for flags that   *)
(* have none.                                                              *)
(*                                                                         *)
(* Stored data is abstracted to a version number per kind.                 *)
(***************************************************************************)
EXTENDS Naturals, FiniteSets

CONSTANTS
    Writers,     \* goroutines that store a change and then emit its event
    Deleters,    \* goroutines of DeleteShare, which emit before they delete
    Appliers,    \* goroutines that serve PUT /samba/apply
    Timers,      \* identities of the timers and callbacks alive at a time
    Services,    \* the services of serviceConfigMap in this instance
    Changing,    \* the kinds of data the writers change in this instance
    MaxVersion,  \* bound on the number of changes of a kind
    MayFail,     \* whether stores, file writes, testparm and commands can fail
    MayDie,      \* whether a service process can die
    None         \* no timer, no kind

Kinds       == {"Shares", "Users", "Settings", "AppConfig"}
ConfigKinds == {"Shares", "Users", "Settings"}   \* hasManagedDirtyData, defaultDirtyMask

SoftMask == [smbd  |-> {"Users", "Shares"}, nmbd |-> {"Users", "Shares"},
             wsddn |-> {},                  nfsd |-> {"Shares"}]
HardMask == [smbd  |-> {"Settings"}, nmbd |-> {"Settings"},
             wsddn |-> {"Settings"}, nfsd |-> {"Settings"}]

ASSUME ProcessAssumption ==
    /\ Writers \cap Deleters = {}
    /\ Appliers \cap Timers = {}
    /\ None \notin Timers /\ None \notin Kinds
ASSUME DataAssumption ==
    /\ Services \subseteq DOMAIN SoftMask
    /\ Changing \subseteq Kinds
    /\ MaxVersion \in Nat
    /\ MayFail \in BOOLEAN /\ MayDie \in BOOLEAN

VARIABLES
    db,        \* version of each kind in the database
    nfsOn,     \* the stored setting HAUseNFS
    wpc,       \* where each writer and deleter is
    wkind,     \* the kind it changes
    dirty,     \* dataDirtyTracker: the kinds whose flag is set
    timer,     \* p.timer: the timer it references, or None
    tstate,    \* of each timer: free, armed, fired (waits for the mutex) or
               \* running (its callback holds timerMutex)
    hpc,       \* the health loop: idle, or about to call startTimer
    rpc,       \* where each run of writeConfigsAndRestartServers is
    mask,      \* the dirty flags it was given
    rendered,  \* the configuration it rendered from the database
    todo,      \* the services its loop has still to visit
    smbconf,   \* smb.conf and smbusers on disk, as versions
    exports,   \* /etc/exports on disk, as versions
    vetted,    \* the configuration testparm accepted last (history)
    managed,   \* serviceConfigMap: the services with Managed = true
    status,    \* self.status: the services it has ever seen a process of
    up,        \* the services that have a process
    loaded     \* the versions each service runs with

writerVars  == <<db, nfsOn, wpc, wkind>>
trackerVars == <<dirty, timer, tstate, hpc>>
runVars     == <<rpc, mask, rendered, todo>>
diskVars    == <<smbconf, exports, vetted>>
serviceVars == <<managed, status, up, loaded>>
vars == <<writerVars, trackerVars, runVars, diskVars, serviceVars>>

Content == [ConfigKinds -> Nat]
Nothing == [k \in ConfigKinds |-> 0]
Stored  == [k \in ConfigKinds |-> db[k]]
Runs    == Timers \cup Appliers

WriterStates == {"idle", "mark", "arm", "delete"}
RunStates    == {"idle", "render", "write", "test", "export", "reload",
                 "reset", "stop", "nil", "done"}

TypeOK ==
    /\ db \in [Kinds -> Nat] /\ nfsOn \in BOOLEAN
    /\ wpc \in [Writers \cup Deleters -> WriterStates]
    /\ wkind \in [Writers \cup Deleters -> Kinds \cup {None}]
    /\ dirty \subseteq Kinds
    /\ timer \in Timers \cup {None}
    /\ tstate \in [Timers -> {"free", "armed", "fired", "running"}]
    /\ hpc \in {"idle", "arm"}
    /\ rpc \in [Runs -> RunStates]
    /\ mask \in [Runs -> SUBSET Kinds]
    /\ rendered \in [Runs -> Content]
    /\ todo \in [Runs -> SUBSET Services]
    /\ smbconf \in Content /\ exports \in Content
    /\ vetted \in Content \cup {None}
    /\ managed \subseteq Services /\ status \subseteq Services /\ up \subseteq Services
    /\ loaded \in [Services -> Content]

(* The program starts with every configuration flag set and no timer, with  *)
(* nfsd not managed, and with the services that s6 runs started on files    *)
(* that an earlier version of the data may have left.                       *)
Init ==
    /\ db = [k \in Kinds |-> 1] /\ nfsOn \in BOOLEAN
    /\ wpc = [w \in Writers \cup Deleters |-> "idle"]
    /\ wkind = [w \in Writers \cup Deleters |-> None]
    /\ dirty = ConfigKinds
    /\ timer = None
    /\ tstate = [t \in Timers |-> "free"]
    /\ hpc = "idle"
    /\ rpc = [r \in Runs |-> "idle"]
    /\ mask = [r \in Runs |-> {}]
    /\ rendered = [r \in Runs |-> Nothing]
    /\ todo = [r \in Runs |-> {}]
    /\ smbconf = Nothing /\ exports = Nothing /\ vetted = None
    /\ managed = Services \ {"nfsd"}
    /\ status = {}
    /\ up = Services \ {"nfsd"}
    /\ loaded = [s \in Services |-> Nothing]

-----------------------------------------------------------------------------
(* DirtyDataService *)

MutexFree == \A t \in Timers : tstate[t] # "running"

(* Mutants of StartTimer: no mutex, and no Stop of the timer it replaces.   *)
StartTimerUnlocked ==
    \E t \in Timers \ {timer} :
        /\ tstate[t] = "free"
        /\ tstate' = [u \in Timers |->
                        IF u = t THEN "armed"
                        ELSE IF u = timer /\ tstate[u] = "armed" THEN "free" ELSE tstate[u]]
        /\ timer' = t
StartTimerWithoutStop ==
    /\ MutexFree
    /\ \E t \in Timers :
        /\ tstate[t] = "free"
        /\ tstate' = [tstate EXCEPT ![t] = "armed"]
        /\ timer' = t

(* startTimer, entered with the mutex free: stop the timer referenced now   *)
(* (too late if it has fired) and reference a new one.                      *)
StartTimer ==
    /\ MutexFree
    /\ LET stopped == [t \in Timers |->
                          IF t = timer /\ tstate[t] = "armed" THEN "free" ELSE tstate[t]]
       IN  \E t \in Timers :
               /\ stopped[t] = "free"
               /\ tstate' = [stopped EXCEPT ![t] = "armed"]
               /\ timer' = t

(* time.AfterFunc runs the callback in a goroutine that first locks.        *)
Fire(t) ==
    /\ tstate[t] = "armed"
    /\ tstate' = [tstate EXCEPT ![t] = "fired"]
    /\ UNCHANGED <<writerVars, dirty, timer, hpc, runVars, diskVars, serviceVars>>

(* Mutant of HealthTick: the tracker is read and no timer is started.       *)
HealthTickOnlyReads ==
    /\ hpc = "idle"
    /\ status' = status \cup up
    /\ UNCHANGED <<writerVars, trackerVars, runVars, diskVars, managed, up, loaded>>

(* GetDirtyDataTracker as the health loop calls it: the check is made       *)
(* without the mutex, before startTimer takes it.  The heavy tick also      *)
(* refreshes the process status.                                            *)
HealthTick ==
    /\ hpc = "idle"
    /\ status' = status \cup up
    /\ hpc' = IF dirty \cap ConfigKinds # {} /\ timer = None THEN "arm" ELSE "idle"
    /\ UNCHANGED <<writerVars, dirty, timer, tstate, runVars, diskVars, managed, up, loaded>>

HealthArm ==
    /\ hpc = "arm"
    /\ StartTimer
    /\ hpc' = "idle"
    /\ UNCHANGED <<writerVars, dirty, runVars, diskVars, serviceVars>>

-----------------------------------------------------------------------------
(* The goroutines that change the data *)

(* A transaction commits.  Of the settings, HAUseNFS is the one that steers *)
(* this procedure.                                                          *)
Commit(k) ==
    /\ db[k] < MaxVersion
    /\ db' = [db EXCEPT ![k] = @ + 1]
    /\ IF k = "Settings" THEN nfsOn' \in BOOLEAN ELSE nfsOn' = nfsOn

(* CreateShare, UpdateShare, CreateUser, UpdateUser, UpdateSettings, ...:   *)
(* store, then emit.                                                        *)
Store(w, k) ==
    /\ wpc[w] = "idle"
    /\ Commit(k)
    /\ wpc' = [wpc EXCEPT ![w] = "mark"]
    /\ wkind' = [wkind EXCEPT ![w] = k]
    /\ UNCHANGED <<trackerVars, runVars, diskVars, serviceVars>>

(* CreateUser: the row is stored, the Samba account cannot be created and   *)
(* the request fails without an event.                                      *)
StoreUnannounced(w) ==
    /\ MayFail
    /\ "Users" \in Changing
    /\ wpc[w] = "idle"
    /\ Commit("Users")
    /\ UNCHANGED <<wpc, wkind, trackerVars, runVars, diskVars, serviceVars>>

(* setDirtyX: the flag is set before startTimer takes the mutex; AppConfig  *)
(* starts no timer.                                                         *)
Mark(w) ==
    /\ wpc[w] = "mark"
    /\ dirty' = dirty \cup {wkind[w]}
    /\ wpc' = [wpc EXCEPT ![w] = IF wkind[w] = "AppConfig" THEN "idle" ELSE "arm"]
    /\ wkind' = IF wkind[w] = "AppConfig" THEN [wkind EXCEPT ![w] = None] ELSE wkind
    /\ UNCHANGED <<db, nfsOn, timer, tstate, hpc, runVars, diskVars, serviceVars>>

(* Mutant of Arm: a timer is started only when none is referenced.          *)
ArmIfNone(w) ==
    /\ wpc[w] = "arm"
    /\ IF timer = None THEN StartTimer ELSE UNCHANGED <<timer, tstate>>
    /\ wpc' = [wpc EXCEPT ![w] = "idle"]
    /\ wkind' = [wkind EXCEPT ![w] = None]
    /\ UNCHANGED <<db, nfsOn, dirty, hpc, runVars, diskVars, serviceVars>>

Arm(w) ==
    /\ wpc[w] = "arm"
    /\ StartTimer
    /\ wpc' = [wpc EXCEPT ![w] = IF w \in Deleters THEN "delete" ELSE "idle"]
    /\ wkind' = IF w \in Deleters THEN wkind ELSE [wkind EXCEPT ![w] = None]
    /\ UNCHANGED <<db, nfsOn, dirty, hpc, runVars, diskVars, serviceVars>>

(* DeleteShare emits REMOVE first ...                                       *)
AnnounceDelete(w) ==
    /\ wpc[w] = "idle"
    /\ db["Shares"] < MaxVersion
    /\ wpc' = [wpc EXCEPT ![w] = "mark"]
    /\ wkind' = [wkind EXCEPT ![w] = "Shares"]
    /\ UNCHANGED <<db, nfsOn, trackerVars, runVars, diskVars, serviceVars>>

(* ... and deletes the row when every listener has returned.                *)
Delete(w) ==
    /\ wpc[w] = "delete"
    /\ \/ Commit("Shares")
       \/ (MayFail \/ db["Shares"] = MaxVersion) /\ UNCHANGED <<db, nfsOn>>
    /\ wpc' = [wpc EXCEPT ![w] = "idle"]
    /\ wkind' = [wkind EXCEPT ![w] = None]
    /\ UNCHANGED <<trackerVars, runVars, diskVars, serviceVars>>

-----------------------------------------------------------------------------
(* ServerService: writeConfigsAndRestartServers *)

(* Mutant of Enter: the callback does not take the mutex.                   *)
EnterUnlocked(t) ==
    /\ tstate[t] = "fired"
    /\ tstate' = [tstate EXCEPT ![t] = "running"]
    /\ mask' = [mask EXCEPT ![t] = dirty]
    /\ rpc' = [rpc EXCEPT ![t] = "render"]
    /\ UNCHANGED <<writerVars, dirty, timer, hpc, rendered, todo, diskVars, serviceVars>>

(* The timer's callback gets the mutex and emits RESTART with a copy of the *)
(* flags; for Settings the listener first reloads HAUseNFS.                 *)
Enter(t) ==
    /\ tstate[t] = "fired"
    /\ MutexFree
    /\ tstate' = [tstate EXCEPT ![t] = "running"]
    /\ mask' = [mask EXCEPT ![t] = dirty]
    /\ \/ /\ rpc' = [rpc EXCEPT ![t] = "render"]
          /\ managed' = IF "Settings" \notin dirty THEN managed
                        ELSE IF nfsOn THEN managed \cup ({"nfsd"} \cap Services)
                        ELSE managed \ {"nfsd"}
       \/ /\ MayFail /\ "Settings" \in dirty     \* the settings cannot be loaded
          /\ rpc' = [rpc EXCEPT ![t] = "done"]
          /\ UNCHANGED managed
    /\ UNCHANGED <<writerVars, dirty, timer, hpc, rendered, todo, diskVars, status, up, loaded>>

(* ApplySamba runs it with the full mask and no mutex.                      *)
Apply(a) ==
    /\ rpc[a] = "idle"
    /\ rpc' = [rpc EXCEPT ![a] = "render"]
    /\ mask' = [mask EXCEPT ![a] = ConfigKinds]
    /\ UNCHANGED <<writerVars, trackerVars, rendered, todo, diskVars, serviceVars>>

At(r, here, next) ==
    /\ rpc[r] = here
    /\ rpc' = [rpc EXCEPT ![r] = next]

(* Any step that returns an error ends the run: no CLEAN is emitted.        *)
Fail(r) ==
    /\ MayFail
    /\ rpc[r] \in {"render", "write", "test", "export", "reload"}
    /\ rpc' = [rpc EXCEPT ![r] = "done"]
    /\ UNCHANGED <<writerVars, trackerVars, mask, rendered, todo, diskVars, serviceVars>>

Render(r) ==
    /\ At(r, "render", "write")
    /\ rendered' = [rendered EXCEPT ![r] = Stored]
    /\ UNCHANGED <<writerVars, trackerVars, mask, todo, diskVars, serviceVars>>

Write(r) ==
    /\ At(r, "write", "test")
    /\ smbconf' = rendered[r]
    /\ UNCHANGED <<writerVars, trackerVars, mask, rendered, todo, exports, vetted, serviceVars>>

(* testSambaConfig, when testparm accepts what is on disk now.              *)
Test(r) ==
    /\ At(r, "test", "export")
    /\ vetted' = smbconf
    /\ UNCHANGED <<writerVars, trackerVars, mask, rendered, todo, smbconf, exports, serviceVars>>

(* writeNFSConfig when HAUseNFS is stored; then GetServerProcesses adds the *)
(* processes it finds to the status, which forgets none.                    *)
Export(r) ==
    /\ At(r, "export", "reload")
    /\ exports' = IF nfsOn THEN Stored ELSE exports
    /\ status' = status \cup up
    /\ todo' = [todo EXCEPT ![r] = managed]
    /\ UNCHANGED <<writerVars, trackerVars, mask, rendered, smbconf, vetted, managed, up, loaded>>

ConfigOf(s) == IF s = "nfsd" THEN exports ELSE smbconf

HardRestart(s) ==
    /\ up' = up \cup {s}
    /\ loaded' = [loaded EXCEPT ![s] = ConfigOf(s)]

(* A reload command reaches a process or does nothing; a service takes from *)
(* it the kinds of its soft mask.                                           *)
SoftReload(s) ==
    /\ loaded' = IF s \in up
                 THEN [loaded EXCEPT ![s] = [k \in ConfigKinds |->
                          IF k \in SoftMask[s] THEN ConfigOf(s)[k] ELSE @[k]]]
                 ELSE loaded
    /\ UNCHANGED up

(* One iteration of restartServerServices, in the order of a Go map.        *)
Restart(r, s) ==
    /\ rpc[r] = "reload"
    /\ s \in todo[r]
    /\ todo' = [todo EXCEPT ![r] = @ \ {s}]
    /\ \/ s \in status /\ mask[r] \cap HardMask[s] # {} /\ HardRestart(s)
       \/ s \in status /\ mask[r] \cap HardMask[s] = {} /\ mask[r] \cap SoftMask[s] # {}
          /\ SoftReload(s)
       \/ s \in status /\ mask[r] \cap (HardMask[s] \cup SoftMask[s]) = {}
          /\ UNCHANGED <<up, loaded>>
       \/ s \notin status /\ s \notin up /\ HardRestart(s)     \* StartCommand
       \/ s \notin status /\ s \in up /\ UNCHANGED <<up, loaded>>
    /\ UNCHANGED <<writerVars, trackerVars, rpc, mask, rendered, diskVars, managed, status>>

(* Mutant of Restarted: CLEAN is emitted inside the loop.                   *)
RestartedEarly(r) ==
    /\ At(r, "reload", "reset")
    /\ UNCHANGED <<writerVars, trackerVars, mask, rendered, todo, diskVars, serviceVars>>

Restarted(r) ==
    /\ At(r, "reload", "reset")
    /\ todo[r] = {}
    /\ UNCHANGED <<writerVars, trackerVars, mask, rendered, todo, diskVars, serviceVars>>

(* CLEAN reaches resetDirtyStatus: wipe the flags, ...                      *)
ResetFlags(r) ==
    /\ At(r, "reset", "stop")
    /\ dirty' = {}
    /\ UNCHANGED <<writerVars, timer, tstate, hpc, mask, rendered, todo, diskVars, serviceVars>>

(* ... stop the timer referenced now, ...                                   *)
StopTimer(r) ==
    /\ At(r, "stop", IF timer = None THEN "done" ELSE "nil")
    /\ tstate' = [t \in Timers |->
                     IF t = timer /\ tstate[t] = "armed" THEN "free" ELSE tstate[t]]
    /\ UNCHANGED <<writerVars, dirty, timer, hpc, mask, rendered, todo, diskVars, serviceVars>>

(* ... and forget whichever is referenced then; none of it takes the mutex. *)
ForgetTimer(r) ==
    /\ At(r, "nil", "done")
    /\ timer' = None
    /\ UNCHANGED <<writerVars, dirty, tstate, hpc, mask, rendered, todo, diskVars, serviceVars>>

Forget(r) ==
    /\ At(r, "done", "idle")
    /\ mask' = [mask EXCEPT ![r] = {}]
    /\ rendered' = [rendered EXCEPT ![r] = Nothing]
    /\ todo' = [todo EXCEPT ![r] = {}]

(* EmitDirtyData returns to the callback, with or without an error, which   *)
(* clears p.timer and unlocks.                                              *)
Leave(t) ==
    /\ Forget(t)
    /\ timer' = None
    /\ tstate' = [tstate EXCEPT ![t] = "free"]
    /\ UNCHANGED <<writerVars, dirty, hpc, diskVars, serviceVars>>

Reply(a) ==
    /\ Forget(a)
    /\ UNCHANGED <<writerVars, trackerVars, diskVars, serviceVars>>

Step(r) ==
    \/ Render(r) \/ Write(r) \/ Test(r) \/ Export(r)
    \/ (\E s \in Services : Restart(r, s)) \/ Restarted(r)
    \/ ResetFlags(r) \/ StopTimer(r) \/ ForgetTimer(r)

-----------------------------------------------------------------------------
(* The service processes; s6 starts a dead one again.                       *)

Die(s) ==
    /\ MayDie
    /\ s \in up
    /\ up' = up \ {s}
    /\ UNCHANGED <<writerVars, trackerVars, runVars, diskVars, managed, status, loaded>>

Respawn(s) ==
    /\ s \notin up
    /\ s \in status
    /\ HardRestart(s)
    /\ UNCHANGED <<writerVars, trackerVars, runVars, diskVars, managed, status>>

-----------------------------------------------------------------------------
Next ==
    \/ \E w \in Writers : \/ \E k \in Changing : Store(w, k)
                         \/ StoreUnannounced(w)
    \/ \E w \in Deleters : AnnounceDelete(w) \/ Delete(w)
    \/ \E w \in Writers \cup Deleters : Mark(w) \/ Arm(w)
    \/ HealthTick \/ HealthArm
    \/ \E t \in Timers : Fire(t) \/ Enter(t) \/ Leave(t)
    \/ \E a \in Appliers : Apply(a) \/ Reply(a)
    \/ \E r \in Runs : Step(r) \/ Fail(r)
    \/ \E s \in Services : Die(s) \/ Respawn(s)

Spec == Init /\ [][Next]_vars

(* Timers expire; sync.Mutex hands itself to a goroutine that waits long    *)
(* enough, hence strong fairness where it is taken; the health loop ticks;  *)
(* a request or a run that started goes on.  Nothing makes a user change    *)
(* data or apply, and nothing is assumed of failures.                       *)
Fairness ==
    /\ \A w \in Writers \cup Deleters :
           WF_vars(Mark(w)) /\ SF_vars(Arm(w)) /\ WF_vars(w \in Deleters /\ Delete(w))
    /\ WF_vars(HealthTick) /\ SF_vars(HealthArm)
    /\ \A t \in Timers : WF_vars(Fire(t)) /\ SF_vars(Enter(t)) /\ WF_vars(Leave(t))
    /\ \A a \in Appliers : WF_vars(Reply(a))
    /\ \A r \in Runs : WF_vars(Step(r) \/ Fail(r))

FairSpec == Spec /\ Fairness

-----------------------------------------------------------------------------
(* Properties *)

(* A stored change that is not yet in smb.conf is never forgotten: its      *)
(* writer has still to arm the timer, a timer or callback is alive, or a    *)
(* flag is set for the health loop to find.  It needs the mutex: a callback *)
(* that has rendered must not stop a timer armed for a later change.        *)
StaleFileIsPending ==
    \A k \in ConfigKinds : db[k] # smbconf[k] =>
        \/ \E w \in Writers : wpc[w] \in {"mark", "arm"} /\ wkind[w] = k
        \/ \E t \in Timers : tstate[t] # "free"
        \/ dirty \cap ConfigKinds # {}

(* "WriteConfigsAndRestartProcesses writes, tests, and restarts": what the  *)
(* services are told to load is what testparm accepted.                     *)
ReloadsVetted ==
    \A r \in Runs : rpc[r] \in {"export", "reload"} => smbconf = vetted

(* When CLEAN wipes the flags a run was given, each live service on         *)
(* smb.conf has taken the data of these flags that this run rendered.       *)
CleanReported ==
    \A r \in Runs : rpc[r] = "reset" =>
        \A s \in (managed \cap up) \ {"nfsd"} : \A k \in mask[r] \cap (SoftMask[s] \cup HardMask[s]) :
            loaded[s][k] = rendered[r][k]

(* startTimer and stopTimer keep at most one timer armed, the one that      *)
(* IsTimerRunning reports.                                                  *)
ArmedIsReferenced == \A t \in Timers : tstate[t] = "armed" => timer = t

(* A set flag leads to a run that covers it, again and again, however often *)
(* runs fail: after a failure only the health loop starts one.              *)
Covers(k) == \E r \in Runs : rpc[r] # "idle" /\ k \in mask[r]
DirtyIsRetried == \A k \in ConfigKinds : k \in dirty ~> (Covers(k) \/ k \notin dirty)

(* Every stored version of every kind reaches smb.conf, or a later one.     *)
ChangesReachTheFile ==
    \A k \in Changing \cap ConfigKinds : \A v \in 1..MaxVersion : db[k] = v ~> smbconf[k] >= v

(* A change moves from the database into the file and into the services,    *)
(* none of which ever goes back to older data (module ConfigPipeline).  A   *)
(* run renders in one step and writes in another: only the mutex keeps an   *)
(* older rendering from overwriting a newer file.                           *)
Pipeline == INSTANCE ConfigPipeline WITH
                Kinds <- ConfigKinds, stored <- Stored, file <- smbconf,
                used <- [s \in Services \ {"nfsd"} |-> loaded[s]],
                Services <- Services \ {"nfsd"}
NeverGoesBack == Pipeline!Spec

(* The flags are "whether configuration has unsaved changes": when they are *)
(* clear and nothing is in progress, the services run what is stored.       *)
Quiet ==
    /\ \A w \in Writers \cup Deleters : wpc[w] = "idle"
    /\ \A t \in Timers : tstate[t] = "free"
    /\ \A r \in Runs : rpc[r] = "idle"
    /\ hpc = "idle"
CleanMeansLoaded ==
    Quiet /\ dirty = {} =>
        \A s \in managed \ {"nfsd"} : \A k \in SoftMask[s] \cup HardMask[s] :
            loaded[s][k] = db[k]

(* "Check if timer is running": no timer is armed behind IsTimerRunning.    *)
ArmedIsReported == (\E t \in Timers : tstate[t] = "armed") => timer # None

(* A share that DeleteShare has removed from the database does not stay     *)
(* in smb.conf with every flag clear.                                       *)
CleanMeansWritten == Quiet /\ dirty = {} => \A k \in ConfigKinds : smbconf[k] = db[k]

(* checkSamba: after it a service that has no process is not reported as    *)
(* running.                                                                 *)
ReportedIsUp == [][HealthTick => status' \subseteq up']_vars

=============================================================================
