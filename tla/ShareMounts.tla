---------------------------- MODULE ShareMounts ----------------------------
(***************************************************************************)
(* The shares in the database and the network mounts that Home Assistant's *)
(* supervisor keeps of them.                                               *)
(*                                                                         *)
(* ShareService stores a change and emits it.  DirtyDataService marks the  *)
(* shares dirty, which leads to a configuration run and a CLEAN;           *)
(* SupervisorService unmounts at once a share that was removed, disabled   *)
(* or is no longer mounted by Home Assistant, and on CLEAN, or when Home   *)
(* Assistant starts on clean data, passes over all shares: mount or update *)
(* each wanted one, then unmount the rest.  A pass is a sequence of HTTP   *)
(* calls, and requests go on between any two of them.                      *)
(***************************************************************************)
EXTENDS Naturals, FiniteSets

CONSTANTS
    Names,       \* names of shares
    Editors,     \* goroutines of HTTP requests and of mount-point events
    Usages,      \* the uses of a share in this instance
    Exportable,  \* the shares on a filesystem that NFS can export
    Leftovers,   \* mounts that may be there when the program starts
    MaxChanges,  \* bound on the changes of users and the starts of Home Assistant
    Faults,      \* what can fail: a "call" of the supervisor, a configuration "run", one
                 \* of "clean" data, the "update" of a share just revived
    Prompt,      \* whether the timer's five seconds outlast what is left of a
                 \* request and of the pass that Home Assistant's start began
    None

Mountable == {"media", "share", "backup"}
Types     == {"cifs", "nfs"}
Passes    == {"clean", "start"}   \* in the timer's callback, in the web socket's goroutine
Mount     == [usage : Usages, type : Types, active : BOOLEAN, ours : BOOLEAN]
Row       == [state : {"none", "live", "deleted"}, on : BOOLEAN, usage : Usages]
Job       == [name : Names, usage : Usages, type : Types]

ASSUME InstanceAssumption ==
    /\ Exportable \subseteq Names /\ Leftovers \subseteq Mount
    /\ MaxChanges \in Nat /\ Faults \subseteq {"call", "run", "clean", "update"}
    /\ None \notin Mount /\ None \notin Names

VARIABLES
    row,      \* the table of shares: the row of each name
    vol,      \* the shares whose volume is mounted
    nfs,      \* the stored setting HAUseNFS
    mounts,   \* the supervisor's network mount of each name
    ready,    \* HACoreReady
    dirty,    \* a flag of the dirty tracker is set that leads to a run
    app,      \* the AppConfig flag
    armed,    \* the timer is armed
    epc,      \* where each request is
    ename,    \* the share it is about
    erow,     \* the content it stores or announces
    event,    \* the event it emits
    ppc,      \* where each pass is
    todo,     \* the jobs it has still to do
    job,      \* the mount it works on
    tries,    \* retries left for it
    lost,     \* the names it has still to unmount
    changes   \* changes and starts so far

shareVars   == <<row, vol, nfs>>
trackerVars == <<dirty, app, armed>>
editVars    == <<epc, ename, erow, event>>
passVars    == <<ppc, todo, job, tries, lost>>
vars == <<shareVars, mounts, ready, trackerVars, editVars, passVars, changes>>

Live(n)   == row[n].state = "live"
Wanted(n) == Live(n) /\ row[n].on /\ row[n].usage \in Mountable
TypeOf(n) == IF nfs /\ n \in Exportable THEN "nfs" ELSE "cifs"
NoRow == [state |-> "none", on |-> FALSE, usage |-> CHOOSE u \in Usages : TRUE]
NoJob == [name |-> CHOOSE n \in Names : TRUE, usage |-> NoRow.usage, type |-> "cifs"]

EditStates == {"idle", "toggle", "fill", "mark", "arm", "unmount", "erase", "delete"}
PassStates == {"idle", "check", "config", "list", "next", "look", "create", "remove",
               "recreate", "update", "replace", "lost", "seen", "unmount", "erase"}

TypeOK ==
    /\ row \in [Names -> Row] /\ vol \subseteq Names /\ nfs \in BOOLEAN
    /\ mounts \in [Names -> Mount \cup {None}]
    /\ ready \in BOOLEAN /\ dirty \in BOOLEAN /\ app \in BOOLEAN /\ armed \in BOOLEAN
    /\ epc \in [Editors -> EditStates]
    /\ ename \in [Editors -> Names] /\ erow \in [Editors -> Row]
    /\ event \in [Editors -> {None, "ADD", "UPDATE", "REMOVE", "SETTING"}]
    /\ ppc \in [Passes -> PassStates]
    /\ todo \in [Passes -> SUBSET (Names \X Usages)]
    /\ job \in [Passes -> Job] /\ tries \in [Passes -> 0 .. 3]
    /\ lost \in [Passes -> SUBSET Names]
    /\ changes \in 0 .. MaxChanges

(* The program starts with every flag set, on the rows and the network      *)
(* mounts that earlier runs have left.                                      *)
Init ==
    /\ row \in [Names -> {r \in Row : r.state = "none" => r = NoRow}]
    /\ vol \in SUBSET Names /\ nfs \in BOOLEAN
    /\ mounts \in [Names -> Leftovers \cup {None}]
    /\ ready \in BOOLEAN /\ dirty = TRUE /\ app = FALSE /\ armed = FALSE
    /\ epc = [e \in Editors |-> "idle"]
    /\ ename = [e \in Editors |-> NoJob.name] /\ erow = [e \in Editors |-> NoRow]
    /\ event = [e \in Editors |-> None]
    /\ ppc = [p \in Passes |-> "idle"]
    /\ todo = [p \in Passes |-> {}] /\ job = [p \in Passes |-> NoJob]
    /\ tries = [p \in Passes |-> 0] /\ lost = [p \in Passes |-> {}]
    /\ changes = 0

-----------------------------------------------------------------------------
(* ShareService: store, then emit *)

Begin(e) ==
    /\ epc[e] = "idle"
    /\ changes < MaxChanges
    /\ changes' = changes + 1
    /\ UNCHANGED <<mounts, ready, trackerVars, passVars>>

Request(e, next, type, n, r) ==
    /\ epc' = [epc EXCEPT ![e] = next]
    /\ ename' = [ename EXCEPT ![e] = n]
    /\ erow' = [erow EXCEPT ![e] = r]
    /\ event' = [event EXCEPT ![e] = type]

EndRequest(e) == Request(e, "idle", None, NoJob.name, NoRow)

(* CreateShare: a row that was deleted is first made live as it was ...     *)
CreateShare(e, n, r) ==
    /\ Begin(e)
    /\ \/ /\ row[n].state = "none"
          /\ row' = [row EXCEPT ![n] = r]
          /\ Request(e, "mark", "ADD", n, r)
       \/ /\ row[n].state = "deleted"
          /\ row' = [row EXCEPT ![n].state = "live"]
          /\ Request(e, "fill", "UPDATE", n, r)
    /\ UNCHANGED <<vol, nfs>>

(* ... and then updated as the request says.                                *)
FillShare(e) ==
    /\ epc[e] = "fill"
    /\ \/ /\ Live(ename[e])
          /\ row' = [row EXCEPT ![ename[e]] = erow[e]]
          /\ epc' = [epc EXCEPT ![e] = "mark"]
          /\ UNCHANGED <<ename, erow, event>>
       \/ ("update" \in Faults \/ ~Live(ename[e])) /\ EndRequest(e) /\ UNCHANGED row
    /\ UNCHANGED <<vol, nfs, mounts, ready, trackerVars, passVars, changes>>

(* UpdateShare, which may rename: the row moves in one transaction.         *)
UpdateShare(e, n, m, r) ==
    /\ Begin(e)
    /\ Live(n) /\ (m # n => row[m].state = "none")
    /\ row' = [row EXCEPT ![n] = NoRow, ![m] = r]
    /\ Request(e, "mark", "UPDATE", m, r)
    /\ UNCHANGED <<vol, nfs>>

(* setShareEnabled reads the row ...                                        *)
ReadShare(e, n, on) ==
    /\ Begin(e)
    /\ Live(n)
    /\ Request(e, "toggle", "UPDATE", n, [row[n] EXCEPT !.on = on])
    /\ UNCHANGED shareVars

(* ... and writes all of it back, if the name still has one.                *)
SetShareEnabled(e) ==
    /\ epc[e] = "toggle"
    /\ row' = IF Live(ename[e]) THEN [row EXCEPT ![ename[e]] = erow[e]] ELSE row
    /\ epc' = [epc EXCEPT ![e] = "mark"]
    /\ UNCHANGED <<vol, nfs, mounts, ready, trackerVars, ename, erow, event, passVars, changes>>

(* DeleteShare announces REMOVE first ...                                   *)
RemoveShare(e, n) ==
    /\ Begin(e)
    /\ Live(n)
    /\ Request(e, "mark", "REMOVE", n, row[n])
    /\ UNCHANGED shareVars

(* ... and deletes the row, if it is still there, when everybody has heard. *)
DeleteShare(e) ==
    /\ epc[e] = "delete"
    /\ row' = IF Live(ename[e]) THEN [row EXCEPT ![ename[e]].state = "deleted"] ELSE row
    /\ EndRequest(e)
    /\ UNCHANGED <<vol, nfs, mounts, ready, trackerVars, passVars, changes>>

(* A volume is mounted or unmounted: its mount-point event makes            *)
(* ShareService announce the share on it.                                   *)
VolumeChanges(e, n) ==
    /\ Begin(e)
    /\ vol' = IF n \in vol THEN vol \ {n} ELSE vol \cup {n}
    /\ IF Live(n) THEN Request(e, "mark", "UPDATE", n, row[n]) ELSE UNCHANGED editVars
    /\ UNCHANGED <<row, nfs>>

(* UpdateSettings changes HAUseNFS.                                         *)
SettingsChange(e) ==
    /\ Begin(e)
    /\ nfs' = ~nfs
    /\ Request(e, "mark", "SETTING", NoJob.name, NoRow)
    /\ UNCHANGED <<row, vol>>

-----------------------------------------------------------------------------
(* DirtyDataService hears of it first, then SupervisorService *)

(* The callback of the timer holds the mutex from its run to its last call. *)
MutexFree == ppc["clean"] = "idle"

Mark(e) ==
    /\ epc[e] = "mark"
    /\ dirty' = TRUE
    /\ epc' = [epc EXCEPT ![e] = "arm"]
    /\ UNCHANGED <<shareVars, mounts, ready, app, armed, ename, erow, event, passVars, changes>>

(* The listener of the supervisor's service unmounts what Home Assistant    *)
(* shall no longer mount.                                                   *)
MustUnmount(e) ==
    \/ event[e] = "REMOVE"
    \/ event[e] = "UPDATE" /\ (~erow[e].on \/ erow[e].usage \notin Mountable)

AfterUnmount(e) ==
    IF event[e] = "REMOVE"
    THEN epc' = [epc EXCEPT ![e] = "delete"] /\ UNCHANGED <<ename, erow, event>>
    ELSE EndRequest(e)

Arm(e) ==
    /\ epc[e] = "arm"
    /\ MutexFree
    /\ armed' = TRUE
    /\ IF MustUnmount(e)
       THEN epc' = [epc EXCEPT ![e] = "unmount"] /\ UNCHANGED <<ename, erow, event>>
       ELSE AfterUnmount(e)
    /\ UNCHANGED <<shareVars, mounts, ready, dirty, app, passVars, changes>>

Ours(n) == mounts[n] # None /\ mounts[n].ours

(* NetworkUnmountShare lists the mounts ...                                 *)
UnmountLooks(e) ==
    /\ epc[e] = "unmount"
    /\ \/ ready /\ Ours(ename[e]) /\ epc' = [epc EXCEPT ![e] = "erase"]
          /\ UNCHANGED <<ename, erow, event>>
       \/ (~ready \/ ~Ours(ename[e]) \/ "call" \in Faults) /\ AfterUnmount(e)
    /\ UNCHANGED <<shareVars, mounts, ready, trackerVars, passVars, changes>>

(* ... and removes this one; an error is logged.                            *)
UnmountErases(e) ==
    /\ epc[e] = "erase"
    /\ \/ mounts' = [mounts EXCEPT ![ename[e]] = None]
       \/ "call" \in Faults /\ UNCHANGED mounts
    /\ AfterUnmount(e)
    /\ UNCHANGED <<shareVars, ready, trackerVars, passVars, changes>>

(* The timer's five seconds are over.                                       *)
Fire ==
    /\ armed
    /\ Prompt => /\ \A e \in Editors : epc[e] \notin {"unmount", "erase", "delete"}
                 /\ ppc["start"] \in {"idle", "check"}
    /\ armed' = FALSE
    /\ ppc' = [ppc EXCEPT !["clean"] = "config"]
    /\ UNCHANGED <<shareVars, mounts, ready, dirty, app, editVars, todo, job, tries, lost, changes>>

(* The configuration run fails and emits no CLEAN.                          *)
RunFails ==
    /\ IF dirty THEN "run" \in Faults ELSE "clean" \in Faults
    /\ ppc["clean"] = "config"
    /\ ppc' = [ppc EXCEPT !["clean"] = "idle"]
    /\ UNCHANGED <<shareVars, mounts, ready, trackerVars, editVars, todo, job, tries, lost, changes>>

(* CLEAN wipes the flags and, when Home Assistant is ready, passes on.      *)
Clean ==
    /\ ppc["clean"] = "config"
    /\ dirty' = FALSE /\ app' = FALSE
    /\ ppc' = [ppc EXCEPT !["clean"] = "list"]
    /\ UNCHANGED <<shareVars, mounts, ready, armed, editVars, todo, job, tries, lost, changes>>

(* The health loop arms a timer for a flag that has none.                   *)
HealthArm ==
    /\ dirty /\ ~armed /\ MutexFree
    /\ armed' = TRUE
    /\ UNCHANGED <<shareVars, mounts, ready, dirty, app, editVars, passVars, changes>>

(* The add-on's own configuration changes: a flag and no timer.             *)
AppConfigChanges ==
    /\ ~app /\ changes < MaxChanges
    /\ app' = TRUE
    /\ changes' = changes + 1
    /\ UNCHANGED <<shareVars, mounts, ready, dirty, armed, editVars, passVars>>

-----------------------------------------------------------------------------
(* Home Assistant starts and stops *)

HomeAssistantStarts ==
    /\ ~ready /\ changes < MaxChanges
    /\ ppc["start"] = "idle"
    /\ ready' = TRUE
    /\ changes' = changes + 1
    /\ ppc' = [ppc EXCEPT !["start"] = "check"]
    /\ UNCHANGED <<shareVars, mounts, trackerVars, editVars, todo, job, tries, lost>>

HomeAssistantStops ==
    /\ ready /\ changes < MaxChanges
    /\ ready' = FALSE
    /\ UNCHANGED <<shareVars, mounts, trackerVars, editVars, passVars, changes>>

IsClean == ~dirty /\ ~app /\ ~armed /\ ppc["clean"] # "config"

(* Mutant of CheckClean: it waits for a CLEAN that is not coming.           *)
CheckCleanWaits ==
    /\ ppc["start"] = "check"
    /\ ppc' = [ppc EXCEPT !["start"] = "idle"]
    /\ UNCHANGED <<shareVars, mounts, ready, trackerVars, editVars, todo, job, tries, lost, changes>>

(* The listener of START passes only when nothing is dirty: otherwise a     *)
(* CLEAN is on its way.                                                     *)
CheckClean ==
    /\ ppc["start"] = "check"
    /\ ppc' = [ppc EXCEPT !["start"] = IF IsClean THEN "list" ELSE "idle"]
    /\ UNCHANGED <<shareVars, mounts, ready, trackerVars, editVars, todo, job, tries, lost, changes>>

-----------------------------------------------------------------------------
(* SupervisorService: NetworkMountAllShares, one HTTP call at a time *)

At(p, here, next) ==
    /\ ppc[p] = here
    /\ ppc' = [ppc EXCEPT ![p] = next]

Outside == UNCHANGED <<shareVars, ready, trackerVars, editVars, changes>>

EndPass(p, here) ==
    /\ At(p, here, "idle")
    /\ job' = [job EXCEPT ![p] = NoJob] /\ tries' = [tries EXCEPT ![p] = 0]
    /\ todo' = [todo EXCEPT ![p] = {}] /\ lost' = [lost EXCEPT ![p] = {}]
    /\ UNCHANGED mounts /\ Outside

(* Enabled shares on a mounted volume that Home Assistant uses are mounted. *)
ListShares(p) ==
    \/ /\ ready
       /\ At(p, "list", "next")
       /\ todo' = [todo EXCEPT ![p] = {<<n, row[n].usage>> : n \in {m \in vol : Wanted(m)}}]
       /\ UNCHANGED <<mounts, job, tries, lost>> /\ Outside
    \/ ~ready /\ EndPass(p, "list")

(* Mutant of NextShare: one retry more than there are.                      *)
NextShareFour(p) ==
    /\ \E s \in todo[p] :
            /\ At(p, "next", "look")
            /\ todo' = [todo EXCEPT ![p] = @ \ {s}]
            /\ job' = [job EXCEPT ![p].name = s[1], ![p].usage = s[2]]
            /\ tries' = [tries EXCEPT ![p] = 4]
    /\ UNCHANGED <<mounts, lost>> /\ Outside

NextShare(p) ==
    /\ ppc[p] = "next"
    /\ \/ \E s \in todo[p] :
            /\ todo' = [todo EXCEPT ![p] = @ \ {s}]
            /\ job' = [job EXCEPT ![p].name = s[1], ![p].usage = s[2]]
            /\ tries' = [tries EXCEPT ![p] = 3]
            /\ ppc' = [ppc EXCEPT ![p] = "look"]
       \/ /\ todo[p] = {}
          /\ ppc' = [ppc EXCEPT ![p] = "lost"]
          /\ job' = [job EXCEPT ![p] = NoJob] /\ tries' = [tries EXCEPT ![p] = 0]
          /\ UNCHANGED todo
    /\ UNCHANGED <<mounts, lost>> /\ Outside

Mounted(j) == [usage |-> j.usage, type |-> j.type, active |-> TRUE, ours |-> TRUE]

(* Whether the listed mount of a wanted share is as it should be.           *)
Agrees(j) ==
    LET m == mounts[j.name] IN m.usage = j.usage /\ m.active /\ (nfs <=> m.type = "nfs")

(* networkMountShareWithRetry lists the mounts and reads the settings.  It  *)
(* sees only mounts of this add-on's address.                               *)
LookForMount(p) ==
    LET n == job[p].name IN
    /\ \/ At(p, "look", "create") /\ ready /\ tries[p] > 0 /\ ~Ours(n)
       \/ At(p, "look", "update") /\ ready /\ tries[p] > 0 /\ Ours(n) /\ ~Agrees(job[p])
       \/ At(p, "look", "next")   /\ ready /\ Ours(n) /\ Agrees(job[p])
       \/ At(p, "look", "next")   /\ (~ready \/ tries[p] = 0 \/ "call" \in Faults)
    /\ job' = [job EXCEPT ![p].type = TypeOf(n)]
    /\ UNCHANGED <<mounts, todo, tries, lost>> /\ Outside

(* The supervisor refuses, with 400, to create what it has.                 *)
CreateMount(p, here, refused) ==
    LET n == job[p].name IN
    /\ \/ At(p, here, "next") /\ mounts[n] = None /\ mounts' = [mounts EXCEPT ![n] = Mounted(job[p])]
       \/ At(p, here, refused) /\ mounts[n] # None /\ UNCHANGED mounts
       \/ At(p, here, "next") /\ "call" \in Faults /\ UNCHANGED mounts
    /\ UNCHANGED <<todo, job, tries, lost>> /\ Outside

(* It refuses to remove what it has not.                                    *)
RemoveMount(p, here, next) ==
    LET n == job[p].name IN
    /\ \/ At(p, here, next) /\ mounts[n] # None /\ mounts' = [mounts EXCEPT ![n] = None]
       \/ At(p, here, "next") /\ (mounts[n] = None \/ "call" \in Faults) /\ UNCHANGED mounts
    /\ tries' = IF ppc'[p] = "look" THEN [tries EXCEPT ![p] = @ - 1] ELSE tries
    /\ UNCHANGED <<todo, job, lost>> /\ Outside

(* A mount whose systemd unit has failed may refuse the update, with 400.   *)
UpdateMount(p) ==
    LET n == job[p].name IN
    /\ \/ At(p, "update", "next") /\ mounts[n] # None /\ mounts' = [mounts EXCEPT ![n] = Mounted(job[p])]
       \/ At(p, "update", "replace") /\ mounts[n] # None /\ ~mounts[n].active /\ UNCHANGED mounts
       \/ At(p, "update", "next") /\ (mounts[n] = None \/ "call" \in Faults) /\ UNCHANGED mounts
    /\ UNCHANGED <<todo, job, tries, lost>> /\ Outside

(* networkUnmountLostShares lists the shares, whether valid or not, ...     *)
ListAgain(p) ==
    /\ At(p, "lost", "seen")
    /\ lost' = [lost EXCEPT ![p] = {n \in Names : ~Wanted(n)}]
    /\ UNCHANGED <<mounts, todo, job, tries>> /\ Outside

(* ... then the mounts, ...                                                 *)
ListMounts(p) ==
    \/ /\ ready
       /\ At(p, "seen", "unmount")
       /\ lost' = [lost EXCEPT ![p] = {n \in @ : Ours(n)}]
       /\ UNCHANGED <<mounts, todo, job, tries>> /\ Outside
    \/ (~ready \/ "call" \in Faults) /\ EndPass(p, "seen")

(* ... and unmounts those of no share, listing them again for each.         *)
UnmountLost(p) ==
    \/ \E n \in lost[p] :
         /\ \/ At(p, "unmount", "erase") /\ ready /\ Ours(n)
            \/ At(p, "unmount", "unmount") /\ (~ready \/ ~Ours(n) \/ "call" \in Faults)
         /\ lost' = [lost EXCEPT ![p] = @ \ {n}]
         /\ job' = [job EXCEPT ![p].name = n]
         /\ UNCHANGED <<mounts, todo, tries>> /\ Outside
    \/ lost[p] = {} /\ EndPass(p, "unmount")

EraseLost(p) ==
    /\ At(p, "erase", "unmount")
    /\ \/ mounts' = [mounts EXCEPT ![job[p].name] = None]
       \/ "call" \in Faults /\ UNCHANGED mounts
    /\ UNCHANGED <<todo, job, tries, lost>> /\ Outside

Pass(p) ==
    \/ ListShares(p) \/ NextShare(p) \/ LookForMount(p)
    \/ CreateMount(p, "create", "remove") \/ RemoveMount(p, "remove", "recreate")
    \/ CreateMount(p, "recreate", "next")
    \/ UpdateMount(p) \/ RemoveMount(p, "replace", "look")
    \/ ListAgain(p) \/ ListMounts(p) \/ UnmountLost(p) \/ EraseLost(p)

-----------------------------------------------------------------------------
Change(e) ==
    \/ \E n \in Names : \E r \in {r \in Row : r.state = "live"} :
           CreateShare(e, n, r) \/ \E m \in Names : UpdateShare(e, n, m, r)
    \/ \E n \in Names : (\E on \in BOOLEAN : ReadShare(e, n, on)) \/ RemoveShare(e, n) \/ VolumeChanges(e, n)
    \/ SettingsChange(e)
Handle(e) == FillShare(e) \/ SetShareEnabled(e) \/ Mark(e) \/ Arm(e)
               \/ UnmountLooks(e) \/ UnmountErases(e) \/ DeleteShare(e)

Next ==
    \/ \E e \in Editors : Change(e) \/ Handle(e)
    \/ Fire \/ RunFails \/ Clean \/ HealthArm \/ AppConfigChanges
    \/ HomeAssistantStarts \/ HomeAssistantStops \/ CheckClean
    \/ \E p \in Passes : Pass(p)

Spec == Init /\ [][Next]_vars

(* A request and a pass that began go on; the mutex is handed to who waits; *)
(* timers expire, the health loop ticks, and not every run fails.           *)
Fairness ==
    /\ \A e \in Editors : SF_vars(Handle(e))
    /\ WF_vars(Fire) /\ SF_vars(Clean) /\ SF_vars(HealthArm) /\ WF_vars(CheckClean)
    /\ \A p \in Passes : WF_vars(Pass(p))
FairSpec == Spec /\ Fairness

-----------------------------------------------------------------------------
(* Properties *)

(* Home Assistant has a share mounted as it is stored.  A share whose       *)
(* volume is not mounted keeps the mount it had.                            *)
Follows(n) ==
    /\ Wanted(n) /\ n \in vol =>
         /\ Ours(n) /\ mounts[n].active /\ mounts[n].usage = row[n].usage
         /\ mounts[n].type = TypeOf(n)
    /\ ~Wanted(n) => ~Ours(n)

Settled ==
    /\ \A e \in Editors : epc[e] = "idle"
    /\ \A p \in Passes : ppc[p] = "idle"
    /\ ready /\ IsClean

(* When nothing is in progress or dirty, the mounts are those of the        *)
(* shares: whatever requests did between any two calls of a pass, a later   *)
(* one has put it right.                                                    *)
SettledFollows == Settled => \A n \in Names : Follows(n)

(* Every change is followed in the end, once and for all: the timer, the    *)
(* health loop and Home Assistant's start leave no gap between them.        *)
MountsFollow == <>[](ready /\ ~app => \A n \in Names : Follows(n))

(* The same when the AppConfig flag is set, which starts no run: Home       *)
(* Assistant's start then finds dirty data and leaves it to a CLEAN that    *)
(* nobody will emit.                                                        *)
MountsFollowAnyhow == <>[](ready => \A n \in Names : Follows(n))
=============================================================================
