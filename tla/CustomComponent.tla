--------------------------- MODULE CustomComponent ---------------------------
(***************************************************************************)
(* HomeAssistantComponentService: the integration that SRAT installs into  *)
(* Home Assistant.                                                         *)
(*                                                                         *)
(* A request removes the directory of the component and extracts an        *)
(* archive into it, file by file, or only removes it; nothing keeps two    *)
(* requests apart.  Home Assistant loads the component when it starts, so  *)
(* a problem then asks for its restart.  The user confirms that problem in *)
(* Home Assistant, whose component tells SRAT to restart it.               *)
(***************************************************************************)
EXTENDS Naturals

CONSTANTS
    Callers,      \* requests
    Length,       \* the number of files in an archive
    Manifest,     \* the place of the manifest among them
    Embedded,     \* the version that the server has in itself
    Channels,     \* update channels to look at: "release", "develop"
    Develop,      \* the versions that a developer's archive may have; 0 is none
    Initial,      \* versions that may be installed at first; 0 is none
    Ops,          \* the requests of this instance
    Overlap,      \* whether an installation and a removal may overlap
    MaxRequests,  \* bound on the requests and on the restarts of Home Assistant
    MaxFailures,  \* bound on the failures
    Cut,          \* the content of a file that is being written, or was when that failed; no version
    None

Files == 1 .. Length

VARIABLES
    channel,    \* state.UpdateChannel
    develop,    \* the version of the developer's archive, 0 without one
    dir,        \* the directory of the component is there
    files,      \* the version of each file in it, Cut, or 0 without the file
    loaded,     \* the files as Home Assistant has loaded them
    restarting, \* Home Assistant goes down
    dying,      \* the supervisor restarts the server
    asked,      \* the problem custom_component_restart_required is open
    missing,    \* the problem custom_component_missing is open
    connected,  \* the component has said HELO (state.HAWsComponent)
    pc,         \* where each request is
    op,         \* what it does
    want,       \* the version it extracts
    next,       \* the number of the file it is at
    linked,     \* that file, while open, is still in the directory
    saw,        \* whether it found the directory
    verdict,    \* who removed the directory last, to do what, and with which result;
                \* forgotten once a copy into that directory was cut short
    requests, failures

diskVars    == <<dir, files>>
coreVars    == <<loaded, restarting, connected>>
problemVars == <<asked, missing>>
callVars    == <<pc, op, want, next, linked, saw>>
vars == <<channel, develop, dying, diskVars, coreVars, problemVars, callVars, verdict, requests, failures>>

Versions == ({Embedded} \cup Develop \cup Initial) \ {0}
Nothing == [f \in Files |-> 0]
Whole(v) == [f \in Files |-> v]
Unknown == [who |-> None, op |-> "none", result |-> "none"]

TypeOK ==
    LET Contents == {0, Cut} \cup Versions IN
    /\ channel \in Channels /\ develop \in Develop
    /\ dir \in BOOLEAN /\ files \in [Files -> Contents] /\ loaded \in [Files -> Contents]
    /\ (\E f \in Files : files[f] # 0) => dir
    /\ {restarting, dying, asked, missing, connected} \subseteq BOOLEAN
    /\ pc \in [Callers -> {"idle", "resolve", "look", "remove", "mkdir", "open", "write", "stat", "ask", "sync",
                           "dismiss", "restart", "supervisor", "answered"}]
    /\ op \in [Callers -> Ops \cup {None}]
    /\ want \in [Callers -> {0, Embedded} \cup Develop]
    /\ next \in [Callers -> 1 .. Length + 1]
    /\ linked \in [Callers -> BOOLEAN] /\ saw \in [Callers -> BOOLEAN]
    /\ verdict \in [who : Callers \cup {None}, op : Ops \cup {"none"}, result : {"none", "ok", "failed"}]
    /\ requests \in 0 .. MaxRequests /\ failures \in 0 .. MaxFailures

Init ==
    /\ channel \in Channels /\ develop \in Develop
    /\ \E v \in Initial : files = Whole(v) /\ dir = (v # 0)
    /\ loaded = files /\ restarting = FALSE /\ dying = FALSE /\ connected = dir
    /\ asked = FALSE /\ missing = FALSE
    /\ pc = [c \in Callers |-> "idle"] /\ op = [c \in Callers |-> None]
    /\ want = [c \in Callers |-> 0] /\ next = [c \in Callers |-> 1]
    /\ linked = [c \in Callers |-> FALSE] /\ saw = [c \in Callers |-> FALSE]
    /\ verdict = Unknown /\ requests = 0 /\ failures = 0

-----------------------------------------------------------------------------
(* Requests *)

Goto(c, from, to) == pc[c] = from /\ pc' = [pc EXCEPT ![c] = to]
Fails == failures < MaxFailures /\ failures' = failures + 1

(* The request of the last removal has ended.                              *)
Judge(c, result) ==
    verdict' = IF verdict.who = c /\ verdict.result = "none"
               THEN [verdict EXCEPT !.result = result] ELSE verdict

Stops(c, from) ==
    /\ Goto(c, from, "idle")
    /\ op' = [op EXCEPT ![c] = None] /\ want' = [want EXCEPT ![c] = 0]
    /\ next' = [next EXCEPT ![c] = 1] /\ linked' = [linked EXCEPT ![c] = FALSE]
    /\ saw' = [saw EXCEPT ![c] = FALSE]

Ends(c, from, result) == Stops(c, from) /\ Judge(c, result)

First == [install |-> "resolve", uninstall |-> "look", status |-> "stat", fixed |-> "dismiss",
          core |-> "restart", addon |-> "supervisor"]
Against == [install |-> "uninstall", uninstall |-> "install"]

Begin(c, o) ==
    /\ requests < MaxRequests /\ requests' = requests + 1
    /\ o = "fixed" => asked /\ connected
    /\ ~Overlap /\ o \in DOMAIN Against => \A b \in Callers : op[b] # Against[o]
    /\ Goto(c, "idle", First[o])
    /\ op' = [op EXCEPT ![c] = o]
    /\ UNCHANGED <<channel, develop, dying, diskVars, coreVars, problemVars, want, next, linked, saw, verdict,
                   failures>>

-----------------------------------------------------------------------------
(* InstallOrUpgrade *)

(* On the develop channel the developer's archive is taken unless an       *)
(* installed version is newer; a manifest that cannot be read is an error. *)
Chosen ==
    IF channel = "develop" /\ develop # 0
       /\ (files[Manifest] = 0 \/ files[Manifest] <= develop)
    THEN develop ELSE Embedded

Resolve(c) ==
    /\ channel = "develop" => files[Manifest] # Cut
    /\ Goto(c, "resolve", "remove")
    /\ want' = [want EXCEPT ![c] = Chosen]
    /\ UNCHANGED <<channel, develop, dying, diskVars, coreVars, problemVars, op, next, linked, saw, verdict,
                   requests, failures>>

ResolveFails(c) ==
    /\ channel = "develop" /\ files[Manifest] = Cut
    /\ Ends(c, "resolve", "failed")
    /\ UNCHANGED <<channel, develop, dying, diskVars, coreVars, problemVars, requests, failures>>

(* Mutant of RemoveAll: the new files are put over the old ones.           *)
RemoveNothing(c) ==
    /\ Goto(c, "remove", IF op[c] = "install" THEN "mkdir" ELSE "ask")
    /\ verdict' = [who |-> c, op |-> op[c], result |-> "none"]
    /\ UNCHANGED <<channel, develop, dying, diskVars, coreVars, problemVars, op, want, next, linked, saw,
                   requests, failures>>

(* os.RemoveAll: files that other requests have open go on without a name. *)
RemoveAll(c) ==
    /\ Goto(c, "remove", IF op[c] = "install" THEN "mkdir" ELSE "ask")
    /\ dir' = FALSE /\ files' = Nothing
    /\ linked' = [b \in Callers |-> FALSE]
    /\ verdict' = [who |-> c, op |-> op[c], result |-> "none"]
    /\ UNCHANGED <<channel, develop, dying, coreVars, problemVars, op, want, next, saw, requests, failures>>

(* Uninstall looks for the directory first.                                *)
Look(c) ==
    /\ dir
    /\ Goto(c, "look", "remove")
    /\ UNCHANGED <<channel, develop, dying, diskVars, coreVars, problemVars, op, want, next, linked, saw, verdict,
                   requests, failures>>

NothingToRemove(c) ==
    /\ ~dir
    /\ Ends(c, "look", "ok")
    /\ UNCHANGED <<channel, develop, dying, diskVars, coreVars, problemVars, requests, failures>>

(* It fails after some of the files.                                       *)
RemoveFails(c) ==
    /\ Fails
    /\ \E F \in SUBSET Files :
         /\ files' = [f \in Files |-> IF f \in F THEN 0 ELSE files[f]]
         /\ linked' = [b \in Callers |-> linked[b] /\ next[b] \notin F /\ b # c]
    /\ Goto(c, "remove", "idle")
    /\ verdict' = Unknown
    /\ op' = [op EXCEPT ![c] = None] /\ want' = [want EXCEPT ![c] = 0]
    /\ UNCHANGED <<channel, develop, dying, dir, coreVars, problemVars, next, saw, requests>>

(* MkdirAll of the file's directory.                                       *)
MakeDir(c) ==
    /\ next[c] <= Length
    /\ Goto(c, "mkdir", "open")
    /\ dir' = TRUE
    /\ UNCHANGED <<channel, develop, dying, files, coreVars, problemVars, op, want, next, linked, saw, verdict,
                   requests, failures>>

(* O_CREATE and O_TRUNC.                                                   *)
OpenFile(c) ==
    /\ dir
    /\ Goto(c, "open", "write")
    /\ files' = [files EXCEPT ![next[c]] = Cut]
    /\ linked' = [linked EXCEPT ![c] = TRUE]
    /\ UNCHANGED <<channel, develop, dying, dir, coreVars, problemVars, op, want, next, saw, verdict, requests,
                   failures>>

OpenFails(c) ==
    /\ ~dir
    /\ Ends(c, "open", "failed")
    /\ UNCHANGED <<channel, develop, dying, diskVars, coreVars, problemVars, requests, failures>>

(* io.Copy: over another version, what the two are together.               *)
CopyFile(c) ==
    LET f == next[c] IN
    /\ Goto(c, "write", "mkdir")
    /\ next' = [next EXCEPT ![c] = @ + 1] /\ linked' = [linked EXCEPT ![c] = FALSE]
    /\ IF ~linked[c] THEN UNCHANGED files
       ELSE \E content \in {want[c]} \cup (IF files[f] \in {Cut, want[c]} THEN {} ELSE {Cut}) :
                files' = [files EXCEPT ![f] = content]
    /\ UNCHANGED <<channel, develop, dying, dir, coreVars, problemVars, op, want, saw, verdict, requests,
                   failures>>

(* The disk is full; the file may be one that another request has written. *)
CopyFails(c) ==
    /\ Fails
    /\ Stops(c, "write")
    /\ verdict' = IF linked[c] THEN Unknown ELSE verdict
    /\ UNCHANGED <<channel, develop, dying, diskVars, coreVars, problemVars, requests>>

ManifestThere(c) ==
    /\ next[c] > Length /\ files[Manifest] # 0
    /\ Goto(c, "mkdir", "ask")
    /\ UNCHANGED <<channel, develop, dying, diskVars, coreVars, problemVars, op, want, next, linked, saw, verdict,
                   requests, failures>>

ManifestMissing(c) ==
    /\ next[c] > Length /\ files[Manifest] = 0
    /\ Ends(c, "mkdir", "failed")
    /\ UNCHANGED <<channel, develop, dying, diskVars, coreVars, problemVars, requests, failures>>

(* UpsertRestartRequiredRepair, whose failure is only logged.              *)
Ask(c) ==
    /\ asked' = TRUE
    /\ Ends(c, "ask", "ok")
    /\ UNCHANGED <<channel, develop, dying, diskVars, coreVars, missing, requests, failures>>

AskFails(c) ==
    /\ Fails
    /\ Ends(c, "ask", "ok")
    /\ UNCHANGED <<channel, develop, dying, diskVars, coreVars, problemVars, requests>>

-----------------------------------------------------------------------------
(* GET status *)

(* GetStatus looks at the directory and, when it is there, the manifest.   *)
GetStatus(c) ==
    /\ ~(dir /\ files[Manifest] = Cut)
    /\ Goto(c, "stat", "sync")
    /\ saw' = [saw EXCEPT ![c] = dir \/ connected]
    /\ UNCHANGED <<channel, develop, dying, diskVars, coreVars, problemVars, op, want, next, linked, verdict,
                   requests, failures>>

StatusFails(c) ==
    /\ dir /\ files[Manifest] = Cut
    /\ Ends(c, "stat", "failed")
    /\ UNCHANGED <<channel, develop, dying, diskVars, coreVars, problemVars, requests, failures>>

(* Mutant of SyncIssueStatus: a component that is there closes both.       *)
SyncBothProblems(c) ==
    /\ missing' = ~saw[c] /\ asked' = (asked /\ ~saw[c])
    /\ Ends(c, "sync", "ok")
    /\ UNCHANGED <<channel, develop, dying, diskVars, coreVars, requests, failures>>

SyncIssueStatus(c) ==
    /\ missing' = ~saw[c]
    /\ Ends(c, "sync", "ok")
    /\ UNCHANGED <<channel, develop, dying, diskVars, coreVars, asked, requests, failures>>

-----------------------------------------------------------------------------
(* Restarts *)

(* The message FIXED of the component dismisses the problem, whose failure *)
(* is only logged ...                                                      *)
DismissFixed(c) ==
    /\ Goto(c, "dismiss", "restart")
    /\ \/ asked' = FALSE /\ UNCHANGED failures
       \/ Fails /\ UNCHANGED asked
    /\ UNCHANGED <<channel, develop, dying, diskVars, coreVars, missing, op, want, next, linked, saw, verdict,
                   requests>>

(* ... and has Home Assistant restarted, as RestartHACore has.             *)
RestartHomeAssistant(c) ==
    /\ restarting' = TRUE
    /\ Ends(c, "restart", "ok")
    /\ UNCHANGED <<channel, develop, dying, diskVars, loaded, connected, problemVars, requests, failures>>

(* The supervisor or the database refuses a call of a request.             *)
CallFails(c) ==
    /\ Fails
    /\ \E from \in {"sync", "restart", "supervisor", "answered"} : Stops(c, from)
    /\ UNCHANGED <<channel, develop, dying, diskVars, coreVars, problemVars, verdict, requests>>

(* Home Assistant starts, whoever wanted it to, and loads what is there.   *)
HomeAssistantStarts ==
    /\ restarting \/ requests < MaxRequests
    /\ requests' = IF restarting THEN requests ELSE requests + 1
    /\ restarting' = FALSE /\ connected' = FALSE
    /\ loaded' = files
    /\ UNCHANGED <<channel, develop, dying, diskVars, problemVars, callVars, verdict, failures>>

(* A component that could be loaded connects and says HELO.                *)
Hello ==
    /\ ~connected /\ \E v \in Versions : loaded = Whole(v)
    /\ connected' = TRUE
    /\ UNCHANGED <<channel, develop, dying, diskVars, loaded, restarting, problemVars, callVars, verdict,
                   requests, failures>>

(* RestartAddon has the supervisor restart this server ...                 *)
RestartSelfApp(c) ==
    /\ Goto(c, "supervisor", "answered")
    /\ dying' = TRUE
    /\ UNCHANGED <<channel, develop, diskVars, coreVars, problemVars, op, want, next, linked, saw, verdict,
                   requests, failures>>

(* ... and dismisses the problem, unless the server has ended by then.     *)
DismissRestarted(c) ==
    /\ asked' = FALSE
    /\ Ends(c, "answered", "ok")
    /\ UNCHANGED <<channel, develop, dying, diskVars, coreVars, missing, requests, failures>>

(* The server ends, asked to or not, and with it every request.            *)
Dies ==
    /\ IF dying THEN UNCHANGED failures ELSE Fails
    /\ dying' = FALSE /\ connected' = FALSE
    /\ pc' = [c \in Callers |-> "idle"] /\ op' = [c \in Callers |-> None]
    /\ want' = [c \in Callers |-> 0] /\ next' = [c \in Callers |-> 1]
    /\ linked' = [c \in Callers |-> FALSE] /\ saw' = [c \in Callers |-> FALSE]
    /\ verdict' = IF verdict.result = "none" \/ \E c \in Callers : linked[c] THEN Unknown ELSE verdict
    /\ UNCHANGED <<channel, develop, diskVars, loaded, restarting, problemVars, requests>>

-----------------------------------------------------------------------------
Install(c) ==
    \/ Resolve(c) \/ ResolveFails(c) \/ MakeDir(c) \/ OpenFile(c) \/ OpenFails(c)
    \/ CopyFile(c) \/ CopyFails(c) \/ ManifestThere(c) \/ ManifestMissing(c)

Next ==
    \/ \E c \in Callers :
         \/ \E o \in Ops : Begin(c, o)
         \/ Install(c)
         \/ RemoveAll(c) \/ Look(c) \/ NothingToRemove(c) \/ RemoveFails(c)
         \/ Ask(c) \/ AskFails(c)
         \/ GetStatus(c) \/ StatusFails(c) \/ SyncIssueStatus(c)
         \/ DismissFixed(c) \/ RestartHomeAssistant(c) \/ CallFails(c)
         \/ RestartSelfApp(c) \/ DismissRestarted(c)
    \/ HomeAssistantStarts \/ Hello \/ Dies

Spec == Init /\ [][Next]_vars

-----------------------------------------------------------------------------
(* Properties *)

Quiet == \A c \in Callers : pc[c] = "idle"

(* Once no request is under way, the one that removed the directory last   *)
(* has got what it has reported: a whole component of one version, or no   *)
(* directory.  Others may have extracted at the same time, and what was    *)
(* there before may be what a failure or a crash has left, or the files of *)
(* another version (InstallOrUpgradeFromZip, Uninstall).                   *)
LastRemoverGets ==
    Quiet /\ verdict.result = "ok" =>
        IF verdict.op = "install" THEN \E v \in Versions : files = Whole(v) ELSE ~dir

(* As long as nothing has failed, whatever Home Assistant has not loaded   *)
(* as it is on the disk is asked for: no confirmation, restart or request  *)
(* at the same time loses the question ("Home Assistant should be          *)
(* restarted to apply SRAT custom component changes").                     *)
RestartIsAsked ==
    failures = 0 /\ Quiet /\ ~restarting => files = loaded \/ asked

(* A status can be given whenever no request is under way; the buttons of  *)
(* the web interface need one.                                             *)
StatusAnswers == Quiet => ~(dir /\ files[Manifest] = Cut)
=============================================================================
