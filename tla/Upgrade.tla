------------------------------- MODULE Upgrade -------------------------------
(***************************************************************************)
(* UpgradeService: the server replaces its own binaries.                   *)
(*                                                                         *)
(* The release channels fetch a package: the loop of the service does with *)
(* automatic updates on, and so does every PUT /update, in a goroutine     *)
(* that knows of no other.  A package is extracted to a shared directory,  *)
(* each file checked against a signature which one shared verifier holds,  *)
(* and installed from there, file by file, into the directory of the       *)
(* binaries; srat-server is a link to one of three builds of the server.   *)
(* The develop channel installs what a developer copies to the shared      *)
(* directory.  A server that has installed everything shuts down, and s6   *)
(* starts what the link names.                                             *)
(***************************************************************************)
EXTENDS Naturals, FiniteSets

CONSTANTS
    Jobs,         \* the goroutines that install
    Loop,         \* the one of the service's own loop, on the release channels
    Callbacks,    \* those that the callbacks of the watcher's timer may be
    Files,        \* the files of a package, each a member of Rank's domain
    Channels,     \* channels to look at: "release", "develop"
    LinkerSets,   \* the dynamic linkers that a host may have: sets of Dynamic
    MaxVersion,   \* bound on the versions that appear
    MaxTrouble,   \* bound on requests, copies, failed steps and restarts from outside
    None

Variants == {"glib", "musl", "static"}
Dynamic  == {"glib", "musl"}
(* The order of the archive.                                               *)
Rank     == [cli |-> 1, glib |-> 2, musl |-> 3, static |-> 4]
Versions == 1 .. MaxVersion

VARIABLES
    channel,    \* state.UpdateChannel
    linkers,    \* the dynamic linkers of the host
    published,  \* the newest release; on the develop channel, the newest build
    data,       \* UpdateDataDir: the version of each file, 0 if it is empty
    bin,        \* the directory of the binaries
    link,       \* where srat-server points
    running,    \* the version of this process, 0 between two of them
    exe,        \* the file it runs from, None once that file was replaced
    verifier,   \* the signature loaded last: of which file and version
    stage,      \* where each job is
    want,       \* the version of each file in its package, 0 for none
    left,       \* files it has still to go through
    own,        \* exe as it was when it began to install
    opened,     \* the file it has open, and what it reads: a version, 0 if empty
    pending,    \* pendingFiles of the watcher, whose timer runs unless empty
    trouble     \* how much may still go wrong

hostVars == <<channel, linkers>>
jobVars  == <<stage, want, left, own, opened>>
vars == <<hostVars, published, data, bin, link, running, exe, verifier, jobVars, pending, trouble>>

Stages == {"idle", "extract", "unpack", "install", "apply", "link", "restart"}

TypeOK ==
    /\ channel \in Channels /\ linkers \in LinkerSets
    /\ published \in Versions
    /\ data \in [Files -> 0 .. MaxVersion] /\ bin \in [Files -> Versions]
    /\ link \in Variants /\ running \in 0 .. MaxVersion /\ exe \in Variants \cup {None}
    /\ verifier \in [file : Files, version : Versions] \cup {None}
    /\ stage \in [Jobs -> Stages]
    /\ want \in [Jobs -> [Files -> 0 .. MaxVersion]]
    /\ left \in [Jobs -> SUBSET Files]
    /\ own \in [Jobs -> Variants \cup {None}]
    /\ opened \in [Jobs -> [file : Files, version : 0 .. MaxVersion] \cup {None}]
    /\ pending \subseteq Files
    /\ trouble \in 0 .. MaxTrouble

Nothing == [f \in Files |-> 0]

(* The best variant of a package for a host.                               *)
Best(package, host) ==
    IF "musl" \in package \cap host THEN "musl"
    ELSE IF "glib" \in package \cap host THEN "glib" ELSE "static"

(* The image comes with all files of one version.                          *)
Init ==
    /\ channel \in Channels /\ linkers \in LinkerSets
    /\ published = 1
    /\ data = Nothing /\ bin = [f \in Files |-> 1]
    /\ link \in {"static", Best(Files, linkers)}
    /\ running = 1 /\ exe = link
    /\ verifier = None
    /\ stage = [j \in Jobs |-> "idle"] /\ want = [j \in Jobs |-> Nothing]
    /\ left = [j \in Jobs |-> {}] /\ own = [j \in Jobs |-> None]
    /\ opened = [j \in Jobs |-> None]
    /\ pending = {} /\ trouble = MaxTrouble

-----------------------------------------------------------------------------
Package(j) == {f \in Files : want[j][f] # 0}

Enter(j, here, next) ==
    /\ running # 0 /\ stage[j] = here
    /\ stage' = [stage EXCEPT ![j] = next]

(* A release goes through its files in the order of the archive, a package *)
(* of the watcher in the order of a Go map.                                *)
Due(j, f) ==
    /\ f \in left[j]
    /\ channel = "develop" \/ \A g \in left[j] : Rank[f] <= Rank[g]

(* Once through a file.                                                    *)
Passed(j, f) == left' = [left EXCEPT ![j] = @ \ {f}]

Opens(j, f) == stage[j] = "apply" /\ opened[j].file = f

(* The next file, or the link after the last one.                          *)
Installed(j, f) ==
    /\ Enter(j, "apply", IF left[j] = {f} THEN "link" ELSE "install")
    /\ Passed(j, f)
    /\ opened' = [opened EXCEPT ![j] = None]

Troubled == trouble > 0 /\ trouble' = trouble - 1

(* A release; or a build which a developer will copy.                      *)
Publish ==
    /\ published < MaxVersion
    /\ published' = published + 1
    /\ UNCHANGED <<hostVars, data, bin, link, running, exe, verifier, jobVars, pending, trouble>>

(* Mutant of GetUpgradeReleaseAsset: the next version counts as not newer. *)
GetUpgradeReleaseAssetLate(j) ==
    /\ channel = "release" /\ published > running + 1
    /\ Enter(j, "idle", "extract")
    /\ want' = [want EXCEPT ![j] = [f \in Files |-> published]]
    /\ left' = [left EXCEPT ![j] = Files]
    /\ UNCHANGED <<hostVars, published, data, bin, link, running, exe, verifier, own, opened, pending>>

(* A release newer than the process is downloaded, its digest checked.     *)
GetUpgradeReleaseAsset(j) ==
    /\ channel = "release" /\ published > running
    /\ Enter(j, "idle", "extract")
    /\ want' = [want EXCEPT ![j] = [f \in Files |-> published]]
    /\ left' = [left EXCEPT ![j] = Files]
    /\ UNCHANGED <<hostVars, published, data, bin, link, running, exe, verifier, own, opened, pending>>

AutoUpdate == GetUpgradeReleaseAsset(Loop) /\ UNCHANGED trouble

(* PUT /update                                                             *)
UpdateHandler(j) == j # Loop /\ GetUpgradeReleaseAsset(j) /\ Troubled

(* extractFile empties a file, also for those who read it, and loads the   *)
(* signature of its entry ...                                              *)
ExtractLoads(j, f) ==
    /\ Enter(j, "extract", "unpack")
    /\ Due(j, f)
    /\ data' = [data EXCEPT ![f] = 0]
    /\ opened' = [k \in Jobs |-> IF Opens(k, f) THEN [opened[k] EXCEPT !.version = 0] ELSE opened[k]]
    /\ verifier' = [file |-> f, version |-> want[j][f]]
    /\ UNCHANGED <<hostVars, published, bin, link, running, exe, want, left, own, pending, trouble>>

(* ... and puts a new file in its place if the verifier accepts it.        *)
ExtractApplies(j, f) ==
    /\ Due(j, f)
    /\ verifier = [file |-> f, version |-> want[j][f]]
    /\ IF left[j] = {f}
       THEN /\ Enter(j, "unpack", "install")
            /\ left' = [left EXCEPT ![j] = Package(j)]
            /\ own' = [own EXCEPT ![j] = exe]
       ELSE Enter(j, "unpack", "extract") /\ Passed(j, f) /\ UNCHANGED own
    /\ data' = [data EXCEPT ![f] = want[j][f]]
    /\ UNCHANGED <<hostVars, published, bin, link, running, exe, verifier, want, opened, pending, trouble>>

-----------------------------------------------------------------------------
(* InstallUpdatePackage *)

(* What a new file is compared with: the process for the file that it runs *)
(* from, and for a variant the file that the link names.                   *)
CurrentVersion(j, f) ==
    IF f = own[j] THEN running ELSE IF f \in Variants THEN bin[link] ELSE bin[f]

(* A file in which no version is found is not refused.                     *)
Refused(j, f) ==
    /\ data[f] # 0
    /\ \/ data[f] < CurrentVersion(j, f)
       \/ data[f] = CurrentVersion(j, f) /\ channel # "develop"

(* A job that fails leaves everything as it is.                            *)
Quit(j) ==
    /\ running # 0
    /\ stage' = [stage EXCEPT ![j] = "idle"]
    /\ want' = [want EXCEPT ![j] = Nothing]
    /\ left' = [left EXCEPT ![j] = {}] /\ own' = [own EXCEPT ![j] = None]
    /\ opened' = [opened EXCEPT ![j] = None]
    /\ UNCHANGED <<hostVars, published, data, bin, link, running, exe, verifier, pending>>

(* The new file is opened, and on a release channel its signature loaded.  *)
Check(j, f) ==
    /\ Enter(j, "install", "apply")
    /\ Due(j, f)
    /\ ~Refused(j, f)
    /\ verifier' = IF channel = "develop" THEN verifier ELSE [file |-> f, version |-> want[j][f]]
    /\ opened' = [opened EXCEPT ![j] = [file |-> f, version |-> data[f]]]
    /\ UNCHANGED <<hostVars, published, data, bin, link, running, exe, want, left, own, pending, trouble>>

(* NOUPGRADE: the rest of the package is left out.                         *)
NoUpgrade(j, f) ==
    /\ stage[j] = "install" /\ Due(j, f)
    /\ Refused(j, f)
    /\ Quit(j) /\ UNCHANGED trouble

(* Mutant of Accepted: the signature is not looked at.                     *)
AcceptedUnsigned(j) == TRUE

(* The verifier holds the signature of what the job has opened.            *)
Accepted(j) == channel = "develop" \/ verifier = opened[j]

(* selfupdate.Apply replaces the file.                                     *)
Apply(j, f) ==
    /\ Opens(j, f)
    /\ Accepted(j)
    /\ Installed(j, f)
    /\ bin' = [bin EXCEPT ![f] = opened[j].version]
    /\ exe' = IF f = exe THEN None ELSE exe
    /\ UNCHANGED <<hostVars, published, data, link, running, verifier, want, own, pending, trouble>>

(* Mutant of Rejected: a file that is not accepted is passed over.         *)
RejectedSkips(j, f) ==
    /\ Opens(j, f)
    /\ ~Accepted(j)
    /\ Installed(j, f)
    /\ UNCHANGED <<hostVars, published, data, bin, link, running, exe, verifier, want, own, pending, trouble>>

(* A signature that does not fit ends an extraction or an installation.    *)
Rejected(j, f) ==
    /\ \/ stage[j] = "unpack" /\ Due(j, f) /\ verifier # [file |-> f, version |-> want[j][f]]
       \/ Opens(j, f) /\ ~Accepted(j)
    /\ Quit(j) /\ UNCHANGED trouble

(* A download, a file operation or the directory's disk fails.             *)
Fails(j) ==
    /\ stage[j] \notin {"idle", "restart"}
    /\ Quit(j) /\ Troubled

(* updateServerSymlink                                                     *)
UpdateServerSymlink(j) ==
    /\ Enter(j, "link", "restart")
    /\ link' = Best(Package(j), linkers)
    /\ UNCHANGED <<hostVars, published, data, bin, running, exe, verifier, want, left, own, opened, pending, trouble>>

-----------------------------------------------------------------------------
(* The process ends, with all that its goroutines had in hand ...          *)
Down ==
    /\ running # 0
    /\ running' = 0 /\ exe' = None /\ verifier' = None
    /\ stage' = [j \in Jobs |-> "idle"] /\ want' = [j \in Jobs |-> Nothing]
    /\ left' = [j \in Jobs |-> {}] /\ own' = [j \in Jobs |-> None]
    /\ opened' = [j \in Jobs |-> None]
    /\ pending' = {}
    /\ UNCHANGED <<hostVars, published, data, bin, link>>

Shutdown(j) == stage[j] = "restart" /\ Down /\ UNCHANGED trouble

(* The add-on is restarted, or the process crashes.                        *)
Stops == Down /\ Troubled

(* ... and s6 starts what the link names.                                  *)
Start ==
    /\ running = 0
    /\ running' = bin[link] /\ exe' = link
    /\ UNCHANGED <<hostVars, published, data, bin, link, verifier, jobVars, pending, trouble>>

-----------------------------------------------------------------------------
(* The develop channel *)

(* A developer copies the newest build; a watcher that is up notices.      *)
Deploy(f) ==
    /\ channel = "develop"
    /\ data[f] < published /\ Troubled
    /\ data' = [data EXCEPT ![f] = published]
    /\ pending' = IF running = 0 THEN pending ELSE pending \cup {f}
    /\ UNCHANGED <<hostVars, published, bin, link, running, exe, verifier, jobVars>>

(* The callback of the timer takes what is pending.                        *)
Debounced(j) ==
    /\ j \in Callbacks /\ pending # {}
    /\ Enter(j, "idle", "install")
    /\ want' = [want EXCEPT ![j] = [f \in Files |-> IF f \in pending THEN data[f] ELSE 0]]
    /\ left' = [left EXCEPT ![j] = pending]
    /\ own' = [own EXCEPT ![j] = exe]
    /\ pending' = {}
    /\ UNCHANGED <<hostVars, published, data, bin, link, running, exe, verifier, opened, trouble>>

-----------------------------------------------------------------------------
Step(j) ==
    \/ \E f \in Files : ExtractLoads(j, f) \/ ExtractApplies(j, f) \/ Check(j, f) \/ NoUpgrade(j, f)
                          \/ Apply(j, f) \/ Rejected(j, f)
    \/ UpdateServerSymlink(j) \/ Shutdown(j)

Next ==
    \/ Publish \/ AutoUpdate \/ Stops \/ Start
    \/ \E j \in Jobs : UpdateHandler(j) \/ Step(j) \/ Fails(j) \/ Debounced(j)
    \/ \E f \in Files : Deploy(f)

Spec == Init /\ [][Next]_vars

(* Goroutines go on, the loop looks again and again, s6 starts the server. *)
Fairness == WF_vars(AutoUpdate) /\ WF_vars(Start) /\ \A j \in Jobs : WF_vars(Step(j))
FairSpec == Spec /\ Fairness

-----------------------------------------------------------------------------
(* Properties *)

(* A server goes down for an update only when no file of the package is as *)
(* old as the process; on the develop channel, when each is what was       *)
(* copied.  Updates overlap, share the directory and the verifier, and     *)
(* steps fail.                                                             *)
RestartIsWhole ==
    \A j \in Jobs : stage[j] = "restart" =>
        \A f \in Package(j) : bin[f] >= IF channel = "develop" THEN want[j][f] ELSE running + 1

(* What an update puts in place is newer than the process, whatever other  *)
(* updates make of the shared directory and the verifier meanwhile; on the *)
(* develop channel no file is replaced by an older one.                    *)
InstallsAreNewer ==
    [][\A f \in Files : bin'[f] # bin[f] =>
         IF channel = "develop" THEN bin'[f] >= bin[f] ELSE bin'[f] > running]_vars

(* Of two updates at once, the older one may put a variant over that of a  *)
(* newer update that has failed: it compares with the link's target only.  *)
FilesNeverGoBack == [][\A f \in Files : bin'[f] >= bin[f]]_vars

(* A server goes down for an update only when a build comes up that is not *)
(* older; the comment of detectBestServerVariant says that stale binaries  *)
(* of previous installations are not selected.                             *)
RestartIsForward == \A j \in Jobs : stage[j] = "restart" => bin[link] >= running

Idle == running # 0 /\ \A j \in Jobs : stage[j] = "idle"

(* A release newer than every file of an undisturbed host gets to run.     *)
Promised(v) ==
    /\ channel = "release" /\ published = v /\ Idle /\ trouble = 0
    /\ \A f \in Files : bin[f] < v

(* It does where the link names the static build; the heading of the       *)
(* documentation's update process promises it on every host.               *)
StaticArrives == \A v \in Versions : Promised(v) /\ linkers = {} ~> running >= v
ReleaseArrives == \A v \in Versions : Promised(v) ~> running >= v

=============================================================================
