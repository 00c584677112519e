------------------------------- MODULE MCJobs -------------------------------
(***************************************************************************)
(* One run of TLC for two services that share nothing: the tasks about     *)
(* filesystems and the updates of the server.  The first state says which  *)
(* of them a behaviour is of; the other stays as it is.                    *)
(***************************************************************************)
EXTENDS FilesystemTasks

(* The constants of Upgrade.                                               *)
CONSTANTS Jobs, Loop, Callbacks, Files, Channels, LinkerSets, MaxVersion, MaxTrouble

VARIABLES
    world,  \* the service of the behaviour
    channel, linkers, published, data, bin, link, running, exe, verifier, ustage, want, left, own,
    opened, pending, trouble

updateVars ==
    <<channel, linkers, published, data, bin, link, running, exe, verifier, ustage, want, left, own,
      opened, pending, trouble>>
jobsVars == <<vars, updateVars, world>>

G == INSTANCE Upgrade WITH stage <- ustage

JobsInit ==
    /\ world \in {"tasks", "updates"}
    /\ Init /\ G!Init
    /\ world # "updates" => channel = "release" /\ linkers = {}

JobsNext ==
    \/ world = "tasks" /\ Next /\ UNCHANGED <<updateVars, world>>
    \/ world = "updates" /\ G!Next /\ UNCHANGED <<vars, world>>

(* The fairness of the updates, where the behaviour is of them.            *)
JobsSpec ==
    /\ JobsInit /\ [][JobsNext]_jobsVars
    /\ WF_updateVars(world = "updates" /\ G!AutoUpdate)
    /\ WF_updateVars(world = "updates" /\ G!Start)
    /\ \A j \in Jobs : WF_updateVars(world = "updates" /\ G!Step(j))

(* The properties of Upgrade.                                              *)
RestartIsWhole == G!RestartIsWhole
InstallsAreNewer == G!InstallsAreNewer
StaticArrives == (world = "updates") => G!StaticArrives
=============================================================================
