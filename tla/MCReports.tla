------------------------------ MODULE MCReports ------------------------------
(***************************************************************************)
(* One run of TLC for what the clients of the web socket are told: the     *)
(* mDNS settings, once with a browser and settings that stay (world        *)
(* "helo"), once with settings that change and without a browser (world    *)
(* "settings"); and the readings of a disk, which share nothing with them. *)
(* The first state says which of the three a behaviour is of.              *)
(***************************************************************************)
EXTENDS WsSessions

CONSTANTS Callers, MaxChanges, MaxFailures  \* of DiskStats

VARIABLES
    world,  \* what the behaviour is about
    smart, mode, disabled, cache, ticks, seen, data, age, info, pc, last, answer, switching, req,
    integration, changes, failures

diskVars ==
    <<smart, mode, disabled, cache, ticks, seen, data, age, info, pc, last, answer, switching, req,
      integration, changes, failures>>
reportsVars == <<vars, diskVars, world>>

D == INSTANCE DiskStats WITH mutex <- switching, setting <- integration

ReportsInit ==
    /\ world \in {"helo", "settings", "readings"}
    /\ Init /\ D!Init
    /\ world # "readings" => ~smart /\ ~mode

(* What a behaviour of the sessions leaves out.                            *)
WithinWorld ==
    IF world = "helo" THEN setting' = setting /\ backlog' = backlog
    ELSE \A b \in Browsers : peer'[b] = "out"

ReportsNext ==
    \/ world = "readings" /\ D!Next /\ UNCHANGED <<vars, world>>
    \/ world # "readings" /\ Next /\ WithinWorld /\ UNCHANGED <<diskVars, world>>

(* The fairness of each system, where the behaviour is of it.              *)
ReportsSpec ==
    /\ ReportsInit /\ [][ReportsNext]_reportsVars
    /\ WF_diskVars(world = "readings" /\ D!UpdateDiskStats)
    /\ WF_diskVars(world = "readings" /\ cache = FALSE /\ D!Expire)
    /\ \A c \in Callers : WF_diskVars(world = "readings" /\ D!OnSmart(c))
    /\ WF_diskVars(world = "readings" /\ D!OnSetting)
    /\ \A s \in Components : Fairness(s)
    /\ WF_vars(Clean \/ LoadForClean \/ TellForClean)

(* The properties of DiskStats; ReadingsFollow is about the behaviours of  *)
(* its system only.                                                        *)
ReadingsAreFresh == D!ReadingsAreFresh
ReadingsFollowHere == (world = "readings") => D!ReadingsFollow
=============================================================================
