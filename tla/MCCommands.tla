----------------------------- MODULE MCCommands -----------------------------
(***************************************************************************)
(* One run of TLC for a command of the command runner and for the requests *)
(* about users, each of which runs several commands one after the other.   *)
(* The two are checked side by side: the first state says which of them a  *)
(* behaviour is of, and the other stays as it is.                          *)
(***************************************************************************)
EXTENDS CommandExec

(* The constants of UserAccounts.                                          *)
CONSTANTS None, Admin, Names, Aliases, Passwords, Default, Callers, Overlap,
          MaxRequests, MaxFailures, MaxStarts

VARIABLES
    world,  \* the system of the behaviour
    row, admin, unix, samba, db, pc, op, up, spoilt, requests, failures, starts

userVars == <<row, admin, unix, samba, db, pc, op, up, spoilt, requests, failures, starts>>
commandsVars == <<vars, userVars, world>>

U == INSTANCE UserAccounts

CommandsInit == world \in {"command", "users"} /\ Init /\ U!Init

CommandsNext ==
    \/ world = "command" /\ Next /\ UNCHANGED <<userVars, world>>
    \/ world = "users" /\ U!Next /\ UNCHANGED <<vars, world>>

(* The fairness of each system, where the behaviour is of it.              *)
CommandsSpec ==
    /\ CommandsInit /\ [][CommandsNext]_commandsVars
    /\ WF_vars(world = "command" /\ Starter) /\ WF_vars(world = "command" /\ Waiter)
    /\ WF_vars(world = "command" /\ Kill) /\ WF_vars(world = "command" /\ ProcessExits)
    /\ \A c \in Channels : WF_vars(world = "command" /\ Scanner(c))
    /\ \A c \in Callers : WF_userVars(world = "users" /\ U!Step(c))

(* The properties of UserAccounts.                                         *)
LoginsWork == U!LoginsWork
RequestsEnd == U!RequestsEnd
=============================================================================
