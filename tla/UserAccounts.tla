---------------------------- MODULE UserAccounts ----------------------------
(***************************************************************************)
(* UserService and the commands of package unixsamba: a user is a row of   *)
(* the database, an account of the system and an entry of Samba.           *)
(*                                                                         *)
(* A request changes the three one after the other, each by a command of   *)
(* its own that may fail.  A deleted row is only marked.  An update holds  *)
(* a transaction, and with it the one connection to the database, over its *)
(* commands; when it fails the row is rolled back and the accounts stay as *)
(* they are.  The start of the service makes the accounts from the rows.   *)
(***************************************************************************)
EXTENDS Naturals, FiniteSets

CONSTANTS
    None,
    Admin,        \* defaultAdminUsername
    Names,        \* usernames of the requests
    Aliases,      \* those that are one when their spaces are taken out
    Passwords,
    Default,      \* defaultAdminPassword
    Callers,      \* requests
    Overlap,      \* whether two requests at a time may be about one username
    MaxRequests,  \* bound on the requests
    MaxFailures,  \* bound on the commands that fail
    MaxStarts     \* bound on the starts of the service

(* NormalizeUsernameForUnixSamba                                           *)
Account(u) == IF u \in Aliases THEN CHOOSE a \in Aliases : TRUE ELSE u
Accounts == {Account(u) : u \in Names}

VARIABLES
    row,     \* the row of each username, or None
    admin,   \* the username of the administrator's row
    unix,    \* the accounts of the system
    samba,   \* the password of each account in Samba, or None
    db,      \* the transaction that holds the connection, or None: whose it is,
             \* and the rows and the administrator to roll back to
    pc,      \* where each request is
    op,      \* what it is about
    up,      \* the service runs
    spoilt,  \* usernames that a failed request or start has touched
    requests, failures, starts

vars == <<row, admin, unix, samba, db, pc, op, up, spoilt, requests, failures, starts>>
accounts == <<unix, samba>>
bounds == <<requests, failures, starts>>

Row == [live : BOOLEAN, password : Passwords]
Live(u) == row[u] # None /\ row[u].live

(* from and to differ in a rename; old is the password the row had.        *)
Op == [from : Names, to : Names, password : Passwords, old : Passwords]

Stages == {"idle", "useradd", "add", "begin", "free", "remove", "rename", "readd", "key",
           "password", "save", "drop", "deluser"}

TypeOK ==
    /\ row \in [Names -> Row \cup {None}] /\ admin \in Names \cup {None}
    /\ unix \subseteq Accounts /\ samba \in [Accounts -> Passwords \cup {None}]
    /\ db = None \/ (/\ db.by \in Callers /\ db.row \in [Names -> Row \cup {None}]
                     /\ db.admin \in Names)
    /\ pc \in [Callers -> Stages] /\ op \in [Callers -> Op \cup {None}]
    /\ up \in BOOLEAN /\ spoilt \subseteq Names
    /\ requests \in 0 .. MaxRequests /\ failures \in 0 .. MaxFailures /\ starts \in 0 .. MaxStarts

Init ==
    /\ row = [u \in Names |-> None] /\ admin = None
    /\ unix = {} /\ samba = [a \in Accounts |-> None]
    /\ db = None
    /\ pc = [c \in Callers |-> "idle"] /\ op = [c \in Callers |-> None]
    /\ up = FALSE /\ spoilt = {} /\ requests = 0 /\ failures = 0 /\ starts = 0

-----------------------------------------------------------------------------
(* The start: the administrator's row when there is none, and then every   *)
(* user's account; one that fails is logged and passed over.               *)
Start ==
    /\ ~up /\ starts < MaxStarts
    /\ up' = TRUE /\ starts' = starts + 1
    /\ LET first == \A u \in Names : ~Live(u)
           rows == IF first THEN [row EXCEPT ![Admin] = [live |-> TRUE, password |-> Default]] ELSE row
           users == {u \in Names : rows[u] # None /\ rows[u].live}
       IN \E failed \in SUBSET users :
            /\ failures + Cardinality(failed) <= MaxFailures
            /\ failures' = failures + Cardinality(failed)
            /\ row' = rows /\ admin' = IF first THEN Admin ELSE admin
            /\ unix' = unix \cup {Account(u) : u \in users \ failed}
            /\ samba' \in {s \in [Accounts -> Passwords \cup {None}] : \A a \in Accounts :
                 LET its == {u \in users \ failed : Account(u) = a}
                 IN IF its = {} THEN s[a] = samba[a] ELSE \E u \in its : s[a] = rows[u].password}
            /\ spoilt' = (spoilt \ users) \cup failed
    /\ UNCHANGED <<db, pc, op, requests>>

(* The service ends at any moment.  Its accounts are there at its next     *)
(* start, or none is, when the container is made anew.                     *)
Stop ==
    /\ up /\ starts < MaxStarts /\ up' = FALSE
    /\ spoilt' = spoilt \cup UNION {{op[c].from, op[c].to} : c \in {d \in Callers : pc[d] # "idle"}}
    /\ pc' = [c \in Callers |-> "idle"] /\ op' = [c \in Callers |-> None]
    /\ IF db = None THEN UNCHANGED <<row, admin>> ELSE row' = db.row /\ admin' = db.admin
    /\ db' = None
    /\ \/ UNCHANGED accounts
       \/ unix' = {} /\ samba' = [a \in Accounts |-> None]
    /\ UNCHANGED bounds

-----------------------------------------------------------------------------
Goto(c, stage) == pc' = [pc EXCEPT ![c] = stage] /\ UNCHANGED op
Ends(c) == pc' = [pc EXCEPT ![c] = "idle"] /\ op' = [op EXCEPT ![c] = None]
Keep == UNCHANGED <<db, row, admin, up, spoilt, bounds>>

Holds(c) == db # None /\ db.by = c

(* Mutant of GivesUp: the connection is kept.                              *)
GivesUpKeeping(c) ==
    /\ Ends(c)
    /\ spoilt' = spoilt \cup {op[c].from, op[c].to}
    /\ UNCHANGED <<db, row, admin, up, requests, starts>>

(* A request that fails: its transaction is rolled back.                   *)
GivesUp(c) ==
    /\ Ends(c)
    /\ spoilt' = spoilt \cup {op[c].from, op[c].to}
    /\ IF Holds(c) THEN db' = None /\ row' = db.row /\ admin' = db.admin
                   ELSE UNCHANGED <<db, row, admin>>
    /\ UNCHANGED <<up, requests, starts>>

Fail == failures < MaxFailures /\ failures' = failures + 1

Requested(c, o, stage) ==
    /\ up /\ pc[c] = "idle" /\ requests < MaxRequests
    /\ \A d \in Callers \ {c} :
         (~Overlap /\ op[d] # None) => {op[d].from, op[d].to} \cap {o.from, o.to} = {}
    /\ db = None
    /\ requests' = requests + 1
    /\ pc' = [pc EXCEPT ![c] = stage] /\ op' = [op EXCEPT ![c] = o]
    /\ UNCHANGED <<unix, samba, db, up, spoilt, failures, starts>>

(* Mutant of CreateUser: a deleted row comes back with its old password.   *)
CreateUserAsItWas(c, u, p) ==
    /\ ~Live(u)
    /\ Requested(c, [from |-> u, to |-> u, password |-> p, old |-> p], "useradd")
    /\ row' = IF row[u] = None THEN [row EXCEPT ![u] = [live |-> TRUE, password |-> p]]
                              ELSE [row EXCEPT ![u].live = TRUE]
    /\ UNCHANGED admin

(* CreateUser: a new row, or a deleted one again.  A live one is refused.  *)
CreateUser(c, u, p) ==
    /\ ~Live(u)
    /\ Requested(c, [from |-> u, to |-> u, password |-> p, old |-> p], "useradd")
    /\ row' = [row EXCEPT ![u] = [live |-> TRUE, password |-> p]]
    /\ UNCHANGED admin

(* UpdateUser and UpdateAdminUser: the row is read before the transaction. *)
ReadUser(c, u, v, p) ==
    /\ Live(u)
    /\ Requested(c, [from |-> u, to |-> v, password |-> p, old |-> row[u].password], "begin")
    /\ UNCHANGED <<row, admin>>

(* DeleteUser: the row is marked, unless it is the administrator's.        *)
DeleteUser(c, u) ==
    /\ Live(u) /\ u # admin
    /\ Requested(c, [from |-> u, to |-> u, password |-> row[u].password, old |-> row[u].password], "drop")
    /\ row' = [row EXCEPT ![u].live = FALSE]
    /\ UNCHANGED admin

-----------------------------------------------------------------------------
(* CreateSambaUser                                                         *)

(* An account that exists is as good as a new one.                         *)
UserAdd(c) ==
    /\ pc[c] = "useradd"
    /\ \/ unix' = unix \cup {Account(op[c].to)} /\ Goto(c, "add") /\ Keep
       \/ Account(op[c].to) \notin unix /\ Fail /\ GivesUp(c) /\ UNCHANGED unix
    /\ UNCHANGED samba

SetsPassword(c) == samba' = [samba EXCEPT ![Account(op[c].to)] = op[c].password]

(* smbpasswd -a and the check after it; a failure leaves the password set  *)
(* or not.                                                                 *)
SmbPasswdAdd(c) ==
    /\ pc[c] = "add" /\ UNCHANGED unix
    /\ \/ /\ Account(op[c].to) \in unix /\ SetsPassword(c) /\ Ends(c)
          /\ spoilt' = spoilt \ {op[c].to}
          /\ UNCHANGED <<db, row, admin, up, bounds>>
       \/ Account(op[c].to) \notin unix /\ GivesUp(c) /\ UNCHANGED <<samba, failures>>
       \/ Fail /\ GivesUp(c) /\ (UNCHANGED samba \/ (Account(op[c].to) \in unix /\ SetsPassword(c)))

-----------------------------------------------------------------------------
(* updateUser                                                              *)

Renames(c) == op[c].from # op[c].to
AfterName(c) == IF op[c].password # op[c].old THEN "password" ELSE "save"

(* The transaction begins.  A new name must not be another live user's.    *)
Begin(c) ==
    /\ pc[c] = "begin" /\ db = None
    /\ IF Renames(c) /\ Live(op[c].to)
       THEN Ends(c) /\ UNCHANGED db
       ELSE /\ db' = [by |-> c, row |-> row, admin |-> admin]
            /\ Goto(c, IF Renames(c) THEN "free" ELSE AfterName(c))
    /\ UNCHANGED <<row, admin, accounts, up, spoilt, bounds>>

(* RenameUsername: the new name must be free in the system and in Samba.   *)
IsFree(c) ==
    /\ pc[c] = "free" /\ UNCHANGED accounts
    /\ IF Account(op[c].to) \notin unix /\ samba[Account(op[c].to)] = None
       THEN Goto(c, "remove") /\ Keep
       ELSE Ends(c) /\ db' = None /\ UNCHANGED <<row, admin, up, spoilt, bounds>>

(* smbpasswd -x, whose failure is logged and passed over.                  *)
RemoveOld(c) ==
    /\ pc[c] = "remove" /\ Goto(c, "rename") /\ UNCHANGED unix
    /\ UNCHANGED <<db, row, admin, up, spoilt, requests, starts>>
    /\ \/ samba' = [samba EXCEPT ![Account(op[c].from)] = None] /\ UNCHANGED failures
       \/ Fail /\ UNCHANGED samba

Moved(c) == unix' = (unix \ {Account(op[c].from)}) \cup {Account(op[c].to)}

(* usermod -l, and usermod -d of the home directory.                       *)
UserMod(c) ==
    /\ pc[c] = "rename" /\ UNCHANGED samba
    /\ \/ Account(op[c].from) \in unix /\ Moved(c) /\ Goto(c, "readd") /\ Keep
       \/ Account(op[c].from) \notin unix /\ GivesUp(c) /\ UNCHANGED <<unix, failures>>
       \/ Fail /\ GivesUp(c) /\ (UNCHANGED unix \/ (Account(op[c].from) \in unix /\ Moved(c)))

ReAdd(c) ==
    /\ pc[c] = "readd" /\ UNCHANGED unix
    /\ \/ Account(op[c].to) \in unix /\ SetsPassword(c) /\ Goto(c, "key") /\ Keep
       \/ Account(op[c].to) \notin unix /\ GivesUp(c) /\ UNCHANGED <<samba, failures>>
       \/ Fail /\ GivesUp(c) /\ (UNCHANGED samba \/ (Account(op[c].to) \in unix /\ SetsPassword(c)))

(* The row's key.  A deleted row has it still, and the update fails.  A    *)
(* row that is deleted meanwhile is not updated, which is no error.        *)
RenameKey(c) ==
    /\ pc[c] = "key" /\ UNCHANGED accounts
    /\ LET from == op[c].from  to == op[c].to
       IN IF Live(from) /\ row[to] # None
          THEN GivesUp(c) /\ UNCHANGED failures
          ELSE /\ row' = IF Live(from) THEN [row EXCEPT ![to] = row[from], ![from] = None] ELSE row
               /\ admin' = IF Live(from) /\ admin = from THEN to ELSE admin
               /\ Goto(c, AfterName(c)) /\ UNCHANGED <<db, up, spoilt, bounds>>

(* ChangePassword                                                          *)
SmbPasswd(c) ==
    /\ pc[c] = "password" /\ UNCHANGED unix
    /\ \/ samba[Account(op[c].to)] # None /\ SetsPassword(c) /\ Goto(c, "save") /\ Keep
       \/ samba[Account(op[c].to)] = None /\ GivesUp(c) /\ UNCHANGED <<samba, failures>>
       \/ Fail /\ GivesUp(c) /\ (UNCHANGED samba \/ (samba[Account(op[c].to)] # None /\ SetsPassword(c)))

(* Updates, and the end of the transaction.                                *)
Save(c) ==
    /\ pc[c] = "save" /\ Ends(c) /\ db' = None
    /\ row' = IF Live(op[c].to) THEN [row EXCEPT ![op[c].to].password = op[c].password] ELSE row
    /\ UNCHANGED <<admin, accounts, up, spoilt, bounds>>

-----------------------------------------------------------------------------
(* DeleteSambaUser                                                         *)

SmbPasswdDrop(c) ==
    /\ pc[c] = "drop" /\ UNCHANGED unix
    /\ \/ samba' = [samba EXCEPT ![Account(op[c].to)] = None] /\ Goto(c, "deluser") /\ Keep
       \/ Fail /\ GivesUp(c) /\ UNCHANGED samba

DelUser(c) ==
    /\ pc[c] = "deluser" /\ UNCHANGED samba
    /\ \/ unix' = unix \ {Account(op[c].to)} /\ Ends(c) /\ Keep
       \/ Fail /\ GivesUp(c) /\ UNCHANGED unix

Step(c) ==
    \/ UserAdd(c) \/ SmbPasswdAdd(c)
    \/ Begin(c) \/ IsFree(c) \/ RemoveOld(c) \/ UserMod(c) \/ ReAdd(c) \/ RenameKey(c)
    \/ SmbPasswd(c) \/ Save(c)
    \/ SmbPasswdDrop(c) \/ DelUser(c)

Next ==
    \/ Start \/ Stop
    \/ \E c \in Callers :
         \/ \E u \in Names, p \in Passwords : CreateUser(c, u, p)
         \/ \E u, v \in Names, p \in Passwords : ReadUser(c, u, v, p)
         \/ \E u \in Names : DeleteUser(c, u)
         \/ Step(c)

(* Commands end.                                                           *)
Spec == Init /\ [][Next]_vars /\ \A c \in Callers : WF_vars(Step(c))

-----------------------------------------------------------------------------
(* The passwords a user can log in with: Samba wants an account as well.    *)
Logins(u) == IF Account(u) \in unix THEN {samba[Account(u)]} \ {None} ELSE {}

(* Between requests every user whom no failure has touched logs in with    *)
(* the row's password, and nobody else does.  A start without failures     *)
(* mends every user there is.                                              *)
LoginsWork ==
    (up /\ \A c \in Callers : pc[c] = "idle") =>
      \A u \in Names \ spoilt :
        Logins(u) = IF Live(u) THEN {row[u].password} ELSE {}

(* Every request ends and gives the connection back.                       *)
RequestsEnd == \A c \in Callers : pc[c] # "idle" ~> pc[c] = "idle"
=============================================================================
