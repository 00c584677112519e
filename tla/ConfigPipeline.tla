--------------------------- MODULE ConfigPipeline ---------------------------
(***************************************************************************)
(* What the dirty-data tracker, its timer and ServerService promise        *)
(* together (service/dirty_data_service.go,                                *)
(* service/server_process_service.go): a stored change moves into smb.conf *)
(* and from there into the services, and neither ever goes back to older   *)
(* data.  Data of a kind is its version.  DirtyRestart implements it as    *)
(* long as nobody applies by hand.                                         *)
(***************************************************************************)
EXTENDS Naturals

CONSTANTS Kinds, Services

VARIABLES
    stored,   \* stored[k]: the version of k in the database
    file,     \* file[k]: the version of k in smb.conf
    used      \* used[s][k]: the version of k that service s took from it

vars == <<stored, file, used>>

NotOlder(a, b) == \A k \in Kinds : a[k] >= b[k]

Init ==
    /\ stored = [k \in Kinds |-> 1]
    /\ file = [k \in Kinds |-> 0]
    /\ used = [s \in Services |-> file]

Change(k) ==
    /\ stored' = [stored EXCEPT ![k] = @ + 1]
    /\ UNCHANGED <<file, used>>

Publish ==
    /\ file' \in [Kinds -> Nat]
    /\ NotOlder(file', file) /\ NotOlder(stored, file')
    /\ UNCHANGED <<stored, used>>

\* A reload may take some kinds only.
Take(s) ==
    /\ used' \in [Services -> [Kinds -> Nat]]
    /\ \A k \in Kinds : used'[s][k] \in {used[s][k], file[k]}
    /\ \A t \in Services \ {s} : used'[t] = used[t]
    /\ UNCHANGED <<stored, file>>

Next ==
    \/ \E k \in Kinds : Change(k)
    \/ Publish
    \/ \E s \in Services : Take(s)

Spec == Init /\ [][Next]_vars
=============================================================================
