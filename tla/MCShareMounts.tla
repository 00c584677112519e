--------------------------- MODULE MCShareMounts ---------------------------
(***************************************************************************)
(* Instances of ShareMounts for TLC: a mount may be left that failed, or   *)
(* one of an earlier address of the add-on, and a run starts without NFS   *)
(* and with every volume mounted, which users may change.                  *)
(***************************************************************************)
EXTENDS ShareMounts

FewLeftovers ==
    {[usage |-> "media", type |-> "nfs", active |-> FALSE, ours |-> TRUE],
     [usage |-> "media", type |-> "nfs", active |-> TRUE, ours |-> FALSE]}

FewStarts == Init /\ nfs = FALSE /\ vol = Names
SmallSpec == FewStarts /\ [][Next]_vars /\ Fairness
=============================================================================
