---------------------------- MODULE StagedInstall ----------------------------
(***************************************************************************)
(* What redis_cluster.sh promises of one cluster id, whatever commands it  *)
(* takes: a build is there or not, a finished configuration shows a list   *)
(* of instances or not, and the installation shows such a list or not.     *)
(* A list is installed in one step, only where none is installed, only     *)
(* while a build and a configuration are there, and it is the list of that *)
(* configuration.  After that it changes only by being removed.            *)
(***************************************************************************)
CONSTANTS Lists,    \* the lists a configuration may have
          NoList    \* no list

VARIABLES built, listing, installed
vars == <<built, listing, installed>>

Init == built = FALSE /\ listing = NoList /\ installed = NoList

Build ==
    /\ ~built
    /\ built' = TRUE
    /\ UNCHANGED <<listing, installed>>

Configure ==
    /\ listing = NoList
    /\ listing' \in Lists
    /\ UNCHANGED <<built, installed>>

Install ==
    /\ built /\ listing # NoList /\ installed = NoList
    /\ installed' = listing
    /\ UNCHANGED <<built, listing>>

Remove ==
    /\ built' \in {FALSE, built}
    /\ listing' \in {NoList, listing}
    /\ installed' \in {NoList, installed}

Next == Build \/ Configure \/ Install \/ Remove

Spec == Init /\ [][Next]_vars
=============================================================================
