----------------------------- MODULE MCRecovery -----------------------------
(***************************************************************************)
(* Recovery for TLC: one operator, a node on another machine and one on    *)
(* this, and as many failures as the cfg's MaxFaults.                      *)
(***************************************************************************)
EXTENDS Recovery

CONSTANTS p, n1, n2

TwoNodes == [redis |-> "redis-8.2.0", hiredis |-> "hiredis-1.30",
             nodes |-> <<[node |-> n2, port |-> 1], [node |-> n1, port |-> 1]>>]
OneIni == {TwoNodes}
BothArchives == {"redis-8.2.0", "hiredis-1.30"}
SameDir == [a \in BothArchives |-> a]
AllOrClean == [r \in {p} |-> {All, CleanAll}]

=============================================================================
