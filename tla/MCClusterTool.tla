---------------------------- MODULE MCClusterTool ----------------------------
(***************************************************************************)
(* Instances of ClusterTool for TLC: two configurations that differ in the *)
(* redis package and in the number of instances of node n1, which runs on  *)
(* this machine; n2 runs elsewhere.                                        *)
(***************************************************************************)
EXTENDS ClusterTool, TLC

CONSTANTS p, q, n1, n2

Inst(n, k) == [node |-> n, port |-> k]

OldIni == [redis |-> "redis-7.4.0", hiredis |-> "hiredis-1.30", nodes |-> <<Inst(n1, 1), Inst(n2, 1)>>]
NewIni == [redis |-> "redis-8.2.0", hiredis |-> "hiredis-1.30",
           nodes |-> <<Inst(n2, 1), Inst(n1, 1), Inst(n1, 2)>>]

OneNode == [NewIni EXCEPT !.nodes = <<Inst(n1, 1)>>]

OneIni  == {NewIni}
SmallInis == {OldIni, OneNode}
TwoInis == {OldIni, NewIni}

AllArchives == {"redis-7.4.0", "redis-8.2.0", "hiredis-1.30"}
SameDir == [a \in AllArchives |-> a]

\* One operator, who builds, configures, deploys, and cleans what the run names.
Forward == {{"build"}, {"config"}, {"deploy"}, Stages}
CleansBuild  == [r \in {p} |-> Forward \cup {{"clean", "build"}}]
CleansConfig == [r \in {p} |-> Forward \cup {{"clean", "config"}}]
CleansHome   == [r \in {p} |-> Forward \cup {{"clean", "deploy"}}]

\* One operator that never cleans.
NeverClean == [r \in {p} |-> Forward]

\* Two operators at the same time, who share no stage.
TwoOperators == (p :> {{"build"}, {"deploy"}, {"build", "deploy"}}) @@ (q :> {{"config"}})

\* An invocation that has ended leaves nothing behind but files.
Shape == <<build, config, home, ini, vouch,
           [r \in Procs |-> IF pc[r] \in Rest THEN <<"rest">> ELSE <<pc[r], acts[r], i[r], err[r]>>]>>

=============================================================================
