------------------------------- MODULE MCClean -------------------------------
(***************************************************************************)
(* ClusterTool for TLC: one operator who builds, configures and deploys as *)
(* he likes, and cleans, again and again, one of the three stages; to      *)
(* clean all of them in one behaviour makes too many states.  Which stage  *)
(* it is stands in the ini, as a field that the program does not read.     *)
(***************************************************************************)
EXTENDS MCClusterTool

CleansAny == [r \in {p} |-> Forward \cup {{"clean", s} : s \in Stages}]

Cleaning(s, x) == [redis |-> x.redis, hiredis |-> x.hiredis, nodes |-> x.nodes, cleans |-> s]

\* Where the configuration is removed, two inis that differ in their
\* instances only are enough.
OldNodes == [NewIni EXCEPT !.nodes = OldIni.nodes]
CleaningInis ==
    {Cleaning(s, x) : s \in {"build", "deploy"}, x \in TwoInis}
      \cup {Cleaning("config", x) : x \in {OldNodes, OneNode}}

OneStage ==
    /\ ini'.cleans = ini.cleans
    /\ "clean" \in acts'[p] => ini.cleans \in acts'[p]

=============================================================================
