------------------------------ MODULE Recovery ------------------------------
(***************************************************************************)
(* An operator who installs a cluster with the README's commands although  *)
(* invocations fail: redis_cluster.sh <id> ALL, and after a failure        *)
(* redis_cluster.sh <id> clean ALL, confirmed, until it is through, and    *)
(* then ALL again (README.md:177, 185; redis_cluster.sh:448, 453).         *)
(* A run without clean is refused by what the failed one left.             *)
(***************************************************************************)
EXTENDS ClusterTool

CONSTANTS MaxFaults     \* invocations that fail before the machine is quiet

VARIABLES faults        \* how many have failed so far
recoveryVars == <<vars, faults>>

All      == Stages
CleanAll == Stages \cup {"clean"}

Confirmed(p) == /\ pc[p] = "x_build"  => pc'[p] = "r_build"
                /\ pc[p] = "x_config" => pc'[p] = "r_config"
                /\ pc[p] = "x_home"   => pc'[p] = "r_home"

\* Whether the operator has a command left to give, and which.
Command(p) == IF pc[p] = "failed" THEN CleanAll ELSE All
Unsettled(p) == pc[p] \in {"idle", "failed"} \/ (pc[p] = "done" /\ acts[p] = CleanAll)

Order(p) ==
    /\ Unsettled(p)
    /\ Start(p) /\ acts'[p] = Command(p)
    /\ UNCHANGED faults

Carry(p) == Work(p) /\ Confirmed(p) /\ UNCHANGED faults

Fault(p) ==
    /\ faults < MaxFaults
    /\ faults' = faults + 1
    /\ Stop(p)

RecoveryInit == Init /\ faults = 0

RecoveryNext == \E p \in Procs : Order(p) \/ Carry(p) \/ Fault(p)

\* An invocation goes on with its next command, and the operator with the next
\* invocation.
RecoverySpec ==
    /\ RecoveryInit /\ [][RecoveryNext]_recoveryVars
    /\ \A p \in Procs : WF_recoveryVars(Order(p) \/ Carry(p))

-----------------------------------------------------------------------------
\* Only a failure ends an invocation before it is through: what the failures
\* before it have left behind, a removal of half the files included, makes no
\* command refuse or miss anything (redis_cluster.sh:218, 236, 242, 266, 457).
NeverRefused ==
    [][\A p \in Procs : pc'[p] = "failed" /\ pc[p] # "failed" => faults' > faults]_recoveryVars

\* When ALL is through the installation is complete, however many invocations
\* have failed before it.
ThroughIsComplete ==
    \A p \in Procs : pc[p] = "done" /\ acts[p] = All => vouch["deploy"] = ini /\ HomeComplete(ini)

\* However often invocations fail, and wherever they stop, a removal of half
\* the files included, cleaning everything and starting again ends with a
\* complete installation: nothing a failure leaves behind blocks the way
\* (redis_cluster.sh:166-214, and the refusals at 218, 236, 242, 266, 457).
Recovers == <>[](vouch["deploy"] = ini /\ home.all = ini.nodes /\ \A p \in Procs : pc[p] = "done")

=============================================================================
