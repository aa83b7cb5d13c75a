----------------------------- MODULE NodeRuntime -----------------------------
(***************************************************************************)
(* The instances of one node at run time: start_redis.sh and               *)
(* shutdown_redis.sh, which go through the node's ports one after the      *)
(* other, and the redis-server daemons they start and stop.                *)
(*                                                                         *)
(* A daemon writes its pid file before it locks the cluster's files of its *)
(* port, and removes the pid file of its port, whoever wrote it, when it   *)
(* shuts down.  Daemons are not under src/: the actions of a daemon are    *)
(* those of redis-server as far as the scripts depend on them.             *)
(***************************************************************************)
EXTENDS Naturals, Sequences, Functions

CONSTANTS
    Scripts,    \* runs of the two scripts that may overlap
    PortList,   \* the array ports of the scripts
    Pids,       \* process ids
    NoPid,      \* no process
    Careful,    \* the operator waits: see Start and Shutdown
    MaxFaults   \* bound: crashes and failed saves

ASSUME PortsAssumption ==
    /\ PortList \in Seq(Nat \ {0}) /\ PortList # << >>
    /\ \A a, b \in 1..Len(PortList) : PortList[a] = PortList[b] => a = b
ASSUME PidsAssumption == NoPid \notin Pids
ASSUME BoundsAssumption == Careful \in BOOLEAN /\ MaxFaults \in Nat

PortSet == Range(PortList)

VARIABLES
    daemon,     \* daemon[d]: the state and the port of process d
    pidfile,    \* pidfile[port]: run/redis-NODEID-port.pid
    pc,         \* the command each script is about to run
    k,          \* the position of its port
    nodepid,    \* what it read from the pid file
    conn,       \* the daemon its redis-cli is connected to
    told,       \* history: the operator's last word is that the node is down
    faults      \* how many faults there have been
vars == <<daemon, pidfile, pc, k, nodepid, conn, told, faults>>

None == [st |-> "none", port |-> 0]
Rest == {"idle", "started", "stopped", "failed"}

Alive(d) == daemon[d].st # "none"

\* Accepts connections, and holds the lock on the port's cluster files.
Serves(d) == daemon[d].st \in {"up", "saving"}
Locks(d)  == daemon[d].st \in {"up", "saving", "unlinked"}

NodeDown == \A d \in Pids : ~Alive(d)

Init ==
    /\ daemon = [d \in Pids |-> None]
    /\ pidfile = [port \in PortSet |-> NoPid]
    /\ pc = [s \in Scripts |-> "idle"]
    /\ k = [s \in Scripts |-> 1]
    /\ nodepid = [s \in Scripts |-> NoPid]
    /\ conn = [s \in Scripts |-> NoPid]
    /\ told = TRUE
    /\ faults = 0

Goto(s, l) == pc' = [pc EXCEPT ![s] = l]

\* Faulty variant: the loop goes one past the last port.
NextPortPastEnd(s, again, out) ==
    /\ Goto(s, IF k[s] > Len(PortList) THEN out ELSE again)
    /\ k' = [k EXCEPT ![s] = @ + 1]

\* The end of a round of the loop over ports.
NextPort(s, again, out) ==
    IF k[s] = Len(PortList) THEN Goto(s, out) /\ UNCHANGED k
    ELSE Goto(s, again) /\ k' = [k EXCEPT ![s] = @ + 1]

Run(s, l) ==
    /\ pc[s] \in Rest
    /\ Goto(s, l)
    /\ k' = [k EXCEPT ![s] = 1]
    /\ nodepid' = [nodepid EXCEPT ![s] = NoPid]
    /\ conn' = [conn EXCEPT ![s] = NoPid]
    /\ UNCHANGED <<daemon, pidfile, faults>>

-----------------------------------------------------------------------------
(* start_redis.sh *)

\* A careful operator starts a node that has been reported as stopped, and
\* goes by that message, or one of which no process is left.
Start(s) == /\ Careful => (told \/ NodeDown) /\ \A q \in Scripts : pc[q] \in Rest
            /\ Run(s, "s_server")
            /\ told' = FALSE

\* Faulty variant: every round starts the first instance.
StartFirst(s) ==
    /\ pc[s] = "s_server"
    /\ \E d \in Pids : /\ ~Alive(d)
                       /\ daemon' = [daemon EXCEPT ![d] = [st |-> "born", port |-> PortList[1]]]
    /\ NextPort(s, "s_server", "started")
    /\ UNCHANGED <<pidfile, nodepid, conn, told, faults>>

\* redis-server forks its daemon and returns: the script goes on at once.
StartServer(s) ==
    /\ pc[s] = "s_server"
    /\ \E d \in Pids : /\ ~Alive(d)
                       /\ daemon' = [daemon EXCEPT ![d] = [st |-> "born", port |-> PortList[k[s]]]]
    /\ NextPort(s, "s_server", "started")
    /\ UNCHANGED <<pidfile, nodepid, conn, told, faults>>

-----------------------------------------------------------------------------
(* shutdown_redis.sh *)

\* A careful operator lets a start finish, and its daemons come up, first.
Shutdown(s) == /\ Careful => /\ \A d \in Pids : daemon[d].st \notin {"born", "named"}
                             /\ \A q \in Scripts : pc[q] # "s_server"
               /\ Run(s, "h_cat")
               /\ UNCHANGED told

\* Faulty variant: the pid of the next instance.
ReadNextPid(s) ==
    /\ pc[s] = "h_cat"
    /\ nodepid' = [nodepid EXCEPT ![s] =
                      pidfile[PortList[IF k[s] < Len(PortList) THEN k[s] + 1 ELSE k[s]]]]
    /\ Goto(s, IF nodepid'[s] = NoPid THEN "failed" ELSE "h_cli")
    /\ UNCHANGED <<daemon, pidfile, k, conn, told, faults>>

\* nodepid=$(cat pidfile)
ReadPid(s) ==
    /\ pc[s] = "h_cat"
    /\ nodepid' = [nodepid EXCEPT ![s] = pidfile[PortList[k[s]]]]
    /\ Goto(s, IF nodepid'[s] = NoPid THEN "failed" ELSE "h_cli")
    /\ UNCHANGED <<daemon, pidfile, k, conn, told, faults>>

\* redis-cli SHUTDOWN SAVE: nothing listens on the port, or the daemon that
\* does begins to save.
Command(s) ==
    LET serving == {d \in Pids : Serves(d) /\ daemon[d].port = PortList[k[s]]} IN
    /\ pc[s] = "h_cli"
    /\ IF serving = {} THEN Goto(s, "failed") /\ UNCHANGED <<daemon, conn>>
       ELSE \E d \in serving : /\ daemon' = [daemon EXCEPT ![d].st = "saving"]
                               /\ conn' = [conn EXCEPT ![s] = d]
                               /\ Goto(s, "h_reply")
    /\ UNCHANGED <<pidfile, k, nodepid, told, faults>>

\* redis-cli ends with status 0: the daemon has gone, or has answered that it
\* could not save.
Reply(s) ==
    /\ pc[s] = "h_reply"
    /\ daemon[conn[s]].st \notin {"saving", "unlinked", "leaving"}
    /\ Goto(s, "h_wait")
    /\ UNCHANGED <<daemon, pidfile, k, nodepid, conn, told, faults>>

\* Faulty variant: the process is not waited for.
Unawaited(s) ==
    /\ pc[s] = "h_wait"
    /\ NextPort(s, "h_cat", "stopped")
    /\ told' = (told \/ pc'[s] = "stopped")
    /\ UNCHANGED <<daemon, pidfile, nodepid, conn, faults>>

\* while [ -x /proc/$nodepid ].  After the last port the node is reported as
\* stopped.
Await(s) ==
    /\ pc[s] = "h_wait"
    /\ ~Alive(nodepid[s])
    /\ NextPort(s, "h_cat", "stopped")
    /\ told' = (told \/ pc'[s] = "stopped")
    /\ UNCHANGED <<daemon, pidfile, nodepid, conn, faults>>

\* A script is interrupted, or a command of it fails.
Abort(s) ==
    /\ pc[s] \notin Rest
    /\ Goto(s, "failed")
    /\ UNCHANGED <<daemon, pidfile, k, nodepid, conn, told, faults>>

-----------------------------------------------------------------------------
(* redis-server *)

Becomes(d, st) == daemon' = [daemon EXCEPT ![d].st = st]
Ends(d) == daemon' = [daemon EXCEPT ![d] = None]
DaemonOnly == UNCHANGED <<pc, k, nodepid, conn, told>>

WritePidfile(d) ==
    /\ daemon[d].st = "born"
    /\ Becomes(d, "named")
    /\ pidfile' = [pidfile EXCEPT ![daemon[d].port] = d]
    /\ DaemonOnly /\ UNCHANGED faults

\* Lock the cluster files and listen, or exit and leave the pid file.
Serve(d) ==
    /\ daemon[d].st = "named"
    /\ IF \E e \in Pids : Locks(e) /\ daemon[e].port = daemon[d].port
       THEN Ends(d) ELSE Becomes(d, "up")
    /\ DaemonOnly /\ UNCHANGED <<pidfile, faults>>

\* Saved: the pid file goes first, then listener and lock, then the process.
Unlink(d) ==
    /\ daemon[d].st = "saving"
    /\ Becomes(d, "unlinked")
    /\ pidfile' = [pidfile EXCEPT ![daemon[d].port] = NoPid]
    /\ DaemonOnly /\ UNCHANGED faults

Unlock(d) ==
    /\ daemon[d].st = "unlinked"
    /\ Becomes(d, "leaving")
    /\ DaemonOnly /\ UNCHANGED <<pidfile, faults>>

Exit(d) ==
    /\ daemon[d].st = "leaving"
    /\ Ends(d)
    /\ DaemonOnly /\ UNCHANGED <<pidfile, faults>>

\* The data cannot be saved: the daemon answers with an error and stays.
SaveFails(d) ==
    /\ daemon[d].st = "saving" /\ faults < MaxFaults
    /\ Becomes(d, "up")
    /\ faults' = faults + 1
    /\ DaemonOnly /\ UNCHANGED pidfile

Crash(d) ==
    /\ Alive(d) /\ faults < MaxFaults
    /\ Ends(d)
    /\ faults' = faults + 1
    /\ DaemonOnly /\ UNCHANGED pidfile

-----------------------------------------------------------------------------
Script(s) == StartServer(s) \/ ReadPid(s) \/ Command(s) \/ Reply(s) \/ Await(s)
Daemon(d) == WritePidfile(d) \/ Serve(d) \/ Unlink(d) \/ Unlock(d) \/ Exit(d)

Next == \/ \E s \in Scripts : Start(s) \/ Shutdown(s) \/ Script(s) \/ Abort(s)
        \/ \E d \in Pids : Daemon(d) \/ SaveFails(d) \/ Crash(d)

Spec == Init /\ [][Next]_vars

\* The scripts go on, and so do the daemons.
FairSpec ==
    /\ Spec
    /\ \A s \in Scripts : WF_vars(Script(s))
    /\ \A d \in Pids : WF_vars(Daemon(d))

\* An operator who wants the node down and, until a run of shutdown_redis.sh
\* is through, runs it again.
Again(s) == pc[s] # "stopped" /\ Shutdown(s)

\* Every instance is up, as its pid file says.
StopInit ==
    /\ pidfile \in {owner \in [PortSet -> Pids] : IsInjective(owner)}
    /\ daemon = [d \in Pids |-> IF d \in Range(pidfile)
                               THEN [st |-> "up", port |-> Inverse(pidfile, PortSet, Pids)[d]]
                               ELSE None]
    /\ pc = [s \in Scripts |-> "idle"]
    /\ k = [s \in Scripts |-> 1]
    /\ nodepid = [s \in Scripts |-> NoPid]
    /\ conn = [s \in Scripts |-> NoPid]
    /\ told = FALSE
    /\ faults = 0

StopSpec ==
    /\ StopInit
    /\ [][(\E s \in Scripts : Again(s) \/ Script(s)) \/ (\E d \in Pids : Daemon(d) \/ Crash(d))]_vars
    /\ \A s \in Scripts : WF_vars(Again(s) \/ Script(s))
    /\ \A d \in Pids : WF_vars(Daemon(d))

-----------------------------------------------------------------------------
(* Properties *)

ShutdownCommands == {"h_cat", "h_cli", "h_reply", "h_wait"}

\* The types of the state.
TypeOK ==
    /\ daemon \in [Pids -> [st : {"none", "born", "named", "up", "saving", "unlinked", "leaving"},
                            port : PortSet \cup {0}]]
    /\ pidfile \in [PortSet -> Pids \cup {NoPid}]
    /\ pc \in [Scripts -> Rest \cup {"s_server"} \cup ShutdownCommands]
    /\ k \in [Scripts -> 1..Len(PortList)]
    /\ nodepid \in [Scripts -> Pids \cup {NoPid}]
    /\ conn \in [Scripts -> Pids \cup {NoPid}]
    /\ told \in BOOLEAN
    /\ faults \in 0..MaxFaults

\* The pid file of a port names the daemon that serves it, whatever crashed,
\* failed or took over a pid before (shutdown_redis.sh.0:22 relies on it).
PidfileTrue == \A d \in Pids : Serves(d) => pidfile[daemon[d].port] = d

\* When shutdown_redis.sh reports the node stopped (shutdown_redis.sh.0:35),
\* no instance of the node is alive, the ones it went through first included.
StoppedMeansDown ==
    [][\A s \in Scripts : pc[s] = "h_wait" /\ pc'[s] = "stopped" => NodeDown']_vars

\* An operator who starts the node again as soon as shutdown_redis.sh has said
\* that it is stopped (shutdown_redis.sh.0:35) gets what start_redis.sh says
\* (start_redis.sh.0:23): no new daemon meets the lock of an old one that is
\* still leaving, and only a fault ends it before it serves.
StartedServes ==
    [][\A d \in Pids : daemon[d].st = "named" /\ daemon'[d].st = "none" => faults' > faults]_vars

\* A run of shutdown_redis.sh that has reached an instance comes to an end,
\* unless the instance fails to save (shutdown_redis.sh.0:26-30).
ShutdownEnds ==
    \A s \in Scripts : (pc[s] = "h_cli" /\ faults = MaxFaults) ~> pc[s] \in Rest

\* "Save and shut down all service instances of the node"
\* (redis_cluster.sh:403): run until it is through, the script brings the
\* node down.
ShutsDownAll == <>NodeDown

=============================================================================
