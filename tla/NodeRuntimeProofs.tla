-------------------------- MODULE NodeRuntimeProofs --------------------------
(***************************************************************************)
(* Proofs about NodeRuntime, for every number of instances, scripts and    *)
(* process ids, and any number of faults.                                  *)
(***************************************************************************)
EXTENDS NodeRuntime, TLAPS

States == {"none", "born", "named", "up", "saving", "unlinked", "leaving"}
DaemonType == [st : States, port : PortSet \cup {0}]

LEMMA PortAt ==
    /\ Len(PortList) \in Nat /\ Len(PortList) >= 1
    /\ \A j \in 1..Len(PortList) : PortList[j] \in PortSet /\ PortList[j] # 0
    /\ \A port \in PortSet : \E j \in 1..Len(PortList) : port = PortList[j]
<1>1. PortList \in Seq(Nat \ {0}) /\ PortList # << >>
  BY PortsAssumption
<1>2. DOMAIN PortList = 1..Len(PortList) /\ Len(PortList) \in Nat /\ Len(PortList) >= 1
  BY <1>1
<1> QED
  BY <1>1, <1>2 DEF PortSet, Range

LEMMA NextPortType ==
    ASSUME TypeOK, NEW s \in Scripts, NEW again, NEW out, NextPort(s, again, out),
           again \in {"s_server", "h_cat"}, out \in {"started", "stopped"}
    PROVE  /\ pc' \in [Scripts -> Rest \cup {"s_server"} \cup ShutdownCommands]
           /\ k' \in [Scripts -> 1..Len(PortList)]
           /\ \A q \in Scripts : q # s => pc'[q] = pc[q] /\ k'[q] = k[q]
           /\ k[s] \in 1..Len(PortList)
           /\ \/ pc'[s] = out /\ k[s] = Len(PortList)
              \/ pc'[s] = again /\ k'[s] = k[s] + 1
<1>1. /\ k \in [Scripts -> 1..Len(PortList)] /\ k[s] \in 1..Len(PortList)
      /\ pc \in [Scripts -> Rest \cup {"s_server"} \cup ShutdownCommands]
      /\ Len(PortList) \in Nat
  BY PortAt DEF TypeOK
<1>2. CASE k[s] = Len(PortList)
  <2>1. pc' = [pc EXCEPT ![s] = out] /\ k' = k
    BY <1>2 DEF NextPort, Goto
  <2> QED
    BY <1>1, <1>2, <2>1 DEF Rest, ShutdownCommands
<1>3. CASE k[s] # Len(PortList)
  <2>1. pc' = [pc EXCEPT ![s] = again] /\ k' = [k EXCEPT ![s] = @ + 1]
    BY <1>3 DEF NextPort, Goto
  <2>2. k[s] + 1 \in 1..Len(PortList)
    BY <1>1, <1>3
  <2> QED
    BY <1>1, <2>1, <2>2 DEF Rest, ShutdownCommands
<1> QED
  BY <1>2, <1>3

LEMMA InitType == Init => TypeOK
  BY PortAt, BoundsAssumption DEF Init, TypeOK, None, Rest, ShutdownCommands

LEMMA ScriptType ==
    ASSUME TypeOK, NEW s \in Scripts, Start(s) \/ Shutdown(s) \/ Script(s) \/ Abort(s)
    PROVE  TypeOK'
<1> USE DEF Rest, ShutdownCommands
<1>1. CASE Start(s) \/ Shutdown(s)
  <2>1. \E l \in {"s_server", "h_cat"} : Run(s, l)
    BY <1>1 DEF Start, Shutdown
  <2>2. 1 \in 1..Len(PortList)
    BY PortAt
  <2>3. k' \in [Scripts -> 1..Len(PortList)]
    BY <2>1, <2>2 DEF Run, TypeOK
  <2> QED
    BY <1>1, <2>1, <2>3 DEF Start, Shutdown, Run, Goto, TypeOK
<1>2. CASE StartServer(s)
  <2>1. k[s] \in 1..Len(PortList) /\ PortList[k[s]] \in PortSet
    BY PortAt DEF TypeOK
  <2>2. daemon' \in [Pids -> DaemonType]
    BY <1>2, <2>1 DEF StartServer, TypeOK, DaemonType, States
  <2>3. NextPort(s, "s_server", "started")
    BY <1>2 DEF StartServer
  <2> QED
    BY <1>2, <2>2, <2>3, NextPortType DEF StartServer, TypeOK, DaemonType, States
<1>3. CASE ReadPid(s)
  <2>1. PortList[k[s]] \in PortSet
    BY PortAt DEF TypeOK
  <2> QED
    BY <1>3, <2>1 DEF ReadPid, Goto, TypeOK
<1>4. CASE Command(s)
  <2>1. daemon' \in [Pids -> DaemonType]
    <3>1. daemon' = daemon \/ \E d \in Pids : daemon' = [daemon EXCEPT ![d].st = "saving"]
      BY <1>4 DEF Command
    <3>2. CASE daemon' = daemon
      BY <3>2 DEF TypeOK, DaemonType, States
    <3>3. ASSUME NEW d \in Pids, daemon' = [daemon EXCEPT ![d].st = "saving"]
          PROVE  daemon' \in [Pids -> DaemonType]
      BY <3>3 DEF TypeOK, DaemonType, States
    <3> QED
      BY <3>1, <3>2, <3>3
  <2>2. conn' \in [Scripts -> Pids \cup {NoPid}]
    BY <1>4 DEF Command, TypeOK
  <2>3. pc' \in [Scripts -> Rest \cup {"s_server"} \cup ShutdownCommands]
    BY <1>4 DEF Command, Goto, TypeOK
  <2> QED
    BY <1>4, <2>1, <2>2, <2>3 DEF Command, TypeOK, DaemonType, States
<1>5. CASE Reply(s) \/ Abort(s)
  BY <1>5 DEF Reply, Abort, Goto, TypeOK
<1>6. CASE Await(s)
  <2>1. NextPort(s, "h_cat", "stopped")
    BY <1>6 DEF Await
  <2> QED
    BY <1>6, <2>1, NextPortType DEF Await, TypeOK
<1> QED
  BY <1>1, <1>2, <1>3, <1>4, <1>5, <1>6 DEF Script

(* What a step of a daemon, or a fault of it, does to the daemons. *)
LEMMA DaemonStep ==
    ASSUME TypeOK, NEW d \in Pids, Daemon(d) \/ SaveFails(d) \/ Crash(d)
    PROVE  /\ TypeOK'
           /\ \A e \in Pids : e # d => daemon'[e] = daemon[e]
           /\ daemon'[d].st # "none" => daemon'[d].port = daemon[d].port
           /\ daemon[d].st # "none"
           /\ daemon'[d].st # "born"
           /\ UNCHANGED <<pc, k, nodepid, conn, told>>
<1>0. UNCHANGED <<pc, k, nodepid, conn, told>>
  BY DEF Daemon, WritePidfile, Serve, Unlink, Unlock, Exit, SaveFails, Crash, DaemonOnly
<1>1. ASSUME NEW st \in States \ {"born"}, Becomes(d, st)
      PROVE  /\ daemon' \in [Pids -> DaemonType]
             /\ \A e \in Pids : e # d => daemon'[e] = daemon[e]
             /\ daemon'[d].port = daemon[d].port /\ daemon'[d].st = st
  BY <1>1 DEF Becomes, TypeOK, DaemonType, States
<1>2. ASSUME Ends(d)
      PROVE  /\ daemon' \in [Pids -> DaemonType]
             /\ \A e \in Pids : e # d => daemon'[e] = daemon[e]
             /\ daemon'[d].st = "none"
  BY <1>2 DEF Ends, None, TypeOK, DaemonType, States
<1>3. daemon[d].st # "none" /\ (Ends(d) \/ \E st \in States \ {"born"} : Becomes(d, st))
  BY DEF Daemon, WritePidfile, Serve, Unlink, Unlock, Exit, SaveFails, Crash, Alive, States
<1>4. pidfile' \in [PortSet -> Pids \cup {NoPid}] /\ faults' \in 0..MaxFaults
  BY BoundsAssumption
     DEF Daemon, WritePidfile, Serve, Unlink, Unlock, Exit, SaveFails, Crash, TypeOK
<1>5. daemon' \in [Pids -> DaemonType]
  BY <1>1, <1>2, <1>3
<1>6. TypeOK'
  BY <1>0, <1>4, <1>5 DEF TypeOK, DaemonType, States
<1> QED
  BY <1>0, <1>1, <1>2, <1>3, <1>6

(* The state stays within its types, and the loops within the ports. *)
THEOREM TypeCorrect == Spec => []TypeOK
<1>1. TypeOK /\ [Next]_vars => TypeOK'
  <2> SUFFICES ASSUME TypeOK, [Next]_vars PROVE TypeOK'
    OBVIOUS
  <2>1. CASE UNCHANGED vars
    BY <2>1 DEF vars, TypeOK
  <2> QED
    BY <2>1, ScriptType, DaemonStep DEF Next
<1> QED
  BY InitType, <1>1, PTL DEF Spec

-----------------------------------------------------------------------------
(* What holds when the operator waits: a port has one daemon at most, a pid *)
(* file is the last daemon's, and no daemon is born while a shutdown runs.  *)

Pending == {"h_cli", "h_reply", "h_wait"}

\* d is the daemon that the script has come to.
At(s, d) == Alive(d) /\ daemon[d].port = PortList[k[s]]

Placed == \A d \in Pids : Alive(d) => daemon[d].port \in PortSet

OnePerPort == \A d, e \in Pids : Alive(d) /\ Alive(e) /\ daemon[d].port = daemon[e].port => d = e

Named == \A d \in Pids : daemon[d].st \in {"named", "up", "saving"} => pidfile[daemon[d].port] = d

\* What the operator has been told is so.
Told == told => NodeDown

\* A start has the node for itself, and fills it from the first port.
Starting(s) ==
    pc[s] = "s_server" =>
        /\ ~told
        /\ \A q \in Scripts : q # s => pc[q] \in Rest
        /\ \A d \in Pids, j \in k[s]..Len(PortList) : Alive(d) => daemon[d].port # PortList[j]

\* A shutdown has emptied the ports behind it, and waits for the right daemon.
Stopping(s) ==
    /\ pc[s] \in ShutdownCommands =>
        /\ \A d \in Pids : daemon[d].st \notin {"born", "named"}
        /\ \A d \in Pids, j \in 1..(k[s] - 1) : Alive(d) => daemon[d].port # PortList[j]
    /\ pc[s] \in Pending => nodepid[s] \in Pids
    /\ pc[s] = "h_cli" => \A d \in Pids : At(s, d) /\ Serves(d) => d = nodepid[s]
    /\ pc[s] \in {"h_reply", "h_wait"} => \A d \in Pids : At(s, d) => d = nodepid[s]

IInv ==
    /\ TypeOK /\ Placed /\ OnePerPort /\ Named /\ Told
    /\ \A s \in Scripts : Starting(s) /\ Stopping(s)

(* A step after which no daemon is there that was not, and none serves that *)
(* did not or was about to.                                                 *)
Settles == \A e \in Pids :
    /\ Alive(e)' => Alive(e) /\ daemon'[e].port = daemon[e].port
    /\ Serves(e)' => Serves(e) \/ daemon[e].st = "named"
    /\ daemon'[e].st \in {"born", "named"} => daemon[e].st \in {"born", "named"}

LEMMA DaemonSettles ==
    ASSUME TypeOK, NEW d \in Pids, Daemon(d) \/ SaveFails(d) \/ Crash(d)
    PROVE  Settles
<1>1. /\ \A e \in Pids : e # d => daemon'[e] = daemon[e]
      /\ daemon'[d].st # "none" => daemon'[d].port = daemon[d].port
      /\ daemon[d].st # "none" /\ daemon'[d].st # "born"
  BY DaemonStep
<1>2. /\ daemon'[d].st \in {"up", "saving"} => daemon[d].st \in {"named", "up", "saving"}
      /\ daemon'[d].st = "named" => daemon[d].st = "born"
  BY DEF Daemon, WritePidfile, Serve, Unlink, Unlock, Exit, SaveFails, Crash, Becomes, Ends,
         None, TypeOK
<1> QED
  BY <1>1, <1>2 DEF Settles, Alive, Serves

LEMMA CommandSettles ==
    ASSUME TypeOK, NEW s \in Scripts, Command(s)
    PROVE  /\ Settles
           /\ \A e \in Pids : daemon'[e].st \in {"named", "up", "saving"}
                                => daemon[e].st \in {"named", "up", "saving"}
<1>1. daemon' = daemon \/ \E d \in Pids : Serves(d) /\ daemon' = [daemon EXCEPT ![d].st = "saving"]
  BY DEF Command
<1>2. CASE daemon' = daemon
  BY <1>2 DEF Settles, Alive, Serves
<1>3. ASSUME NEW d \in Pids, Serves(d), daemon' = [daemon EXCEPT ![d].st = "saving"]
      PROVE  /\ Settles
             /\ \A e \in Pids : daemon'[e].st \in {"named", "up", "saving"}
                                  => daemon[e].st \in {"named", "up", "saving"}
  <2>1. /\ \A e \in Pids : e # d => daemon'[e] = daemon[e]
        /\ daemon'[d].st = "saving" /\ daemon'[d].port = daemon[d].port
    BY <1>3 DEF TypeOK
  <2> QED
    BY <1>3, <2>1 DEF Settles, Alive, Serves
<1> QED
  BY <1>1, <1>2, <1>3

LEMMA SettledPorts ==
    ASSUME Placed, OnePerPort, Settles
    PROVE  Placed' /\ OnePerPort'
  BY DEF Placed, OnePerPort, Settles

LEMMA SettledScript ==
    ASSUME Settles, NEW q \in Scripts, Stopping(q),
           pc'[q] = pc[q], k'[q] = k[q], nodepid'[q] = nodepid[q]
    PROVE  Stopping(q)'
<1>1. CASE pc[q] \notin ShutdownCommands
  BY <1>1 DEF Stopping, ShutdownCommands, Pending
<1>2. CASE pc[q] \in ShutdownCommands
  <2>1. \A d \in Pids : daemon[d].st \notin {"born", "named"}
    BY <1>2 DEF Stopping
  <2>2. \A d \in Pids : daemon'[d].st \notin {"born", "named"} /\ (Serves(d)' => Serves(d))
    BY <2>1 DEF Settles
  <2>3. \A d \in Pids : At(q, d)' => At(q, d)
    BY DEF Settles, At
  <2>4. \A d \in Pids, j \in 1..(k[q] - 1) : Alive(d)' => daemon'[d].port # PortList[j]
    BY <1>2 DEF Stopping, Settles
  <2> QED
    BY <2>2, <2>3, <2>4 DEF Stopping
<1> QED
  BY <1>1, <1>2

(* The parts of a script that is not the one that moves. *)
LEMMA Bystander ==
    ASSUME Careful, IInv, NEW s \in Scripts, Start(s) \/ Shutdown(s) \/ Script(s) \/ Abort(s),
           NEW q \in Scripts, q # s
    PROVE  /\ pc[q] # "s_server"
           /\ pc'[q] = pc[q] /\ k'[q] = k[q] /\ nodepid'[q] = nodepid[q]
<1>1. CASE Start(s) \/ Shutdown(s)
  BY <1>1 DEF Start, Shutdown, Run, Goto, IInv, TypeOK, Rest
<1>2. CASE Script(s) \/ Abort(s)
  <2>1. pc[s] \notin Rest
    BY <1>2 DEF Script, Abort, StartServer, ReadPid, Command, Reply, Await, Rest
  <2>2. pc[q] # "s_server"
    BY <2>1 DEF IInv, Starting
  <2>3. CASE StartServer(s)
    BY <2>2, <2>3, NextPortType DEF StartServer, IInv
  <2>4. CASE Await(s)
    BY <2>2, <2>4, NextPortType DEF Await, IInv
  <2>5. CASE ReadPid(s) \/ Command(s) \/ Reply(s) \/ Abort(s)
    BY <2>2, <2>5 DEF ReadPid, Command, Reply, Abort, Goto, IInv, TypeOK
  <2> QED
    BY <1>2, <2>3, <2>4, <2>5 DEF Script
<1> QED
  BY <1>1, <1>2


Rests(s) == Starting(s) /\ Stopping(s)
Daemons == Placed /\ OnePerPort /\ Named

(* From the moving script and the daemons to all scripts. *)
LEMMA Scripted ==
    ASSUME Careful, IInv, NEW s \in Scripts, Start(s) \/ Shutdown(s) \/ Script(s) \/ Abort(s),
           Settles, Rests(s)', Named', Told'
    PROVE  IInv'
<1>1. TypeOK' /\ Placed' /\ OnePerPort'
  BY ScriptType, SettledPorts DEF IInv
<1>2. ASSUME NEW q \in Scripts, q # s PROVE Starting(q)' /\ Stopping(q)'
  <2>1. pc[q] # "s_server" /\ pc'[q] = pc[q] /\ k'[q] = k[q] /\ nodepid'[q] = nodepid[q]
    BY <1>2, Bystander
  <2>2. Stopping(q)'
    BY <2>1, SettledScript DEF IInv
  <2> QED
    BY <2>1, <2>2 DEF Starting
<1> QED
  BY <1>1, <1>2 DEF IInv, Rests

LEMMA ToldKept ==
    ASSUME Settles, Told, told' => told
    PROVE  Told'
  BY DEF Settles, Told, NodeDown, Alive

LEMMA StillSettles ==
    ASSUME UNCHANGED <<daemon, pidfile>>, Named
    PROVE  Settles /\ Named'
  BY DEF Settles, Named, Alive, Serves

LEMMA RunInv ==
    ASSUME Careful, IInv, NEW s \in Scripts, Start(s) \/ Shutdown(s)
    PROVE  IInv'
<1>1. Settles /\ Named' /\ Told'
  BY StillSettles, ToldKept DEF Start, Shutdown, Run, IInv
<1>2. Rests(s)'
  <2>1. CASE Start(s)
    <3>1. pc'[s] = "s_server" /\ NodeDown /\ ~told' /\ UNCHANGED daemon
      BY <2>1 DEF Start, Run, Goto, IInv, TypeOK, Told
    <3>2. \A q \in Scripts : q # s => pc'[q] \in Rest
      BY <2>1 DEF Start, Run, Goto, IInv, TypeOK
    <3>3. \A d \in Pids : ~Alive(d)'
      BY <3>1 DEF NodeDown, Alive
    <3> QED
      BY <3>1, <3>2, <3>3 DEF Rests, Starting, Stopping, ShutdownCommands, Pending
  <2>2. CASE Shutdown(s)
    <3>1. pc'[s] = "h_cat" /\ k'[s] = 1 /\ UNCHANGED daemon
      BY <2>2 DEF Shutdown, Run, Goto, IInv, TypeOK
    <3>2. \A d \in Pids : daemon'[d].st \notin {"born", "named"}
      BY <2>2, <3>1 DEF Shutdown
    <3>3. 1..(k'[s] - 1) = {}
      BY <3>1
    <3> QED
      BY <3>1, <3>2, <3>3 DEF Rests, Starting, Stopping, Pending
  <2> QED
    BY <2>1, <2>2
<1> QED
  BY <1>1, <1>2, Scripted

LEMMA ReadPidInv ==
    ASSUME Careful, IInv, NEW s \in Scripts, ReadPid(s)
    PROVE  IInv'
<1>1. Settles /\ Named' /\ Told'
  BY StillSettles, ToldKept DEF ReadPid, IInv
<1>2. PortList[k[s]] \in PortSet /\ k'[s] = k[s] /\ UNCHANGED daemon
  BY PortAt DEF ReadPid, IInv, TypeOK
<1>3. /\ nodepid'[s] = pidfile[PortList[k[s]]] /\ nodepid'[s] \in Pids \cup {NoPid}
      /\ pc'[s] = IF nodepid'[s] = NoPid THEN "failed" ELSE "h_cli"
  BY <1>2 DEF ReadPid, Goto, IInv, TypeOK
<1>4. /\ \A d \in Pids : daemon[d].st \notin {"born", "named"}
      /\ \A d \in Pids, j \in 1..(k[s] - 1) : Alive(d) => daemon[d].port # PortList[j]
  BY DEF ReadPid, IInv, Stopping, ShutdownCommands
<1>5. \A d \in Pids : At(s, d) /\ Serves(d) => d = nodepid'[s]
  BY <1>3 DEF At, Serves, IInv, Named
<1>6. Rests(s)'
  BY <1>2, <1>3, <1>4, <1>5, PidsAssumption
     DEF Rests, Starting, Stopping, At, Alive, Serves, ShutdownCommands, Pending
<1> QED
  BY <1>1, <1>6, Scripted DEF Script

LEMMA CommandInv ==
    ASSUME Careful, IInv, NEW s \in Scripts, Command(s)
    PROVE  IInv'
<1>1. /\ Settles
      /\ \A e \in Pids : daemon'[e].st \in {"named", "up", "saving"}
                           => daemon[e].st \in {"named", "up", "saving"}
      /\ UNCHANGED <<pidfile, k, nodepid>>
  BY CommandSettles DEF Command, IInv
<1>2. Named' /\ Told'
  BY <1>1, ToldKept DEF Command, IInv, Named, Settles, Alive
<1>3. /\ \A d \in Pids : daemon[d].st \notin {"born", "named"}
      /\ \A d \in Pids, j \in 1..(k[s] - 1) : Alive(d) => daemon[d].port # PortList[j]
      /\ nodepid[s] \in Pids
      /\ \A d \in Pids : At(s, d) /\ Serves(d) => d = nodepid[s]
  BY DEF Command, IInv, Stopping, ShutdownCommands, Pending
<1>4. ASSUME pc'[s] = "failed" PROVE Rests(s)'
  BY <1>4 DEF Rests, Starting, Stopping, ShutdownCommands, Pending
<1>5. ASSUME pc'[s] = "h_reply" PROVE Rests(s)'
  <2>1. PICK d \in Pids : Serves(d) /\ daemon[d].port = PortList[k[s]]
    BY <1>5 DEF Command, Goto, IInv, TypeOK
  <2>2. At(s, d) /\ d = nodepid[s]
    BY <1>3, <2>1 DEF At, Alive, Serves
  <2>3. \A e \in Pids : At(s, e) => e = nodepid[s]
    BY <2>2 DEF IInv, OnePerPort, At
  <2>4. \A e \in Pids : At(s, e)' => e = nodepid'[s]
    BY <1>1, <2>3 DEF Settles, At
  <2>5. /\ \A e \in Pids : daemon'[e].st \notin {"born", "named"}
        /\ \A e \in Pids, j \in 1..(k'[s] - 1) : Alive(e)' => daemon'[e].port # PortList[j]
    BY <1>1, <1>3 DEF Settles
  <2> QED
    BY <1>1, <1>3, <1>5, <2>4, <2>5 DEF Rests, Starting, Stopping
<1>6. pc'[s] \in {"failed", "h_reply"}
  BY DEF Command, Goto, IInv, TypeOK
<1> QED
  BY <1>1, <1>2, <1>4, <1>5, <1>6, Scripted DEF Script

LEMMA ReplyInv ==
    ASSUME Careful, IInv, NEW s \in Scripts, Reply(s) \/ Abort(s)
    PROVE  IInv'
<1>1. Settles /\ Named' /\ Told' /\ UNCHANGED <<daemon, k, nodepid>>
  BY StillSettles, ToldKept DEF Reply, Abort, IInv
<1>2. CASE Reply(s)
  <2>1. pc'[s] = "h_wait" /\ pc[s] = "h_reply"
    BY <1>2 DEF Reply, Goto, IInv, TypeOK
  <2>2. Rests(s)'
    BY <1>1, <2>1 DEF IInv, Rests, Starting, Stopping, ShutdownCommands, Pending, At, Alive
  <2> QED
    BY <1>1, <1>2, <2>2, Scripted DEF Script
<1>3. CASE Abort(s)
  <2>1. pc'[s] = "failed"
    BY <1>3 DEF Abort, Goto, IInv, TypeOK
  <2>2. Rests(s)'
    BY <2>1 DEF Rests, Starting, Stopping, ShutdownCommands, Pending
  <2> QED
    BY <1>1, <1>3, <2>2, Scripted
<1> QED
  BY <1>2, <1>3

(* The loop on /proc ends: nothing is left on the port. *)
LEMMA Awaited ==
    ASSUME IInv, NEW s \in Scripts, Await(s)
    PROVE  \A d \in Pids, j \in 1..k[s] : Alive(d) => daemon[d].port # PortList[j]
<1>1. /\ \A d \in Pids, j \in 1..(k[s] - 1) : Alive(d) => daemon[d].port # PortList[j]
      /\ \A d \in Pids : At(s, d) => d = nodepid[s]
      /\ ~Alive(nodepid[s])
  BY DEF Await, IInv, Stopping, ShutdownCommands
<1>2. \A d \in Pids : Alive(d) => daemon[d].port # PortList[k[s]]
  BY <1>1 DEF At
<1>3. k[s] \in 1..Len(PortList) /\ Len(PortList) \in Nat
  BY PortAt DEF IInv, TypeOK
<1>4. \A j \in 1..k[s] : j = k[s] \/ j \in 1..(k[s] - 1)
  BY <1>3
<1> QED
  BY <1>1, <1>2, <1>4

(* After the last port that is the whole node. *)
LEMMA Emptied ==
    ASSUME IInv, NEW s \in Scripts, Await(s), pc'[s] = "stopped"
    PROVE  NodeDown'
<1>1. k[s] = Len(PortList) /\ UNCHANGED daemon
  BY NextPortType DEF Await, IInv
<1>2. \A d \in Pids : ~Alive(d)
  BY <1>1, Awaited, PortAt DEF IInv, Placed
<1> QED
  BY <1>1, <1>2 DEF NodeDown, Alive

LEMMA AwaitInv ==
    ASSUME Careful, IInv, NEW s \in Scripts, Await(s)
    PROVE  IInv'
<1>1. Settles /\ Named' /\ UNCHANGED <<daemon, nodepid>>
  BY StillSettles DEF Await, IInv
<1>t. Told'
  <2>1. CASE pc'[s] = "stopped"
    BY <2>1, Emptied DEF Told
  <2>2. CASE pc'[s] # "stopped"
    BY <1>1, <2>2, ToldKept DEF Await, IInv
  <2> QED
    BY <2>1, <2>2
<1>2. /\ k[s] \in 1..Len(PortList) /\ Len(PortList) \in Nat
      /\ \/ pc'[s] = "stopped"
         \/ pc'[s] = "h_cat" /\ k'[s] = k[s] + 1
  BY NextPortType, PortAt DEF Await, IInv
<1>3. ASSUME pc'[s] = "stopped" PROVE Rests(s)'
  BY <1>3 DEF Rests, Starting, Stopping, ShutdownCommands, Pending
<1>4. ASSUME pc'[s] = "h_cat", k'[s] = k[s] + 1 PROVE Rests(s)'
  <2>1. \A d \in Pids : daemon[d].st \notin {"born", "named"}
    BY DEF Await, IInv, Stopping, ShutdownCommands
  <2>2. 1..(k'[s] - 1) = 1..k[s]
    BY <1>2, <1>4
  <2> QED
    BY <1>1, <1>4, <2>1, <2>2, Awaited DEF Rests, Starting, Stopping, Pending, Alive
<1> QED
  BY <1>1, <1>t, <1>2, <1>3, <1>4, Scripted DEF Script

(* The one step that brings a daemon: its port has none. *)
LEMMA StartServerInv ==
    ASSUME Careful, IInv, NEW s \in Scripts, StartServer(s)
    PROVE  IInv'
<1>1. TypeOK' /\ pc[s] = "s_server" /\ ~told' /\ UNCHANGED <<pidfile, nodepid>>
  BY ScriptType DEF StartServer, Script, IInv, Starting
<1>2. /\ k[s] \in 1..Len(PortList) /\ Len(PortList) \in Nat
      /\ PortList[k[s]] \in PortSet
      /\ pc'[s] = "started" \/ (pc'[s] = "s_server" /\ k'[s] = k[s] + 1)
  BY NextPortType, PortAt DEF StartServer, IInv
<1>3. /\ \A q \in Scripts : q # s => pc[q] \in Rest
      /\ \A d \in Pids, j \in k[s]..Len(PortList) : Alive(d) => daemon[d].port # PortList[j]
  BY <1>1 DEF IInv, Starting
<1>4. PICK d \in Pids : ~Alive(d) /\ daemon' = [daemon EXCEPT ![d] = [st |-> "born", port |-> PortList[k[s]]]]
  BY DEF StartServer
<1>5. /\ \A e \in Pids : e # d => daemon'[e] = daemon[e]
      /\ daemon'[d].st = "born" /\ daemon'[d].port = PortList[k[s]]
  BY <1>4 DEF IInv, TypeOK
<1>6. Placed'
  BY <1>2, <1>5 DEF IInv, Placed, Alive
<1>7. \A e \in Pids : Alive(e) => daemon[e].port # PortList[k[s]]
  BY <1>2, <1>3
<1>8. OnePerPort'
  BY <1>5, <1>7 DEF IInv, OnePerPort, Alive
<1>9. Named'
  BY <1>1, <1>5 DEF IInv, Named
<1>10. ASSUME NEW q \in Scripts, q # s PROVE Rests(q)'
  <2>1. pc'[q] \in Rest
    BY <1>3, <1>10, Bystander DEF Script
  <2> QED
    BY <2>1 DEF Rests, Starting, Stopping, Rest, ShutdownCommands, Pending
<1>11. ASSUME pc'[s] = "started" PROVE Rests(s)'
  BY <1>11 DEF Rests, Starting, Stopping, ShutdownCommands, Pending
<1>12. ASSUME pc'[s] = "s_server", k'[s] = k[s] + 1 PROVE Rests(s)'
  <2>1. \A q \in Scripts : q # s => pc'[q] \in Rest
    BY <1>3, Bystander DEF Script
  <2>2. ASSUME NEW e \in Pids, NEW j \in k'[s]..Len(PortList), Alive(e)'
        PROVE  daemon'[e].port # PortList[j]
    <3>1. j \in k[s]..Len(PortList) /\ j \in 1..Len(PortList) /\ j # k[s]
      BY <1>2, <1>12
    <3>2. CASE e = d
      BY <1>2, <1>5, <3>1, <3>2, PortsAssumption
    <3>3. CASE e # d
      BY <1>3, <1>5, <2>2, <3>1, <3>3 DEF Alive
    <3> QED
      BY <3>2, <3>3
  <2> QED
    BY <1>1, <1>12, <2>1, <2>2 DEF Rests, Starting, Stopping, ShutdownCommands, Pending
<1> QED
  BY <1>1, <1>2, <1>6, <1>8, <1>9, <1>10, <1>11, <1>12 DEF IInv, Rests, Told

(* A daemon writes the pid file of its port only, and unlinks no other's. *)
LEMMA DaemonNames ==
    ASSUME TypeOK, Placed, OnePerPort, Named, NEW d \in Pids, Daemon(d) \/ SaveFails(d) \/ Crash(d)
    PROVE  Named'
<1>1. /\ \A e \in Pids : e # d => daemon'[e] = daemon[e]
      /\ daemon'[d].st # "none" => daemon'[d].port = daemon[d].port
      /\ Alive(d) /\ TypeOK'
  BY DaemonStep DEF Alive
<1>2. ASSUME NEW e \in Pids, e # d, daemon'[e].st \in {"named", "up", "saving"}
      PROVE  pidfile'[daemon'[e].port] = e
  <2>1. daemon'[e] = daemon[e] /\ pidfile[daemon[e].port] = e /\ daemon[e].port # daemon[d].port
    BY <1>1, <1>2 DEF Named, OnePerPort, Alive
  <2>2. \A port \in PortSet : port # daemon[d].port => pidfile'[port] = pidfile[port]
    BY DEF Daemon, WritePidfile, Serve, Unlink, Unlock, Exit, SaveFails, Crash, TypeOK
  <2>3. daemon[e].port \in PortSet
    BY <1>2, <2>1 DEF Placed, Alive
  <2> QED
    BY <2>1, <2>2, <2>3
<1>3. ASSUME daemon'[d].st \in {"named", "up", "saving"}
      PROVE  pidfile'[daemon'[d].port] = d
  <2>1. daemon'[d].port = daemon[d].port /\ daemon[d].port \in PortSet
    BY <1>1, <1>3 DEF Placed
  <2>2. CASE WritePidfile(d)
    BY <2>1, <2>2 DEF WritePidfile, TypeOK
  <2>3. CASE Serve(d) \/ SaveFails(d)
    BY <2>1, <2>3 DEF Serve, SaveFails, Named
  <2>4. CASE Unlink(d) \/ Unlock(d) \/ Exit(d) \/ Crash(d)
    BY <1>3, <2>4 DEF Unlink, Unlock, Exit, Crash, Becomes, Ends, None, TypeOK
  <2> QED
    BY <2>2, <2>3, <2>4 DEF Daemon
<1> QED
  BY <1>2, <1>3 DEF Named

LEMMA DaemonInv ==
    ASSUME IInv, NEW d \in Pids, Daemon(d) \/ SaveFails(d) \/ Crash(d)
    PROVE  IInv'
<1>1. TypeOK' /\ UNCHANGED <<pc, k, nodepid, told>>
  BY DaemonStep DEF IInv
<1>2. Settles
  BY DaemonSettles DEF IInv
<1>3. Placed' /\ OnePerPort' /\ Named' /\ Told'
  BY <1>1, <1>2, SettledPorts, DaemonNames, ToldKept DEF IInv
<1>4. ASSUME NEW s \in Scripts PROVE Starting(s)' /\ Stopping(s)'
  <2>1. Stopping(s)'
    BY <1>1, <1>2, SettledScript DEF IInv
  <2>2. Starting(s)'
    BY <1>1, <1>2 DEF IInv, Starting, Settles
  <2> QED
    BY <2>1, <2>2
<1> QED
  BY <1>1, <1>3, <1>4 DEF IInv

LEMMA InitInv == Init => IInv
<1> SUFFICES ASSUME Init PROVE IInv
  OBVIOUS
<1>1. \A d \in Pids : ~Alive(d) /\ daemon[d].st = "none"
  BY DEF Init, None, Alive
<1>2. \A s \in Scripts : pc[s] = "idle"
  BY DEF Init
<1>3. Placed /\ OnePerPort /\ Named /\ Told
  BY <1>1 DEF Placed, OnePerPort, Named, Told, NodeDown
<1>4. \A s \in Scripts : Starting(s) /\ Stopping(s)
  BY <1>2 DEF Starting, Stopping, ShutdownCommands, Pending
<1> QED
  BY <1>3, <1>4, InitType DEF IInv

LEMMA StepInv == ASSUME Careful PROVE IInv /\ [Next]_vars => IInv'
<1> SUFFICES ASSUME IInv, [Next]_vars PROVE IInv'
  OBVIOUS
<1>1. CASE UNCHANGED vars
  BY <1>1 DEF vars, IInv, TypeOK, Placed, OnePerPort, Named, Told, NodeDown, Starting, Stopping, At,
              Alive, Serves
<1>2. ASSUME NEW s \in Scripts, Start(s) \/ Shutdown(s) \/ Script(s) \/ Abort(s) PROVE IInv'
  BY <1>2, RunInv, StartServerInv, ReadPidInv, CommandInv, ReplyInv, AwaitInv DEF Script
<1>3. ASSUME NEW d \in Pids, Daemon(d) \/ SaveFails(d) \/ Crash(d) PROVE IInv'
  BY <1>3, DaemonInv
<1> QED
  BY <1>1, <1>2, <1>3 DEF Next

(* A careful operator finds in a pid file the daemon that serves its port,  *)
(* through crashes, failed saves and pids used again.                       *)
THEOREM PidfileIsTrue == ASSUME Careful PROVE Spec => []PidfileTrue
<1>1. Init => IInv
  BY InitInv
<1>2. IInv /\ [Next]_vars => IInv'
  BY StepInv
<1>3. IInv => PidfileTrue
  BY DEF IInv, Named, PidfileTrue, Serves
<1> QED
  BY <1>1, <1>2, <1>3, PTL DEF Spec

(* The last wait of the loop: every port is behind it, none has a daemon. *)
LEMMA LastWait ==
    ASSUME Careful, IInv, Next, NEW s \in Scripts, pc[s] = "h_wait", pc'[s] = "stopped"
    PROVE  NodeDown'
<1>1. \A d \in Pids : ~(Daemon(d) \/ SaveFails(d) \/ Crash(d))
  <2> SUFFICES ASSUME NEW d \in Pids, Daemon(d) \/ SaveFails(d) \/ Crash(d) PROVE FALSE
    OBVIOUS
  <2>1. UNCHANGED pc
    BY DaemonStep DEF IInv
  <2> QED
    BY <2>1
<1>2. PICK q \in Scripts : Start(q) \/ Shutdown(q) \/ Script(q) \/ Abort(q)
  BY <1>1 DEF Next
<1>3. q = s
  BY <1>2, Bystander
<1>4. ~(Start(s) \/ Shutdown(s))
  BY DEF Start, Shutdown, Run, Rest
<1>5. ~Abort(s)
  BY DEF Abort, Goto, IInv, TypeOK
<1>6. Await(s)
  BY <1>2, <1>3, <1>4, <1>5 DEF Script, StartServer, ReadPid, Command, Reply
<1> QED
  BY <1>6, Emptied

(* With a careful operator a shutdown that reports the node stopped leaves  *)
(* no instance of any port alive.                                           *)
THEOREM StoppedIsDown == ASSUME Careful PROVE Spec => StoppedMeansDown
<1>1. Init => IInv
  BY InitInv
<1>2. IInv /\ [Next]_vars => IInv'
  BY StepInv
<1>3. IInv /\ [Next]_vars
        => [\A s \in Scripts : pc[s] = "h_wait" /\ pc'[s] = "stopped" => NodeDown']_vars
  BY LastWait
<1> QED
  BY <1>1, <1>2, <1>3, PTL DEF Spec, StoppedMeansDown

(* An operator may start the node on the word of shutdown_redis.sh: no      *)
(* daemon that is forked then finds its port taken, and only a fault ends   *)
(* it before it serves.                                                     *)
THEOREM StartIsTrue == ASSUME Careful PROVE Spec => StartedServes
<1>1. Init => IInv
  BY InitInv
<1>2. IInv /\ [Next]_vars => IInv'
  BY StepInv
<1>3. ASSUME IInv, Next, NEW d \in Pids, daemon[d].st = "named", daemon'[d].st = "none"
      PROVE  faults' > faults
  <2>1. ASSUME NEW s \in Scripts, Start(s) \/ Shutdown(s) \/ Script(s) \/ Abort(s) PROVE FALSE
    <3>1. CASE Start(s) \/ Shutdown(s) \/ Abort(s) \/ ReadPid(s) \/ Reply(s) \/ Await(s)
      BY <1>3, <3>1 DEF Start, Shutdown, Run, Abort, ReadPid, Reply, Await
    <3>2. CASE StartServer(s)
      BY <1>3, <3>2 DEF StartServer, IInv, TypeOK, Alive
    <3>3. CASE Command(s)
      BY <1>3, <3>3 DEF Command, Serves, IInv, TypeOK
    <3> QED
      BY <2>1, <3>1, <3>2, <3>3 DEF Script
  <2>2. ASSUME NEW q \in Pids, Daemon(q) \/ SaveFails(q) \/ Crash(q) PROVE faults' > faults
    <3>1. q = d
      BY <1>3, <2>2, DaemonStep DEF IInv
    <3>2. ~ \E e \in Pids : Locks(e) /\ daemon[e].port = daemon[d].port
      BY <1>3 DEF IInv, OnePerPort, Alive, Locks
    <3>3. ~ Daemon(d)
      BY <1>3, <3>2 DEF IInv, TypeOK, Daemon, WritePidfile, Serve, Unlink, Unlock, Exit, Becomes
    <3>4. faults' = faults + 1
      BY <2>2, <3>1, <3>3 DEF SaveFails, Crash
    <3>5. MaxFaults \in Nat /\ faults \in 0..MaxFaults
      BY <1>3, BoundsAssumption DEF IInv, TypeOK
    <3> QED
      BY <3>4, <3>5
  <2> QED
    BY <1>3, <2>1, <2>2 DEF Next
<1>4. IInv /\ [Next]_vars
        => [\A d \in Pids : daemon[d].st = "named" /\ daemon'[d].st = "none" => faults' > faults]_vars
  BY <1>3
<1> QED
  BY <1>1, <1>2, <1>4, PTL DEF Spec, StartedServes

=============================================================================
