--------------------------- MODULE RecoveryProofs ---------------------------
(***************************************************************************)
(* Proofs about Recovery: the part of Recovers that is about every state.  *)
(* Whatever failed before, clean ALL and ALL refuse nothing, and an ALL    *)
(* that is through has installed everything.  That they do come to an end  *)
(* is for TLC.                                                             *)
(***************************************************************************)
EXTENDS Recovery, ClusterToolProofs

\* The packages are where the README has them put (README.md:76-87).
HasPackages == \A x \in Inis : {x.redis, x.hiredis} \subseteq Archives

\* How far the two commands have come.  What clean has passed is empty;
\* what ALL has yet to do is not done.
Cleaning(p) ==
    /\ pc[p] \in CleanCommands \cup {"done", "failed"}
    /\ pc[p] \in {"x_config", "r_config", "x_home", "r_home", "done"} => build = EmptyBuild
    /\ pc[p] \in {"x_home", "r_home", "done"} => config = EmptyConfig
    /\ pc[p] = "done" => home = EmptyHome

Installing(p) ==
    /\ pc[p] \in BuildCommands \cup ConfigCommands \cup DeployCommands \cup {"done", "failed"}
    /\ pc[p] \in {"b_check", "b_dirs"} => build = EmptyBuild
    /\ pc[p] \in BuildCommands \cup {"c_check"} => ~config.ok
    /\ pc[p] \in BuildCommands \cup ConfigCommands \cup {"d_build", "d_config", "d_home"} =>
         home.all = NoList
    /\ pc[p] \in ConfigCommands \cup DeployCommands => build.ok /\ vouch["build"] = ini
    /\ pc[p] \in DeployCommands => config.ok /\ vouch["config"] = ini
    /\ pc[p] = "done" => vouch["deploy"] = ini

\* An operator has given no command yet, or one of the two.
Given(p) == IF pc[p] = "idle" THEN acts[p] = {}
            ELSE acts[p] \in {All, CleanAll} /\ acts[p] \in Requests[p]

RInv ==
    /\ IInv
    /\ faults \in Nat
    /\ (\A p \in Procs : pc[p] = "idle") =>
          build = EmptyBuild /\ config = EmptyConfig /\ home = EmptyHome
    /\ \A p \in Procs : /\ Given(p)
                        /\ acts[p] = CleanAll => Cleaning(p)
                        /\ acts[p] = All => Installing(p)

(* There is one operator: two would share a stage.                          *)
LEMMA OneOperator ==
    ASSUME NEW p \in Procs, NEW q \in Procs, p # q,
           NEW r \in {All, CleanAll} \cap Requests[p], NEW t \in {All, CleanAll} \cap Requests[q]
    PROVE  FALSE
<1>1. "build" \in Touches(p) /\ "build" \in Touches(q)
  BY DEF Touches, All, CleanAll, Stages
<1> QED
  BY <1>1, NoConflict

LEMMA Distinct == All # CleanAll /\ All # {} /\ CleanAll # {}
  BY DEF All, CleanAll, Stages

(* The step of an invocation, put together: it leaves the other operators   *)
(* as they are, who have given no command.                                  *)
LEMMA Together ==
    ASSUME RInv, IInv', faults' \in Nat, NEW p \in Procs,
           acts'[p] \in {All, CleanAll}, acts'[p] \in Requests[p], pc'[p] # "idle",
           \A q \in Procs \ {p} : pc'[q] = pc[q] /\ acts'[q] = acts[q],
           acts'[p] = CleanAll => Cleaning(p)',
           acts'[p] = All => Installing(p)'
    PROVE  RInv'
<1>1. ASSUME NEW q \in Procs \ {p} PROVE Given(q)' /\ acts'[q] # CleanAll /\ acts'[q] # All
  <2>1. Given(q)
    BY <1>1 DEF RInv
  <2>2. CASE pc[q] = "idle"
    BY <1>1, <2>1, <2>2, Distinct DEF Given
  <2>3. CASE pc[q] # "idle"
    BY <1>1, <2>1, <2>3, OneOperator DEF Given
  <2> QED
    BY <2>2, <2>3
<1>2. Given(p)'
  BY DEF Given
<1> QED
  BY <1>1, <1>2 DEF RInv

LEMMA OrderStep ==
    ASSUME RInv, IInv', NEW p \in Procs, Order(p)
    PROVE  RInv' /\ pc' = [pc EXCEPT ![p] = pc'[p]] /\ pc'[p] # "failed"
<1>0. TypeOK /\ Given(p) /\ (acts[p] = CleanAll => Cleaning(p)) /\ faults' \in Nat
  BY DEF RInv, IInv, Order
<1>1. PICK r \in Requests[p] : acts' = [acts EXCEPT ![p] = r] /\ pc' = [pc EXCEPT ![p] = First(r)]
  BY DEF Order, Start, Goto
<1>2. /\ r = Command(p) /\ acts'[p] = r /\ pc'[p] = First(r)
      /\ \A q \in Procs \ {p} : pc'[q] = pc[q] /\ acts'[q] = acts[q]
      /\ UNCHANGED <<build, config, home, ini, vouch>>
  BY <1>0, <1>1 DEF Order, Start, TypeOK
<1>3. CASE pc[p] = "failed"
  <2>1. r = CleanAll /\ pc'[p] = "x_build"
    BY <1>2, <1>3 DEF Command, CleanAll, First
  <2>2. Cleaning(p)'
    BY <2>1 DEF Cleaning, CleanCommands
  <2> QED
    BY <1>0, <1>1, <1>2, <2>1, <2>2, Together, Distinct
<1>4. CASE pc[p] # "failed"
  <2>1. r = All /\ pc'[p] = "b_check"
    BY <1>2, <1>4 DEF Command, All, First, Stages
  <2>2. build = EmptyBuild /\ config = EmptyConfig /\ home = EmptyHome
    <3>1. CASE pc[p] = "idle"
      <4>1. \A q \in Procs : pc[q] = "idle"
        BY <1>1, <2>1, <3>1, OneOperator DEF RInv, Given
      <4> QED
        BY <4>1 DEF RInv
    <3>2. CASE pc[p] = "done"
      BY <1>0, <3>2 DEF Order, Unsettled, Cleaning
    <3> QED
      BY <1>4, <3>1, <3>2 DEF Order, Unsettled
  <2>3. Installing(p)'
    BY <1>2, <2>1, <2>2 DEF Installing, BuildCommands, ConfigCommands, DeployCommands, EmptyConfig,
       EmptyHome
  <2> QED
    BY <1>0, <1>1, <1>2, <2>1, <2>3, Together, Distinct
<1> QED
  BY <1>3, <1>4

(* What every command of an invocation leaves alone.                        *)
LEMMA WorkFrame ==
    ASSUME TypeOK, NEW p \in Procs, Work(p)
    PROVE  /\ pc[p] \in Commands /\ UNCHANGED <<acts, ini>>
           /\ \A q \in Procs \ {p} : pc'[q] = pc[q]
<1> USE DEF TypeOK, Goto
<1>1. CASE Build(p)
  BY <1>1 DEF Build, BuildCheck, BuildDirs, Untar, Make, BuildMark, BuildOnly, Commands, BuildCommands
<1>2. CASE Config(p)
  BY <1>2 DEF Config, ConfigCheck, ConfigOpen, ConfigAppend, ConfigConf, ConfigNode, ConfigTail,
     ConfigMark, ConfigOnly, Commands, ConfigCommands, LoopNext
<1>3. CASE Deploy(p)
  BY <1>3 DEF Deploy, DeployBuilt, DeployConfigured, DeployHome, DeployDir, DeployInst, DeployNode,
     Install, DeployFiles, DeployOpen, DeployWrite, DeployOnly, Commands, DeployCommands, LoopNext
<1>4. CASE Clean(p)
  BY <1>4 DEF Clean, Ask, RmBuild, RmConfig, RmHome, CleanOnly, Commands, CleanCommands
<1> QED
  BY <1>1, <1>2, <1>3, <1>4 DEF Work

(* The commands of build, after clean ALL or on a new machine.              *)
LEMMA BuildGoesOn ==
    ASSUME RInv, HasPackages, NEW p \in Procs, Build(p)
    PROVE  acts[p] = All /\ Installing(p)' /\ pc'[p] \notin {"failed", "idle"}
<1> USE DEF Goto
<1>0. TypeOK /\ Given(p) /\ (acts[p] = CleanAll => Cleaning(p)) /\ (acts[p] = All => Installing(p))
  BY DEF RInv, IInv
<1>1. /\ pc[p] \in BuildCommands /\ UNCHANGED <<config, home, ini, acts>>
      /\ pc \in [Procs -> Rest \cup Commands] /\ vouch \in [Stages -> Inis \cup {NoIni}]
  BY <1>0 DEF TypeOK, Build, BuildCheck, BuildDirs, Untar, Make, BuildMark, BuildOnly, BuildCommands
<1>2. acts[p] = All /\ Installing(p)
  BY <1>0, <1>1 DEF Given, Cleaning, BuildCommands, CleanCommands
<1>3. {ini.redis, ini.hiredis} \subseteq Archives
  BY <1>0 DEF HasPackages, TypeOK
<1> USE DEF Installing, BuildCommands, ConfigCommands, DeployCommands
<1>4. CASE BuildCheck(p)
  BY <1>1, <1>2, <1>4 DEF BuildCheck, EmptyBuild
<1>5. CASE BuildDirs(p)
  BY <1>1, <1>2, <1>3, <1>5 DEF BuildDirs, EmptyBuild
<1>6. CASE \/ Untar(p, ini.redis, "b_tar_redis", "b_tar_hiredis")
           \/ Untar(p, ini.hiredis, "b_tar_hiredis", "b_make_redis")
  BY <1>1, <1>2, <1>6 DEF Untar
<1>7. CASE \/ Make(p, ini.redis, "b_make_redis", "b_make_hiredis")
           \/ Make(p, ini.hiredis, "b_make_hiredis", "b_mark")
  BY <1>1, <1>2, <1>7 DEF Make
<1>8. CASE BuildMark(p)
  <2>1. pc'[p] = "c_check"
    BY <1>1, <1>2, <1>8 DEF BuildMark, AfterBuild, All, Stages
  <2>2. build'.ok /\ vouch'["build"] = ini
    BY <1>0, <1>1, <1>8 DEF BuildMark, TypeOK, BuildType, Stages
  <2> QED
    BY <1>1, <1>2, <2>1, <2>2
<1> QED
  BY <1>2, <1>4, <1>5, <1>6, <1>7, <1>8 DEF Build

(* The commands of config, after them.                                      *)
LEMMA ConfigGoesOn ==
    ASSUME RInv, NEW p \in Procs, Config(p)
    PROVE  acts[p] = All /\ Installing(p)' /\ pc'[p] \notin {"failed", "idle"}
<1> USE DEF Goto
<1>0. TypeOK /\ Given(p) /\ (acts[p] = CleanAll => Cleaning(p)) /\ (acts[p] = All => Installing(p))
  BY DEF RInv, IInv
<1>1. /\ pc[p] \in ConfigCommands /\ UNCHANGED <<build, home, ini, acts>>
      /\ pc \in [Procs -> Rest \cup Commands] /\ vouch \in [Stages -> Inis \cup {NoIni}]
  BY <1>0 DEF TypeOK, Config, ConfigCheck, ConfigOpen, ConfigAppend, ConfigConf, ConfigNode,
     ConfigTail, ConfigMark, ConfigOnly, ConfigCommands
<1>2. acts[p] = All /\ Installing(p)
  BY <1>0, <1>1 DEF Given, Cleaning, ConfigCommands, CleanCommands
<1>3. /\ build.ok /\ vouch["build"] = ini /\ home.all = NoList
      /\ pc[p] = "c_check" => ~config.ok
  BY <1>1, <1>2 DEF Installing
<1> USE DEF Installing, BuildCommands, ConfigCommands, DeployCommands
<1>4. ASSUME pc'[p] \in ConfigCommands \ {"c_check"}, UNCHANGED vouch PROVE Installing(p)'
  BY <1>1, <1>3, <1>4
<1>5. CASE ConfigCheck(p)
  BY <1>1, <1>2, <1>3, <1>4, <1>5 DEF ConfigCheck
<1>6. CASE ConfigOpen(p) \/ ConfigAppend(p) \/ ConfigTail(p)
  BY <1>1, <1>2, <1>4, <1>6 DEF ConfigOpen, ConfigAppend, ConfigTail
<1>7. CASE ConfigConf(p)
  BY <1>1, <1>2, <1>4, <1>7 DEF ConfigConf
<1>8. CASE ConfigNode(p)
  BY <1>1, <1>2, <1>4, <1>8 DEF ConfigNode, LoopNext
<1>9. CASE ConfigMark(p)
  <2>1. pc'[p] = "d_build"
    BY <1>1, <1>2, <1>9 DEF ConfigMark, AfterConfig, All, Stages
  <2>2. config'.ok /\ vouch'["config"] = ini /\ vouch'["build"] = vouch["build"]
    BY <1>0, <1>1, <1>9 DEF ConfigMark, TypeOK, ConfigType, Stages
  <2> QED
    BY <1>1, <1>2, <1>3, <2>1, <2>2
<1> QED
  BY <1>2, <1>5, <1>6, <1>7, <1>8, <1>9 DEF Config

(* The commands of deploy, which find all that they copy.                   *)
LEMMA DeployGoesOn ==
    ASSUME RInv, NEW p \in Procs, Deploy(p)
    PROVE  acts[p] = All /\ Installing(p)' /\ pc'[p] \notin {"failed", "idle"}
<1> USE DEF Goto
<1>0. /\ TypeOK /\ Control(p) /\ ConfigSound
      /\ Given(p) /\ (acts[p] = CleanAll => Cleaning(p)) /\ (acts[p] = All => Installing(p))
  BY DEF RInv, IInv, Controlled, Sound
<1>1. /\ pc[p] \in DeployCommands /\ UNCHANGED <<build, config, ini, acts>>
      /\ pc \in [Procs -> Rest \cup Commands] /\ vouch \in [Stages -> Inis \cup {NoIni}]
  BY <1>0 DEF TypeOK, Deploy, DeployBuilt, DeployConfigured, DeployHome, DeployDir, DeployInst,
     DeployNode, Install, DeployFiles, DeployOpen, DeployWrite, DeployOnly, DeployCommands
<1>2. acts[p] = All /\ Installing(p)
  BY <1>0, <1>1 DEF Given, Cleaning, DeployCommands, CleanCommands
<1>3. /\ build.ok /\ vouch["build"] = ini /\ config.ok /\ vouch["config"] = ini
      /\ pc[p] = "d_home" => home.all = NoList
  BY <1>1, <1>2 DEF Installing
<1>4. ini \in Inis /\ ini # NoIni /\ ini.nodes # NoList /\ Len(ini.nodes) \in Nat
  BY <1>0, IniAssumption, IniFacts DEF TypeOK
<1>5. ConfigComplete(ini)
  BY <1>0, <1>3, <1>4 DEF ConfigSound
<1>6. ASSUME pc'[p] \in DeployCommands, UNCHANGED vouch,
             pc'[p] \in {"d_build", "d_config", "d_home"} => home'.all = NoList
      PROVE  Installing(p)'
  BY <1>1, <1>3, <1>6 DEF Installing, BuildCommands, ConfigCommands, DeployCommands
<1>7. CASE DeployBuilt(p) \/ DeployConfigured(p) \/ DeployHome(p)
  BY <1>1, <1>2, <1>3, <1>6, <1>7 DEF DeployBuilt, DeployConfigured, DeployHome, Installing,
     DeployCommands
<1>8. CASE DeployDir(p)
  BY <1>1, <1>2, <1>6, <1>8 DEF DeployDir, DeployCommands
<1>9. CASE DeployInst(p)
  <2>1. i[p] \in DOMAIN ini.nodes
    BY <1>0, <1>9, LoopInstance DEF DeployInst, Loops, Control, TypeOK
  <2>2. ini.nodes[i[p]] \in config.conf
    BY <1>5, <2>1 DEF ConfigComplete
  <2>3. pc'[p] \in {"d_node", "d_inst", "d_make_redis"} /\ UNCHANGED vouch
    BY <1>1, <1>9, <2>2 DEF DeployInst, LoopNext
  <2> QED
    BY <1>2, <1>6, <2>3 DEF DeployCommands
<1>10. CASE DeployNode(p)
  <2>1. i[p] \in DOMAIN ini.nodes
    BY <1>0, <1>10, LoopInstance DEF DeployNode, Loops, Control, TypeOK
  <2>2. ini.nodes[i[p]].node \in config.scripts /\ "create" \in config.misc
    BY <1>5, <2>1 DEF ConfigComplete, Files
  <2>3. pc'[p] \in {"d_inst", "d_make_redis"} /\ UNCHANGED vouch
    BY <1>1, <1>10, <2>2 DEF DeployNode, LoopNext
  <2> QED
    BY <1>2, <1>6, <2>3 DEF DeployCommands
<1>11. CASE \/ Install(p, ini.redis, "d_make_redis", "d_make_hiredis")
            \/ Install(p, ini.hiredis, "d_make_hiredis", "d_files")
  BY <1>1, <1>2, <1>6, <1>11 DEF Install, DeployCommands
<1>12. CASE DeployFiles(p)
  BY <1>1, <1>2, <1>5, <1>6, <1>12 DEF DeployFiles, DeployCommands, ConfigComplete, Files
<1>13. CASE DeployOpen(p)
  BY <1>1, <1>2, <1>4, <1>5, <1>6, <1>13 DEF DeployOpen, DeployCommands, ConfigComplete
<1>14. CASE DeployWrite(p)
  <2>1. pc'[p] = "done" /\ vouch'["deploy"] = ini
    BY <1>1, <1>3, <1>14 DEF DeployWrite, Stages
  <2> QED
    BY <1>1, <1>2, <2>1 DEF Installing, BuildCommands, ConfigCommands, DeployCommands
<1> QED
  BY <1>2, <1>7, <1>8, <1>9, <1>10, <1>11, <1>12, <1>13, <1>14 DEF Deploy

(* The commands of a clean that is confirmed: each removal ends when        *)
(* nothing is left.                                                         *)
LEMMA CleanGoesOn ==
    ASSUME RInv, NEW p \in Procs, Clean(p), Confirmed(p)
    PROVE  acts[p] = CleanAll /\ Cleaning(p)' /\ pc'[p] \notin {"failed", "idle"}
<1> USE DEF Goto
<1>0. TypeOK /\ Given(p) /\ (acts[p] = CleanAll => Cleaning(p)) /\ (acts[p] = All => Installing(p))
  BY DEF RInv, IInv
<1>1. /\ pc[p] \in CleanCommands /\ UNCHANGED <<ini, acts>> /\ pc \in [Procs -> Rest \cup Commands]
  BY <1>0 DEF TypeOK, Clean, Ask, RmBuild, RmConfig, RmHome, CleanOnly, CleanCommands
<1>2. acts[p] = CleanAll /\ Cleaning(p)
  BY <1>0, <1>1 DEF Given, Installing, BuildCommands, ConfigCommands, DeployCommands, CleanCommands
<1> USE DEF Cleaning, CleanCommands
<1>3. CASE \/ Ask(p, "build", "x_build", "r_build", "x_config")
           \/ Ask(p, "config", "x_config", "r_config", "x_home")
           \/ Ask(p, "deploy", "x_home", "r_home", "done")
  BY <1>1, <1>2, <1>3 DEF Ask, Confirmed
<1>4. CASE RmBuild(p)
  BY <1>1, <1>2, <1>4 DEF RmBuild
<1>5. CASE RmConfig(p)
  BY <1>1, <1>2, <1>5 DEF RmConfig
<1>6. CASE RmHome(p)
  BY <1>1, <1>2, <1>6 DEF RmHome
<1> QED
  BY <1>2, <1>3, <1>4, <1>5, <1>6 DEF Clean

LEMMA CarryStep ==
    ASSUME RInv, IInv', HasPackages, NEW p \in Procs, Carry(p)
    PROVE  RInv' /\ pc' = [pc EXCEPT ![p] = pc'[p]] /\ pc'[p] # "failed"
<1>1. /\ TypeOK /\ TypeOK' /\ Given(p) /\ faults' \in Nat
      /\ pc[p] \in Commands /\ UNCHANGED <<acts, ini>>
      /\ \A q \in Procs \ {p} : pc'[q] = pc[q]
  BY WorkFrame DEF RInv, IInv, Carry
<1>2. acts'[p] \in {All, CleanAll} /\ acts'[p] \in Requests[p]
  BY <1>1 DEF Given, Commands, BuildCommands, ConfigCommands, DeployCommands, CleanCommands
<1>3. /\ acts'[p] = CleanAll => Cleaning(p)'
      /\ acts'[p] = All => Installing(p)'
      /\ pc'[p] \notin {"failed", "idle"}
  BY <1>1, BuildGoesOn, ConfigGoesOn, DeployGoesOn, CleanGoesOn, Distinct DEF Carry, Work
<1>4. pc' = [pc EXCEPT ![p] = pc'[p]]
  BY <1>1 DEF TypeOK
<1> QED
  BY <1>1, <1>2, <1>3, <1>4, Together

LEMMA FaultStep ==
    ASSUME RInv, IInv', NEW p \in Procs, Fault(p)
    PROVE  RInv' /\ faults' > faults
<1>1. /\ TypeOK /\ Given(p) /\ faults \in Nat /\ faults' = faults + 1
      /\ (acts[p] = CleanAll => Cleaning(p)) /\ (acts[p] = All => Installing(p))
  BY DEF RInv, IInv, Fault
<1>2. pc[p] # "idle" /\ pc'[p] = "failed" /\ \A q \in Procs \ {p} : pc'[q] = pc[q]
  BY <1>1 DEF Fault, Stop, Goto, TypeOK, Rest
<1>3. UNCHANGED <<build, config, home, ini, vouch, acts>>
  BY DEF Fault, Stop
<1>4. Cleaning(p)' /\ Installing(p)'
  BY <1>2 DEF Cleaning, Installing, BuildCommands, ConfigCommands, DeployCommands
<1> QED
  BY <1>1, <1>2, <1>3, <1>4, Together DEF Given

LEMMA RecoveryInitInv == RecoveryInit => RInv
<1> SUFFICES ASSUME RecoveryInit PROVE RInv
  OBVIOUS
<1>1. IInv
  BY InitInv DEF RecoveryInit
<1> QED
  BY <1>1, Distinct DEF RecoveryInit, Init, RInv, Given

LEMMA RecoveryStep ==
    ASSUME TopDirMatches, HasPackages
    PROVE  RInv /\ [RecoveryNext]_recoveryVars =>
             /\ RInv'
             /\ \A p \in Procs : pc'[p] = "failed" /\ pc[p] # "failed" => faults' > faults
<1> SUFFICES ASSUME RInv, [RecoveryNext]_recoveryVars
             PROVE  /\ RInv'
                    /\ \A p \in Procs : pc'[p] = "failed" /\ pc[p] # "failed" => faults' > faults
  OBVIOUS
<1>1. IInv'
  <2>1. [Next]_vars
    BY DEF RecoveryNext, Order, Carry, Fault, Next, recoveryVars
  <2> QED
    BY <2>1, StepInv DEF RInv
<1>2. CASE UNCHANGED recoveryVars
  BY <1>1, <1>2 DEF recoveryVars, vars, RInv, Given, Cleaning, Installing
<1>3. ASSUME NEW p \in Procs, Order(p) \/ Carry(p)
      PROVE  RInv' /\ \A q \in Procs : pc'[q] = "failed" => pc[q] = "failed"
  BY <1>1, <1>3, OrderStep, CarryStep DEF RInv, IInv, TypeOK
<1>4. ASSUME NEW p \in Procs, Fault(p)
      PROVE  RInv' /\ faults' > faults
  BY <1>1, <1>4, FaultStep
<1> QED
  BY <1>2, <1>3, <1>4 DEF RecoveryNext, recoveryVars, vars

(* Whatever failed before, neither clean ALL nor ALL is refused or misses   *)
(* anything: only a failure ends an invocation before it is through         *)
(* (redis_cluster.sh:218, 236, 242, 266, 457).  One configuration with any  *)
(* number of nodes, and any number of failures.                             *)
THEOREM NothingIsRefused ==
    ASSUME TopDirMatches, HasPackages PROVE RecoverySpec => NeverRefused
<1>1. RecoveryInit => RInv
  BY RecoveryInitInv
<1>2. RInv /\ [RecoveryNext]_recoveryVars => RInv'
  BY RecoveryStep
<1>3. RInv /\ [RecoveryNext]_recoveryVars =>
        [\A p \in Procs : pc'[p] = "failed" /\ pc[p] # "failed" => faults' > faults]_recoveryVars
  BY RecoveryStep
<1> QED
  BY <1>1, <1>2, <1>3, PTL DEF RecoverySpec, NeverRefused

(* When ALL is through the installation is complete (redis_cluster.sh:     *)
(* 166-560), however many invocations have failed before it.               *)
THEOREM RecoveryIsComplete ==
    ASSUME TopDirMatches, HasPackages PROVE RecoverySpec => []ThroughIsComplete
<1>1. RecoveryInit => RInv
  BY RecoveryInitInv
<1>2. RInv /\ [RecoveryNext]_recoveryVars => RInv'
  BY RecoveryStep
<1>3. RInv => ThroughIsComplete
  <2> SUFFICES ASSUME RInv, NEW p \in Procs, pc[p] = "done", acts[p] = All
               PROVE  vouch["deploy"] = ini /\ HomeComplete(ini)
    BY DEF ThroughIsComplete
  <2>1. vouch["deploy"] = ini
    BY DEF RInv, Installing
  <2>2. ini # NoIni /\ HomeSound
    BY IniAssumption DEF RInv, IInv, Sound, TypeOK
  <2> QED
    BY <2>1, <2>2 DEF HomeSound
<1> QED
  BY <1>1, <1>2, <1>3, PTL DEF RecoverySpec

=============================================================================
