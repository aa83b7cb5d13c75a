-------------------------- MODULE ClusterToolProofs --------------------------
(***************************************************************************)
(* Proofs about ClusterTool, for every set of invocations, every           *)
(* configuration and every list of instances.                              *)
(***************************************************************************)
EXTENDS ClusterTool, TLAPS

-----------------------------------------------------------------------------
(* Types, and where control can be: an invocation runs a stage it was asked *)
(* for, a loop stands at an instance, and CLUSTER_ALL_NODES is a file while *)
(* config appends to it.                                                    *)

Loops     == {"c_append", "c_conf", "c_node", "d_inst", "d_node"}
Appending == {"c_append", "c_conf", "c_node", "c_tail", "c_mark"}

Control(q) ==
    /\ pc[q] \notin Rest => acts[q] \in Requests[q]
    /\ pc[q] \in BuildCommands \cup {"r_build"} => "build" \in acts[q]
    /\ pc[q] \in ConfigCommands \cup {"r_config"} => "config" \in acts[q]
    /\ pc[q] \in DeployCommands \cup {"r_home"} => "deploy" \in acts[q]
    /\ pc[q] \in CleanCommands => "clean" \in acts[q]
    /\ pc[q] \in {"b_tar_redis", "b_tar_hiredis"} => {ini.redis, ini.hiredis} \subseteq Archives
    /\ pc[q] \in Loops => i[q] \in 1..Len(ini.nodes)
    /\ pc[q] = "d_node" => ini.nodes[i[q]].node \in Here
    /\ pc[q] \in Appending => config.all \in Seq(Instances)

Controlled == \A q \in Procs : Control(q)

LEMMA SeqElement ==
    ASSUME NEW S, NEW s \in Seq(S), NEW k \in 1..Len(s)
    PROVE  s[k] \in S
  OBVIOUS

LEMMA SeqAppend ==
    ASSUME NEW S, NEW s \in Seq(S), NEW e \in S
    PROVE  Append(s, e) \in Seq(S)
  OBVIOUS

LEMMA EmptyList == << >> \in Seq(Instances)
  OBVIOUS

LEMMA IniFacts ==
    ASSUME TypeOK
    PROVE  /\ ini \in Inis
           /\ ini.nodes \in Seq(Instances) /\ Len(ini.nodes) \in Nat /\ Len(ini.nodes) >= 1
           /\ ini.redis \in Packages /\ ini.hiredis \in Packages
<1>1. ini \in Inis
  BY DEF TypeOK
<1>2. ini.nodes \in Seq(Instances) /\ ini.nodes # << >>
  BY <1>1, IniAssumption
<1>3. Len(ini.nodes) \in Nat /\ Len(ini.nodes) >= 1
  BY <1>2
<1>4. ini.redis \in Packages /\ ini.hiredis \in Packages
  BY <1>1 DEF Packages
<1> QED
  BY <1>1, <1>2, <1>3, <1>4

(* The instance a loop stands at. *)
LEMMA LoopInstance ==
    ASSUME TypeOK, NEW q \in Procs, Control(q), pc[q] \in Loops
    PROVE  /\ i[q] \in 1..Len(ini.nodes) /\ i[q] \in Nat
           /\ ini.nodes[i[q]] \in Instances
           /\ ini.nodes[i[q]].node \in Nodes
<1>1. i[q] \in 1..Len(ini.nodes)
  BY DEF Control
<1>2. ini.nodes[i[q]] \in Instances
  BY <1>1, IniFacts, SeqElement
<1> QED
  BY <1>1, <1>2, IniFacts DEF Instances

(* Two invocations never run the same stage, and none cleans while another *)
(* one deploys.                                                             *)
LEMMA Exclusive ==
    ASSUME Controlled, NEW p \in Procs, NEW q \in Procs, p # q,
           pc[p] \notin Rest, pc[q] \notin Rest
    PROVE  /\ \A s \in Stages : ~(s \in acts[p] /\ s \in acts[q])
           /\ ~("deploy" \in acts[p] /\ "clean" \in acts[q])
<1>1. acts[p] \in Requests[p] /\ acts[q] \in Requests[q]
  BY DEF Controlled, Control
<1>2. \A s \in Stages : s \in acts[p] => s \in Touches(p)
  BY <1>1, Zenon DEF Touches
<1>3. \A s \in Stages : s \in acts[q] => s \in Touches(q)
  BY <1>1, Zenon DEF Touches
<1>4. "clean" \in acts[q] => MayClean(q)
  BY <1>1 DEF MayClean
<1> QED
  BY <1>2, <1>3, <1>4, NoConflict DEF Stages

LEMMA InitTypeOK == Init => TypeOK /\ Controlled
<1> SUFFICES ASSUME Init PROVE TypeOK /\ Controlled
  OBVIOUS
<1>1. TypeOK
  BY DEF Init, TypeOK, BuildType, ConfigType, HomeType, EmptyBuild, EmptyConfig, EmptyHome,
         Rest, Stages
<1>2. Controlled
  BY DEF Init, Controlled, Control, Rest, BuildCommands, ConfigCommands, DeployCommands,
         CleanCommands, Loops, Appending
<1> QED
  BY <1>1, <1>2

LEMMA BuildTypeOK ==
    ASSUME TypeOK, Controlled, NEW p \in Procs, Build(p)
    PROVE  TypeOK' /\ Controlled'
<1> USE DEF Goto, Rest, Loops, Appending, BuildCommands, ConfigCommands, DeployCommands, CleanCommands
<1>a. /\ Control(p) /\ ini \in Inis
      /\ ini.nodes \in Seq(Instances) /\ Len(ini.nodes) \in Nat /\ Len(ini.nodes) >= 1
      /\ ini.redis \in Packages /\ ini.hiredis \in Packages
  BY IniFacts DEF Controlled
<1>1. CASE BuildCheck(p)
  <2>3. TypeOK'
    BY <1>1 DEF BuildCheck, BuildOnly, TypeOK, Commands, Stages
  <2>4. Controlled'
    BY <1>1, <1>a DEF BuildCheck, BuildOnly, TypeOK, Controlled, Control
  <2> QED
    BY <2>3, <2>4
<1>2. CASE BuildDirs(p)
  <2>3. TypeOK'
    BY <1>2 DEF BuildDirs, BuildOnly, TypeOK, Commands, Stages
  <2>4. Controlled'
    BY <1>2, <1>a DEF BuildDirs, BuildOnly, TypeOK, Controlled, Control
  <2> QED
    BY <2>3, <2>4
<1>3. CASE Untar(p, ini.redis, "b_tar_redis", "b_tar_hiredis")
  <2>a. ini.redis \in Archives
    BY <1>3, <1>a DEF Control, Untar
  <2>1. build' = [build EXCEPT !.src = @ \cup {TopDir[ini.redis]}]
    BY <1>3 DEF Untar, BuildOnly
  <2>2. build' \in BuildType
    BY <2>1, <2>a DEF TypeOK, BuildType
  <2>3. TypeOK'
    BY <1>3, <2>2 DEF Untar, BuildOnly, TypeOK, Commands, Stages
  <2>4. Controlled'
    BY <1>3, <1>a, <2>2 DEF Untar, BuildOnly, TypeOK, Controlled, Control
  <2> QED
    BY <2>3, <2>4
<1>4. CASE Untar(p, ini.hiredis, "b_tar_hiredis", "b_make_redis")
  <2>a. ini.hiredis \in Archives
    BY <1>4, <1>a DEF Control, Untar
  <2>1. build' = [build EXCEPT !.src = @ \cup {TopDir[ini.hiredis]}]
    BY <1>4 DEF Untar, BuildOnly
  <2>2. build' \in BuildType
    BY <2>1, <2>a DEF TypeOK, BuildType
  <2>3. TypeOK'
    BY <1>4, <2>2 DEF Untar, BuildOnly, TypeOK, Commands, Stages
  <2>4. Controlled'
    BY <1>4, <1>a, <2>2 DEF Untar, BuildOnly, TypeOK, Controlled, Control
  <2> QED
    BY <2>3, <2>4
<1>5. CASE Make(p, ini.redis, "b_make_redis", "b_make_hiredis")
  <2>1. build' = build \/ build' = [build EXCEPT !.bin = @ \cup {ini.redis}]
    BY <1>5 DEF Make, BuildOnly
  <2>2. build' \in BuildType
    <3>1. CASE build' = build
      BY <3>1 DEF TypeOK
    <3>2. CASE build' = [build EXCEPT !.bin = @ \cup {ini.redis}]
      BY <3>2, <1>a DEF TypeOK, BuildType
    <3> QED
      BY <2>1, <3>1, <3>2
  <2>3. TypeOK'
    BY <1>5, <2>2 DEF Make, BuildOnly, TypeOK, Commands, Stages
  <2>4. Controlled'
    BY <1>5, <1>a, <2>2 DEF Make, BuildOnly, TypeOK, Controlled, Control
  <2> QED
    BY <2>3, <2>4
<1>6. CASE Make(p, ini.hiredis, "b_make_hiredis", "b_mark")
  <2>1. build' = build \/ build' = [build EXCEPT !.bin = @ \cup {ini.hiredis}]
    BY <1>6 DEF Make, BuildOnly
  <2>2. build' \in BuildType
    <3>1. CASE build' = build
      BY <3>1 DEF TypeOK
    <3>2. CASE build' = [build EXCEPT !.bin = @ \cup {ini.hiredis}]
      BY <3>2, <1>a DEF TypeOK, BuildType
    <3> QED
      BY <2>1, <3>1, <3>2
  <2>3. TypeOK'
    BY <1>6, <2>2 DEF Make, BuildOnly, TypeOK, Commands, Stages
  <2>4. Controlled'
    BY <1>6, <1>a, <2>2 DEF Make, BuildOnly, TypeOK, Controlled, Control
  <2> QED
    BY <2>3, <2>4
<1>7. CASE BuildMark(p)
  <2>1. build' = [build EXCEPT !.ok = TRUE]
    BY <1>7 DEF BuildMark, BuildOnly, AfterBuild, AfterConfig, Stages
  <2>2. build' \in BuildType
    BY <2>1 DEF TypeOK, BuildType
  <2>3. TypeOK'
    BY <1>7, <2>2 DEF BuildMark, BuildOnly, AfterBuild, AfterConfig, Stages, TypeOK, Commands, Stages
  <2>4. Controlled'
    BY <1>7, <1>a, <2>2 DEF BuildMark, BuildOnly, AfterBuild, AfterConfig, Stages, TypeOK, Controlled, Control
  <2> QED
    BY <2>3, <2>4
<1> QED
  BY <1>1, <1>2, <1>3, <1>4, <1>5, <1>6, <1>7 DEF Build

LEMMA ConfigTypeOK ==
    ASSUME TypeOK, Controlled, NEW p \in Procs, Config(p)
    PROVE  TypeOK' /\ Controlled'
<1> USE DEF Goto, Rest, Loops, Appending, BuildCommands, ConfigCommands, DeployCommands, CleanCommands
<1>a. /\ Control(p) /\ ini \in Inis
      /\ ini.nodes \in Seq(Instances) /\ Len(ini.nodes) \in Nat /\ Len(ini.nodes) >= 1
      /\ ini.redis \in Packages /\ ini.hiredis \in Packages
  BY IniFacts DEF Controlled
<1>1. CASE ConfigCheck(p)
  <2>3. TypeOK'
    BY <1>1 DEF ConfigCheck, ConfigOnly, TypeOK, Commands, Stages
  <2>4. Controlled'
    BY <1>1, <1>a DEF ConfigCheck, ConfigOnly, TypeOK, Controlled, Control
  <2> QED
    BY <2>3, <2>4
<1>2. CASE ConfigOpen(p)
  <2>1. config' = [config EXCEPT !.all = << >>]
    BY <1>2 DEF ConfigOpen, ConfigOnly
  <2>2. config' \in ConfigType
    BY <2>1, EmptyList DEF TypeOK, ConfigType
  <2>3. TypeOK'
    BY <1>2, <2>2, EmptyList DEF ConfigOpen, ConfigOnly, TypeOK, Commands, Stages
  <2>4. Controlled'
    BY <1>2, <1>a, <2>2, EmptyList DEF ConfigOpen, ConfigOnly, TypeOK, Controlled, Control
  <2> QED
    BY <2>3, <2>4
<1>3. CASE ConfigAppend(p)
  <2>a. /\ i[p] \in 1..Len(ini.nodes) /\ i[p] \in Nat
        /\ ini.nodes[i[p]] \in Instances /\ ini.nodes[i[p]].node \in Nodes
    BY <1>3, <1>a, LoopInstance DEF ConfigAppend
  <2>b. Append(config.all, ini.nodes[i[p]]) \in Seq(Instances)
    BY <1>3, <1>a, <2>a, SeqAppend DEF Control, ConfigAppend
  <2>1. config' = [config EXCEPT !.all = Append(@, ini.nodes[i[p]])]
    BY <1>3 DEF ConfigAppend, ConfigOnly
  <2>2. config' \in ConfigType
    BY <2>1, <2>b DEF TypeOK, ConfigType
  <2>3. TypeOK'
    BY <1>3, <2>2, <2>a, <2>b DEF ConfigAppend, ConfigOnly, TypeOK, Commands, Stages
  <2>4. Controlled'
    BY <1>3, <1>a, <2>2, <2>a, <2>b DEF ConfigAppend, ConfigOnly, TypeOK, Controlled, Control
  <2> QED
    BY <2>3, <2>4
<1>4. CASE ConfigConf(p)
  <2>a. /\ i[p] \in 1..Len(ini.nodes) /\ i[p] \in Nat
        /\ ini.nodes[i[p]] \in Instances /\ ini.nodes[i[p]].node \in Nodes
    BY <1>4, <1>a, LoopInstance DEF ConfigConf
  <2>1. config' = [config EXCEPT !.conf = @ \cup {ini.nodes[i[p]]}]
    BY <1>4 DEF ConfigConf, ConfigOnly, LastOfNode
  <2>2. config' \in ConfigType
    BY <2>1, <2>a DEF TypeOK, ConfigType
  <2>3. TypeOK'
    <3>1. UNCHANGED <<build, home, ini, vouch, acts, err>>
      BY <1>4 DEF ConfigConf, ConfigOnly, LastOfNode
    <3>2. pc' \in [Procs -> Rest \cup Commands]
      BY <1>4 DEF ConfigConf, ConfigOnly, LastOfNode, TypeOK, Commands
    <3>3. i' \in [Procs -> Nat]
      BY <1>4, <2>a DEF ConfigConf, ConfigOnly, LastOfNode, TypeOK
    <3> QED
      BY <2>2, <3>1, <3>2, <3>3 DEF TypeOK
  <2>4. Controlled'
    BY <1>4, <1>a, <2>2, <2>a DEF ConfigConf, ConfigOnly, LastOfNode, TypeOK, Controlled, Control
  <2> QED
    BY <2>3, <2>4
<1>5. CASE ConfigNode(p)
  <2>a. /\ i[p] \in 1..Len(ini.nodes) /\ i[p] \in Nat
        /\ ini.nodes[i[p]] \in Instances /\ ini.nodes[i[p]].node \in Nodes
    BY <1>5, <1>a, LoopInstance DEF ConfigNode
  <2>1. config' = [config EXCEPT !.scripts = @ \cup {ini.nodes[i[p]].node},
                                   !.misc = @ \cup {"auth"}]
    BY <1>5 DEF ConfigNode, ConfigOnly, LoopNext
  <2>2. config' \in ConfigType
    BY <2>1, <2>a DEF TypeOK, ConfigType, Files
  <2>3. TypeOK'
    BY <1>5, <2>2, <2>a DEF ConfigNode, ConfigOnly, LoopNext, TypeOK, Commands, Stages
  <2>4. Controlled'
    BY <1>5, <1>a, <2>2, <2>a DEF ConfigNode, ConfigOnly, LoopNext, TypeOK, Controlled, Control
  <2> QED
    BY <2>3, <2>4
<1>6. CASE ConfigTail(p)
  <2>1. config' = [config EXCEPT !.misc = @ \cup {"env", "create"}]
    BY <1>6 DEF ConfigTail, ConfigOnly
  <2>2. config' \in ConfigType
    BY <2>1 DEF TypeOK, ConfigType, Files
  <2>3. TypeOK'
    BY <1>6, <2>2 DEF ConfigTail, ConfigOnly, TypeOK, Commands, Stages
  <2>4. Controlled'
    BY <1>6, <1>a, <2>2 DEF ConfigTail, ConfigOnly, TypeOK, Controlled, Control
  <2> QED
    BY <2>3, <2>4
<1>7. CASE ConfigMark(p)
  <2>1. config' = [config EXCEPT !.ok = TRUE]
    BY <1>7 DEF ConfigMark, ConfigOnly, AfterConfig, Stages
  <2>2. config' \in ConfigType
    BY <2>1 DEF TypeOK, ConfigType
  <2>3. TypeOK'
    BY <1>7, <2>2 DEF ConfigMark, ConfigOnly, AfterConfig, Stages, TypeOK, Commands, Stages
  <2>4. Controlled'
    BY <1>7, <1>a, <2>2 DEF ConfigMark, ConfigOnly, AfterConfig, Stages, TypeOK, Controlled, Control
  <2> QED
    BY <2>3, <2>4
<1> QED
  BY <1>1, <1>2, <1>3, <1>4, <1>5, <1>6, <1>7 DEF Config

LEMMA DeployTypeOK ==
    ASSUME TypeOK, Controlled, NEW p \in Procs, Deploy(p)
    PROVE  TypeOK' /\ Controlled'
<1> USE DEF Goto, Rest, Loops, Appending, BuildCommands, ConfigCommands, DeployCommands, CleanCommands
<1>a. /\ Control(p) /\ ini \in Inis
      /\ ini.nodes \in Seq(Instances) /\ Len(ini.nodes) \in Nat /\ Len(ini.nodes) >= 1
      /\ ini.redis \in Packages /\ ini.hiredis \in Packages
  BY IniFacts DEF Controlled
<1>1. CASE DeployBuilt(p)
  <2>3. TypeOK'
    BY <1>1 DEF DeployBuilt, DeployOnly, TypeOK, Commands, Stages
  <2>4. Controlled'
    BY <1>1, <1>a DEF DeployBuilt, DeployOnly, TypeOK, Controlled, Control
  <2> QED
    BY <2>3, <2>4
<1>2. CASE DeployConfigured(p)
  <2>3. TypeOK'
    BY <1>2 DEF DeployConfigured, DeployOnly, TypeOK, Commands, Stages
  <2>4. Controlled'
    BY <1>2, <1>a DEF DeployConfigured, DeployOnly, TypeOK, Controlled, Control
  <2> QED
    BY <2>3, <2>4
<1>3. CASE DeployHome(p)
  <2>3. TypeOK'
    BY <1>3 DEF DeployHome, DeployOnly, TypeOK, Commands, Stages
  <2>4. Controlled'
    BY <1>3, <1>a DEF DeployHome, DeployOnly, TypeOK, Controlled, Control
  <2> QED
    BY <2>3, <2>4
<1>4. CASE DeployDir(p)
  <2>1. home' = [home EXCEPT !.dir = TRUE]
    BY <1>4 DEF DeployDir, DeployOnly
  <2>2. home' \in HomeType
    BY <2>1 DEF TypeOK, HomeType
  <2>3. TypeOK'
    BY <1>4, <2>2 DEF DeployDir, DeployOnly, TypeOK, Commands, Stages
  <2>4. Controlled'
    BY <1>4, <1>a, <2>2 DEF DeployDir, DeployOnly, TypeOK, Controlled, Control
  <2> QED
    BY <2>3, <2>4
<1>5. CASE DeployInst(p)
  <2>a. /\ i[p] \in 1..Len(ini.nodes) /\ i[p] \in Nat
        /\ ini.nodes[i[p]] \in Instances /\ ini.nodes[i[p]].node \in Nodes
    BY <1>5, <1>a, LoopInstance DEF DeployInst
  <2>b. ini.nodes[i[p]].node \in Here => ini.nodes[i[p]] \in [node : Here, port : Ports]
    BY <2>a DEF Instances
  <2>1. home' = home \/ (home' = [home EXCEPT !.conf = @ \cup {ini.nodes[i[p]]}]
                             /\ ini.nodes[i[p]].node \in Here)
    BY <1>5 DEF DeployInst, DeployOnly, LoopNext, LastOfNode
  <2>2. home' \in HomeType
    <3>1. CASE home' = home
      BY <3>1 DEF TypeOK
    <3>2. CASE (home' = [home EXCEPT !.conf = @ \cup {ini.nodes[i[p]]}]
                             /\ ini.nodes[i[p]].node \in Here)
      BY <3>2, <2>b DEF TypeOK, HomeType
    <3> QED
      BY <2>1, <3>1, <3>2
  <2>3. TypeOK'
    <3>1. UNCHANGED <<build, config, ini, vouch, acts, err>>
      BY <1>5 DEF DeployInst, DeployOnly, LoopNext, LastOfNode
    <3>2. pc' \in [Procs -> Rest \cup Commands]
      <4>1. \E l \in Rest \cup DeployCommands : pc' = [pc EXCEPT ![p] = l]
        BY <1>5 DEF DeployInst, DeployOnly, LoopNext, LastOfNode
      <4> QED
        BY <4>1 DEF TypeOK, Commands
    <3>3. i' \in [Procs -> Nat]
      <4>1. i' = i \/ i' = [i EXCEPT ![p] = i[p] + 1]
        BY <1>5 DEF DeployInst, DeployOnly, LoopNext, LastOfNode
      <4> QED
        BY <2>a, <4>1 DEF TypeOK
    <3> QED
      BY <2>2, <3>1, <3>2, <3>3 DEF TypeOK
  <2>4. Controlled'
    BY <1>5, <1>a, <2>2, <2>a DEF DeployInst, DeployOnly, LoopNext, LastOfNode, TypeOK, Controlled, Control
  <2> QED
    BY <2>3, <2>4
<1>6. CASE DeployNode(p)
  <2>a. /\ i[p] \in 1..Len(ini.nodes) /\ i[p] \in Nat
        /\ ini.nodes[i[p]] \in Instances /\ ini.nodes[i[p]].node \in Nodes
    BY <1>6, <1>a, LoopInstance DEF DeployNode
  <2>b. ini.nodes[i[p]].node \in Here
    BY <1>6, <1>a DEF Control, DeployNode
  <2>1. home' = home \/ home' = [home EXCEPT !.scripts = @ \cup {ini.nodes[i[p]].node},
                                             !.misc = @ \cup {"create"}]
    BY <1>6 DEF DeployNode, DeployOnly, LoopNext
  <2>2. home' \in HomeType
    <3>1. CASE home' = home
      BY <3>1 DEF TypeOK
    <3>2. CASE home' = [home EXCEPT !.scripts = @ \cup {ini.nodes[i[p]].node},
                                             !.misc = @ \cup {"create"}]
      BY <3>2, <2>b DEF TypeOK, HomeType, Files
    <3> QED
      BY <2>1, <3>1, <3>2
  <2>3. TypeOK'
    <3>1. UNCHANGED <<build, config, ini, vouch, acts, err>>
      BY <1>6 DEF DeployNode, DeployOnly, LoopNext
    <3>2. pc' \in [Procs -> Rest \cup Commands]
      <4>1. \E l \in Rest \cup DeployCommands : pc' = [pc EXCEPT ![p] = l]
        BY <1>6 DEF DeployNode, DeployOnly, LoopNext
      <4> QED
        BY <4>1 DEF TypeOK, Commands
    <3>3. i' \in [Procs -> Nat]
      <4>1. i' = i \/ i' = [i EXCEPT ![p] = i[p] + 1]
        BY <1>6 DEF DeployNode, DeployOnly, LoopNext
      <4> QED
        BY <2>a, <4>1 DEF TypeOK
    <3> QED
      BY <2>2, <3>1, <3>2, <3>3 DEF TypeOK
  <2>4. Controlled'
    BY <1>6, <1>a, <2>2, <2>a DEF DeployNode, DeployOnly, LoopNext, TypeOK, Controlled, Control
  <2> QED
    BY <2>3, <2>4
<1>7. CASE Install(p, ini.redis, "d_make_redis", "d_make_hiredis")
  <2>1. home' = home \/ home' = [home EXCEPT !.bin = @ \cup {ini.redis}]
    BY <1>7 DEF Install, DeployOnly
  <2>2. home' \in HomeType
    <3>1. CASE home' = home
      BY <3>1 DEF TypeOK
    <3>2. CASE home' = [home EXCEPT !.bin = @ \cup {ini.redis}]
      BY <3>2, <1>a DEF TypeOK, HomeType
    <3> QED
      BY <2>1, <3>1, <3>2
  <2>3. TypeOK'
    BY <1>7, <2>2 DEF Install, DeployOnly, TypeOK, Commands, Stages
  <2>4. Controlled'
    BY <1>7, <1>a, <2>2 DEF Install, DeployOnly, TypeOK, Controlled, Control
  <2> QED
    BY <2>3, <2>4
<1>8. CASE Install(p, ini.hiredis, "d_make_hiredis", "d_files")
  <2>1. home' = home \/ home' = [home EXCEPT !.bin = @ \cup {ini.hiredis}]
    BY <1>8 DEF Install, DeployOnly
  <2>2. home' \in HomeType
    <3>1. CASE home' = home
      BY <3>1 DEF TypeOK
    <3>2. CASE home' = [home EXCEPT !.bin = @ \cup {ini.hiredis}]
      BY <3>2, <1>a DEF TypeOK, HomeType
    <3> QED
      BY <2>1, <3>1, <3>2
  <2>3. TypeOK'
    BY <1>8, <2>2 DEF Install, DeployOnly, TypeOK, Commands, Stages
  <2>4. Controlled'
    BY <1>8, <1>a, <2>2 DEF Install, DeployOnly, TypeOK, Controlled, Control
  <2> QED
    BY <2>3, <2>4
<1>9. CASE DeployFiles(p)
  <2>1. home' = home \/ home' = [home EXCEPT !.misc = @ \cup {"env", "auth"}]
    BY <1>9 DEF DeployFiles, DeployOnly
  <2>2. home' \in HomeType
    <3>1. CASE home' = home
      BY <3>1 DEF TypeOK
    <3>2. CASE home' = [home EXCEPT !.misc = @ \cup {"env", "auth"}]
      BY <3>2 DEF TypeOK, HomeType, Files
    <3> QED
      BY <2>1, <3>1, <3>2
  <2>3. TypeOK'
    BY <1>9, <2>2 DEF DeployFiles, DeployOnly, TypeOK, Commands, Stages
  <2>4. Controlled'
    BY <1>9, <1>a, <2>2 DEF DeployFiles, DeployOnly, TypeOK, Controlled, Control
  <2> QED
    BY <2>3, <2>4
<1>10. CASE DeployOpen(p)
  <2>1. home' = home \/ home' = [home EXCEPT !.all = << >>]
    BY <1>10 DEF DeployOpen, DeployOnly
  <2>2. home' \in HomeType
    <3>1. CASE home' = home
      BY <3>1 DEF TypeOK
    <3>2. CASE home' = [home EXCEPT !.all = << >>]
      BY <3>2, EmptyList DEF TypeOK, HomeType
    <3> QED
      BY <2>1, <3>1, <3>2
  <2>3. TypeOK'
    BY <1>10, <2>2 DEF DeployOpen, DeployOnly, TypeOK, Commands, Stages
  <2>4. Controlled'
    BY <1>10, <1>a, <2>2 DEF DeployOpen, DeployOnly, TypeOK, Controlled, Control
  <2> QED
    BY <2>3, <2>4
<1>11. CASE DeployWrite(p)
  <2>1. home' = [home EXCEPT !.all = config.all]
    BY <1>11 DEF DeployWrite, DeployOnly, Stages
  <2>2. home' \in HomeType
    BY <2>1 DEF TypeOK, HomeType, ConfigType
  <2>3. TypeOK'
    BY <1>11, <2>2 DEF DeployWrite, DeployOnly, Stages, TypeOK, Commands, Stages
  <2>4. Controlled'
    BY <1>11, <1>a, <2>2 DEF DeployWrite, DeployOnly, Stages, TypeOK, Controlled, Control
  <2> QED
    BY <2>3, <2>4
<1> QED
  BY <1>1, <1>2, <1>3, <1>4, <1>5, <1>6, <1>7, <1>8, <1>9, <1>10, <1>11 DEF Deploy

LEMMA CleanTypeOK ==
    ASSUME TypeOK, Controlled, NEW p \in Procs, Clean(p)
    PROVE  TypeOK' /\ Controlled'
<1> USE DEF Goto, Rest, Loops, Appending, BuildCommands, ConfigCommands, DeployCommands, CleanCommands
<1>a. /\ Control(p) /\ ini \in Inis
      /\ ini.nodes \in Seq(Instances) /\ Len(ini.nodes) \in Nat /\ Len(ini.nodes) >= 1
      /\ ini.redis \in Packages /\ ini.hiredis \in Packages
  BY IniFacts DEF Controlled
<1>1. CASE Ask(p, "build", "x_build", "r_build", "x_config")
  <2>3. TypeOK'
    BY <1>1 DEF Ask, CleanOnly, TypeOK, Commands, Stages
  <2>4. Controlled'
    BY <1>1, <1>a DEF Ask, CleanOnly, TypeOK, Controlled, Control
  <2> QED
    BY <2>3, <2>4
<1>2. CASE Ask(p, "config", "x_config", "r_config", "x_home")
  <2>3. TypeOK'
    BY <1>2 DEF Ask, CleanOnly, TypeOK, Commands, Stages
  <2>4. Controlled'
    BY <1>2, <1>a DEF Ask, CleanOnly, TypeOK, Controlled, Control
  <2> QED
    BY <2>3, <2>4
<1>3. CASE Ask(p, "deploy", "x_home", "r_home", "done")
  <2>3. TypeOK'
    BY <1>3 DEF Ask, CleanOnly, TypeOK, Commands, Stages
  <2>4. Controlled'
    BY <1>3, <1>a DEF Ask, CleanOnly, TypeOK, Controlled, Control
  <2> QED
    BY <2>3, <2>4
<1>4. CASE RmBuild(p)
  <2>a. PICK src \in SUBSET build.src, ok \in {FALSE, build.ok} :
             \E bin \in SUBSET (build.bin \cap src) : build' = [src |-> src, bin |-> bin, ok |-> ok]
    BY <1>4 DEF RmBuild
  <2>1. PICK bin \in SUBSET (build.bin \cap src) : build' = [src |-> src, bin |-> bin, ok |-> ok]
    BY <2>a
  <2>2. build' \in BuildType
    BY <2>1 DEF TypeOK, BuildType
  <2>3. TypeOK'
    BY <1>4, <2>2 DEF RmBuild, CleanOnly, TypeOK, Commands, Stages
  <2>4. Controlled'
    BY <1>4, <1>a, <2>2 DEF RmBuild, CleanOnly, TypeOK, Controlled, Control
  <2> QED
    BY <2>3, <2>4
<1>5. CASE RmConfig(p)
  <2>a. PICK conf \in SUBSET config.conf,
             scripts \in SUBSET config.scripts,
             misc \in SUBSET config.misc,
             ok \in {FALSE, config.ok},
             all \in {NoList, config.all} :
             config' = [all |-> all, conf |-> conf, scripts |-> scripts, misc |-> misc, ok |-> ok]
    BY <1>5 DEF RmConfig
  <2>b. \A q \in Procs : pc[q] \notin ConfigCommands
    <3> SUFFICES ASSUME NEW q \in Procs, pc[q] \in ConfigCommands PROVE FALSE
      OBVIOUS
    <3>1. q # p /\ pc[p] \notin Rest /\ pc[q] \notin Rest
      BY <1>5 DEF RmConfig
    <3>2. "config" \in acts[p] /\ "config" \in acts[q]
      BY <1>5 DEF Controlled, Control, RmConfig
    <3> QED
      BY <3>1, <3>2, Exclusive DEF Stages
  <2>1. config' = [all |-> all, conf |-> conf, scripts |-> scripts, misc |-> misc, ok |-> ok]
    BY <1>5, <2>a DEF RmConfig, CleanOnly
  <2>2. config' \in ConfigType
    BY <2>1 DEF TypeOK, ConfigType
  <2>3. TypeOK'
    BY <1>5, <2>2, <2>b DEF RmConfig, CleanOnly, TypeOK, Commands, Stages
  <2>4. Controlled'
    BY <1>5, <1>a, <2>2, <2>b DEF RmConfig, CleanOnly, TypeOK, Controlled, Control
  <2> QED
    BY <2>3, <2>4
<1>6. CASE RmHome(p)
  <2>a. PICK conf \in SUBSET home.conf,
             scripts \in SUBSET home.scripts,
             bin \in SUBSET home.bin,
             misc \in SUBSET home.misc,
             all \in {NoList, home.all},
             dir \in {FALSE, home.dir} :
             home' = [dir |-> dir, conf |-> conf, scripts |-> scripts, bin |-> bin,
                      misc |-> misc, all |-> all]
    BY <1>6 DEF RmHome
  <2>1. home' = [dir |-> dir, conf |-> conf, scripts |-> scripts, bin |-> bin,
                      misc |-> misc, all |-> all]
    BY <1>6, <2>a DEF RmHome, CleanOnly
  <2>2. home' \in HomeType
    BY <2>1 DEF TypeOK, HomeType
  <2>3. TypeOK'
    BY <1>6, <2>2 DEF RmHome, CleanOnly, TypeOK, Commands, Stages
  <2>4. Controlled'
    BY <1>6, <1>a, <2>2 DEF RmHome, CleanOnly, TypeOK, Controlled, Control
  <2> QED
    BY <2>3, <2>4
<1> QED
  BY <1>1, <1>2, <1>3, <1>4, <1>5, <1>6 DEF Clean

LEMMA OtherTypeOK ==
    ASSUME TypeOK, Controlled, NEW p \in Procs, Start(p) \/ Stop(p) \/ Edit \/ UNCHANGED vars
    PROVE  TypeOK' /\ Controlled'
<1> USE DEF Goto, Rest, Loops, Appending, BuildCommands, ConfigCommands, DeployCommands, CleanCommands
<1>a. /\ Control(p) /\ ini \in Inis
      /\ ini.nodes \in Seq(Instances) /\ Len(ini.nodes) \in Nat /\ Len(ini.nodes) >= 1
      /\ ini.redis \in Packages /\ ini.hiredis \in Packages
  BY IniFacts DEF Controlled
<1>1. CASE Start(p)
  <2>3. TypeOK'
    <3>1. PICK r \in Requests[p] : acts' = [acts EXCEPT ![p] = r] /\ Goto(p, First(r))
      BY <1>1 DEF Start
    <3>2. r \in SUBSET (Stages \cup {"clean"})
      BY <3>1, RequestsAssumption
    <3>3. First(r) \in Rest \cup Commands
      BY DEF First, AfterBuild, AfterConfig, Commands
    <3>4. pc' \in [Procs -> Rest \cup Commands] /\ acts' \in [Procs -> SUBSET (Stages \cup {"clean"})]
      BY <3>1, <3>2, <3>3 DEF TypeOK
    <3> QED
      BY <1>1, <3>4 DEF Start, TypeOK
  <2>4. Controlled'
    BY <1>1, <1>a, RequestsAssumption DEF Start, First, Stages, AfterBuild, AfterConfig, TypeOK, Controlled, Control
  <2> QED
    BY <2>3, <2>4
<1>2. CASE Stop(p)
  <2>3. TypeOK'
    BY <1>2 DEF Stop, TypeOK, Commands, Stages
  <2>4. Controlled'
    BY <1>2, <1>a DEF Stop, TypeOK, Controlled, Control
  <2> QED
    BY <2>3, <2>4
<1>3. CASE Edit
  <2>3. TypeOK'
    BY <1>3 DEF Edit, TypeOK, Commands, Stages
  <2>4. Controlled'
    BY <1>3, <1>a DEF Edit, TypeOK, Controlled, Control
  <2> QED
    BY <2>3, <2>4
<1>4. CASE UNCHANGED vars
  <2>3. TypeOK'
    BY <1>4 DEF vars, TypeOK, Commands, Stages
  <2>4. Controlled'
    BY <1>4, <1>a DEF vars, TypeOK, Controlled, Control
  <2> QED
    BY <2>3, <2>4
<1> QED
  BY <1>1, <1>2, <1>3, <1>4

(* Every step keeps the types and control. *)
LEMMA StepTypeOK == TypeOK /\ Controlled /\ [Next]_vars => TypeOK' /\ Controlled'
<1> SUFFICES ASSUME TypeOK, Controlled, [Next]_vars PROVE TypeOK' /\ Controlled'
  OBVIOUS
<1>1. ASSUME NEW p \in Procs, Start(p) \/ Work(p) \/ Stop(p) PROVE TypeOK' /\ Controlled'
  BY <1>1, BuildTypeOK, ConfigTypeOK, DeployTypeOK, CleanTypeOK, OtherTypeOK DEF Work
<1>2. CASE Edit \/ UNCHANGED vars
  <2>1. CASE Procs = {}
    BY <1>2, <2>1 DEF Edit, vars, TypeOK, Controlled
  <2>2. CASE \E p \in Procs : TRUE
    BY <1>2, <2>2, OtherTypeOK
  <2> QED
    BY <2>1, <2>2
<1> QED
  BY <1>1, <1>2 DEF Next

(* The types of the state hold, and nothing of another machine's nodes is ever *)
(* copied into home.                                                           *)
THEOREM TypeCorrect == Spec => []TypeOK
<1>1. TypeOK /\ Controlled /\ [Next]_vars => (TypeOK /\ Controlled)'
  BY StepTypeOK
<1> QED
  BY InitTypeOK, <1>1, PTL DEF Spec

-----------------------------------------------------------------------------
(* What each command has already achieved. *)

TopDirMatches == \A a \in Archives : TopDir[a] = a

Extracted == {"b_make_redis", "b_make_hiredis", "b_mark"}

Building(q) ==
    /\ pc[q] \in BuildCommands \ {"b_check"} => ~build.ok
    /\ pc[q] = "b_tar_hiredis" => ini.redis \in build.src
    /\ pc[q] \in Extracted => ini.redis \in build.src /\ ini.hiredis \in build.src
    /\ pc[q] \in {"b_make_hiredis", "b_mark"} => ini.redis \in build.bin
    /\ pc[q] = "b_mark" => ini.hiredis \in build.bin

\* CLUSTER_ALL_NODES lists the first n instances.
Listed(n) ==
    /\ config.all \in Seq(Instances)
    /\ Len(config.all) = n
    /\ \A k \in 1..n : config.all[k] = ini.nodes[k]

\* The scripts of a node are written after its last instance.
Written(k, at) ==
    /\ ini.nodes[k] \in config.conf
    /\ ini.nodes[k].node \in config.scripts \/ ini.nodes[k].node = ini.nodes[at].node

AllWritten ==
    /\ "auth" \in config.misc
    /\ \A k \in 1..Len(ini.nodes) : ini.nodes[k] \in config.conf /\ ini.nodes[k].node \in config.scripts

Configuring(q) ==
    /\ pc[q] \in ConfigCommands \ {"c_check"} => ~config.ok
    /\ pc[q] = "c_append" => Listed(i[q] - 1)
    /\ pc[q] \in {"c_conf", "c_node"} => Listed(i[q])
    /\ pc[q] \in {"c_tail", "c_mark"} => Listed(Len(ini.nodes)) /\ AllWritten
    /\ pc[q] \in {"c_append", "c_conf", "c_node"} => \A k \in 1..(i[q] - 1) : Written(k, i[q])
    /\ pc[q] = "c_node" => ini.nodes[i[q]] \in config.conf
    /\ pc[q] = "c_mark" => "env" \in config.misc /\ "create" \in config.misc

Copying   == {"d_dir", "d_inst", "d_node", "d_make_redis", "d_make_hiredis", "d_files", "d_open"}
Copied    == {"d_make_redis", "d_make_hiredis", "d_files", "d_open", "d_write"}
HasRedis  == {"d_make_hiredis", "d_files", "d_open", "d_write"}
HasBoth   == {"d_files", "d_open", "d_write"}

Scripted(n) == n \in home.scripts /\ "create" \in home.misc

Deploying(q) ==
    /\ pc[q] \in DeployCommands \ {"d_build"} => build.ok
    /\ pc[q] \in DeployCommands \ {"d_build", "d_config"} => config.ok
    /\ pc[q] \in Copying => home.all = NoList
    /\ pc[q] = "d_write" => home.all = << >> /\ config.all # NoList
    /\ pc[q] \in {"d_inst", "d_node"} =>
         \A k \in 1..(i[q] - 1) : ini.nodes[k].node \in Here =>
             /\ ini.nodes[k] \in home.conf
             /\ Scripted(ini.nodes[k].node) \/ ini.nodes[k].node = ini.nodes[i[q]].node
    /\ pc[q] = "d_node" => ini.nodes[i[q]] \in home.conf
    /\ pc[q] \in Copied =>
         \A k \in 1..Len(ini.nodes) : ini.nodes[k].node \in Here =>
             ini.nodes[k] \in home.conf /\ Scripted(ini.nodes[k].node)
    /\ pc[q] \in HasRedis /\ vouch["build"] = ini => ini.redis \in home.bin
    /\ pc[q] \in HasBoth /\ vouch["build"] = ini => ini.hiredis \in home.bin
    /\ pc[q] \in {"d_open", "d_write"} => "auth" \in home.misc /\ "env" \in home.misc

Made == build.bin \subseteq build.src

Sound == Made /\ BuildSound /\ ConfigSound /\ HomeSound

Working == \A q \in Procs : Building(q) /\ Configuring(q) /\ Deploying(q)

IInv == TypeOK /\ Controlled /\ Sound /\ Working

LEMMA SeqEqual ==
    ASSUME NEW S, NEW s \in Seq(S), NEW t \in Seq(S), Len(s) = Len(t),
           \A k \in 1..Len(s) : s[k] = t[k]
    PROVE  s = t
  OBVIOUS

(* The other invocations, while p is in one of the stages. *)
LEMMA Alone ==
    ASSUME Controlled, NEW p \in Procs, NEW q \in Procs, p # q
    PROVE  /\ pc[p] \in BuildCommands \cup {"r_build"} => pc[q] \notin BuildCommands \cup {"r_build"}
           /\ pc[p] \in ConfigCommands \cup {"r_config"} => pc[q] \notin ConfigCommands \cup {"r_config"}
           /\ pc[p] \in DeployCommands \cup {"r_home"} => pc[q] \notin DeployCommands \cup {"r_home"}
           /\ pc[p] \in DeployCommands => pc[q] \notin CleanCommands
           /\ pc[p] \in CleanCommands => pc[q] \notin DeployCommands
<1> USE DEF Rest, BuildCommands, ConfigCommands, DeployCommands, CleanCommands, Stages
<1>1. Control(p) /\ Control(q)
  BY DEF Controlled
<1>2. pc[p] \notin Rest /\ pc[q] \notin Rest =>
        /\ \A s \in Stages : ~(s \in acts[p] /\ s \in acts[q])
        /\ ~("deploy" \in acts[p] /\ "clean" \in acts[q])
        /\ ~("deploy" \in acts[q] /\ "clean" \in acts[p])
  BY Exclusive
<1> QED
  BY <1>1, <1>2 DEF Control

(* A command that leaves a stage's files alone leaves its progress alone. *)
LEMMA BuildingFrame ==
    ASSUME NEW q \in Procs, Building(q), UNCHANGED <<build, ini>>,
           pc'[q] = pc[q] \/ pc'[q] \notin BuildCommands \ {"b_check"}
    PROVE  Building(q)'
  BY DEF Building, BuildCommands, Extracted

LEMMA ConfiguringFrame ==
    ASSUME NEW q \in Procs, Configuring(q), UNCHANGED <<config, ini>>,
           (pc'[q] = pc[q] /\ i'[q] = i[q]) \/ pc'[q] \notin ConfigCommands \ {"c_check"}
    PROVE  Configuring(q)'
<1>1. CASE pc'[q] = pc[q] /\ i'[q] = i[q]
  BY <1>1 DEF Configuring, Listed, Written, AllWritten
<1>2. CASE pc'[q] \notin ConfigCommands \ {"c_check"}
  BY <1>2 DEF Configuring, ConfigCommands
<1> QED
  BY <1>1, <1>2

LEMMA DeployingFrame ==
    ASSUME NEW q \in Procs, Deploying(q), UNCHANGED <<home, ini>>,
           (/\ pc'[q] = pc[q] /\ i'[q] = i[q]
            /\ build.ok => build'.ok /\ vouch'["build"] = vouch["build"]
            /\ config.ok => config'.ok /\ config'.all = config.all)
             \/ pc'[q] \notin DeployCommands \ {"d_build"}
    PROVE  Deploying(q)'
<1>1. CASE /\ pc'[q] = pc[q] /\ i'[q] = i[q]
           /\ build.ok => build'.ok /\ vouch'["build"] = vouch["build"]
           /\ config.ok => config'.ok /\ config'.all = config.all
  BY <1>1 DEF Deploying, Scripted, Copying, Copied, HasRedis, HasBoth, DeployCommands
<1>2. CASE pc'[q] \notin DeployCommands \ {"d_build"}
  BY <1>2 DEF Deploying, DeployCommands, Copying, Copied, HasRedis, HasBoth
<1> QED
  BY <1>1, <1>2

LEMMA BuildingIdle ==
    ASSUME NEW q \in Procs, pc'[q] \notin BuildCommands \ {"b_check"}
    PROVE  Building(q)'
  BY DEF Building, BuildCommands, Extracted

LEMMA ConfiguringIdle ==
    ASSUME NEW q \in Procs, pc'[q] \notin ConfigCommands \ {"c_check"}
    PROVE  Configuring(q)'
  BY DEF Configuring, ConfigCommands

LEMMA DeployingIdle ==
    ASSUME NEW q \in Procs, pc'[q] \notin DeployCommands \ {"d_build"}
    PROVE  Deploying(q)'
  BY DEF Deploying, DeployCommands, Copying, Copied, HasRedis, HasBoth

LEMMA InitInv == Init => IInv
<1> SUFFICES ASSUME Init PROVE IInv
  OBVIOUS
<1>1. TypeOK /\ Controlled
  BY InitTypeOK
<1>2. Sound
  BY DEF Init, Sound, Made, BuildSound, ConfigSound, HomeSound, EmptyBuild, Stages
<1>3. Working
  BY DEF Init, Working, Building, Configuring, Deploying, BuildCommands, ConfigCommands,
         DeployCommands, Extracted, Copying, Copied, HasRedis, HasBoth
<1> QED
  BY <1>1, <1>2, <1>3 DEF IInv

(* The commands of build. *)
LEMMA BuildInv ==
    ASSUME IInv, TopDirMatches, NEW p \in Procs, Build(p)
    PROVE  (Sound /\ Working)'
<1> USE DEF Goto, Extracted
<1>0. TypeOK /\ Controlled /\ Sound /\ Control(p) /\ Building(p)
  BY DEF IInv, Controlled, Working
<1>1. UNCHANGED <<config, home, ini, acts, i>>
  BY DEF Build, BuildCheck, BuildDirs, Untar, Make, BuildMark, BuildOnly
<1>2. /\ pc[p] \in BuildCommands
      /\ pc'[p] \in (BuildCommands \ {"b_check"}) \cup Rest \cup {"c_check", "d_build"}
      /\ \A q \in Procs : q # p => pc'[q] = pc[q]
  BY <1>0 DEF Build, BuildCheck, BuildDirs, Untar, Make, BuildMark, TypeOK, BuildCommands, Rest,
              AfterBuild, AfterConfig
<1>3. build.ok => UNCHANGED <<build, vouch>>
  BY <1>0 DEF Build, BuildCheck, BuildDirs, Untar, Make, BuildMark, Building, BuildCommands
<1>4. ASSUME NEW q \in Procs, q # p PROVE Building(q)'
  BY <1>0, <1>2, <1>4, Alone, BuildingIdle
<1>5. Building(p)'
  <2> USE DEF Building, BuildOnly, BuildCommands, TypeOK, BuildType
  <2>1. CASE BuildCheck(p)
    BY <1>0, <2>1 DEF BuildCheck
  <2>2. CASE BuildDirs(p)
    BY <1>0, <2>2 DEF BuildDirs
  <2>3. CASE Untar(p, ini.redis, "b_tar_redis", "b_tar_hiredis")
    <3>1. TopDir[ini.redis] = ini.redis
      BY <1>0, <2>3, TopDirMatches DEF Control, Untar, TopDirMatches
    <3> QED
      BY <1>0, <2>3, <3>1 DEF Untar
  <2>4. CASE Untar(p, ini.hiredis, "b_tar_hiredis", "b_make_redis")
    <3>1. TopDir[ini.hiredis] = ini.hiredis
      BY <1>0, <2>4, TopDirMatches DEF Control, Untar, TopDirMatches
    <3> QED
      BY <1>0, <2>4, <3>1 DEF Untar
  <2>5. CASE Make(p, ini.redis, "b_make_redis", "b_make_hiredis")
    BY <1>0, <2>5 DEF Make
  <2>6. CASE Make(p, ini.hiredis, "b_make_hiredis", "b_mark")
    BY <1>0, <2>6 DEF Make
  <2>7. CASE BuildMark(p)
    BY <1>0, <2>7 DEF BuildMark, AfterBuild, AfterConfig
  <2> QED
    BY <2>1, <2>2, <2>3, <2>4, <2>5, <2>6, <2>7 DEF Build
<1>6. ASSUME NEW q \in Procs PROVE Configuring(q)'
  <2>1. Configuring(q)
    BY DEF IInv, Working
  <2>2. CASE q # p
    BY <1>1, <1>2, <2>1, <2>2, ConfiguringFrame
  <2>3. CASE q = p
    BY <1>2, <2>3, ConfiguringIdle DEF BuildCommands, ConfigCommands, Rest
  <2> QED
    BY <2>2, <2>3
<1>7. ASSUME NEW q \in Procs PROVE Deploying(q)'
  <2>1. Deploying(q)
    BY DEF IInv, Working
  <2>2. CASE q # p
    BY <1>1, <1>2, <1>3, <2>1, <2>2, DeployingFrame
  <2>3. CASE q = p
    BY <1>2, <2>3, DeployingIdle DEF BuildCommands, DeployCommands, Rest
  <2> QED
    BY <2>2, <2>3
<1>8. Sound'
  <2> USE DEF Sound, Made, BuildSound, BuildComplete, TypeOK, BuildType, BuildOnly
  <2>1. ConfigSound' /\ HomeSound'
    <3>1. vouch'["config"] = vouch["config"] /\ vouch'["deploy"] = vouch["deploy"]
      BY <1>0 DEF Build, BuildCheck, BuildDirs, Untar, Make, BuildMark, Stages
    <3> QED
      BY <1>0, <1>1, <3>1 DEF ConfigSound, ConfigComplete, HomeSound, HomeComplete, HomeFilled
  <2>2. Made'
    BY <1>0 DEF Build, BuildCheck, BuildDirs, Untar, Make, BuildMark
  <2>3. BuildSound'
    <3>1. CASE BuildMark(p)
      BY <1>0, <3>1 DEF BuildMark, Building, Stages
    <3>2. CASE ~BuildMark(p)
      BY <1>0, <3>2 DEF Build, BuildCheck, BuildDirs, Untar, Make
    <3> QED
      BY <3>1, <3>2
  <2> QED
    BY <2>1, <2>2, <2>3
<1> QED
  BY <1>4, <1>5, <1>6, <1>7, <1>8 DEF Working

(* The commands of config. *)
LEMMA ConfigInv ==
    ASSUME IInv, NEW p \in Procs, Config(p)
    PROVE  (Sound /\ Working)'
<1> USE DEF Goto
<1> DEFINE Step == {"c_append", "c_conf", "c_node"}
<1>0. TypeOK /\ Controlled /\ Sound /\ Control(p) /\ Configuring(p)
  BY DEF IInv, Controlled, Working
<1>1. UNCHANGED <<build, home, ini, acts, err>>
  BY DEF Config, ConfigCheck, ConfigOpen, ConfigAppend, ConfigConf, ConfigNode, ConfigTail,
         ConfigMark, ConfigOnly
<1>2. /\ pc[p] \in ConfigCommands
      /\ pc'[p] \in (ConfigCommands \ {"c_check"}) \cup Rest \cup {"d_build"}
      /\ \A q \in Procs : q # p => pc'[q] = pc[q] /\ i'[q] = i[q]
  BY <1>0 DEF Config, ConfigCheck, ConfigOpen, ConfigAppend, ConfigConf, ConfigNode, ConfigTail,
              ConfigMark, TypeOK, ConfigCommands, Rest, AfterConfig, LoopNext
<1>3. config.ok => UNCHANGED <<config, vouch>>
  BY <1>0 DEF Config, ConfigCheck, ConfigOpen, ConfigAppend, ConfigConf, ConfigNode, ConfigTail,
              ConfigMark, Configuring, ConfigCommands
<1>n. /\ ini \in Inis /\ ini.nodes \in Seq(Instances)
      /\ Len(ini.nodes) \in Nat /\ Len(ini.nodes) >= 1
  BY <1>0, IniFacts
<1>l. pc[p] \in Step => /\ i[p] \in 1..Len(ini.nodes) /\ i[p] \in Nat
                        /\ ini.nodes[i[p]] \in Instances
  BY <1>0, LoopInstance DEF Loops
<1>4. ASSUME NEW q \in Procs, q # p PROVE Configuring(q)'
  BY <1>0, <1>2, <1>4, Alone, ConfiguringIdle
<1>5. Configuring(p)'
  <2> USE DEF Configuring, ConfigOnly, ConfigCommands, TypeOK, ConfigType
  <2>1. CASE ConfigCheck(p)
    BY <1>0, <2>1 DEF ConfigCheck
  <2>2. CASE ConfigOpen(p)
    BY <1>0, <2>2, EmptyList DEF ConfigOpen, Listed, Written
  <2>3. CASE ConfigAppend(p)
    <3>1. config.all \in Seq(Instances) /\ Len(config.all) = i[p] - 1
      BY <1>0, <2>3 DEF ConfigAppend, Listed
    <3>2. config'.all = Append(config.all, ini.nodes[i[p]])
      BY <1>0, <2>3 DEF ConfigAppend
    <3>n. PICK n \in Nat : n = i[p]
      BY <1>l, <2>3 DEF ConfigAppend
    <3>3. Listed(n)'
      BY <1>0, <1>1, <1>l, <2>3, <3>1, <3>2, <3>n, SeqAppend DEF ConfigAppend, Listed
    <3>4. \A k \in 1..(n - 1) : Written(k, n)'
      BY <1>0, <1>1, <2>3, <3>n DEF ConfigAppend, Written
    <3>5. pc'[p] = "c_conf" /\ i'[p] = n /\ ~config'.ok
      BY <1>0, <2>3, <3>n DEF ConfigAppend
    <3> QED
      BY <3>3, <3>4, <3>5
  <2>4. CASE ConfigConf(p)
    <3>1. /\ config'.all = config.all /\ config'.scripts = config.scripts
          /\ config'.conf = config.conf \cup {ini.nodes[i[p]]} /\ config'.ok = config.ok
      BY <1>0, <2>4 DEF ConfigConf
    <3>n. PICK n \in Nat : n = i[p]
      BY <1>l, <2>4 DEF ConfigConf
    <3>2. Listed(n)' /\ \A k \in 1..(n - 1) : Written(k, n)'
      BY <1>0, <1>1, <2>4, <3>1, <3>n DEF ConfigConf, Listed, Written
    <3>3. CASE LastOfNode(i[p])
      <4>1. pc'[p] = "c_node" /\ i'[p] = n
        BY <1>0, <2>4, <3>3, <3>n DEF ConfigConf
      <4>2. ini.nodes[n] \in config'.conf /\ ~config'.ok
        BY <1>0, <2>4, <3>1, <3>n DEF ConfigConf
      <4> QED
        BY <1>1, <3>2, <4>1, <4>2
    <3>4. CASE ~LastOfNode(i[p])
      <4>1. pc'[p] = "c_append" /\ i'[p] = n + 1
        BY <1>0, <2>4, <3>4, <3>n DEF ConfigConf
      <4>2. ini.nodes[n].node = ini.nodes[n + 1].node
        BY <3>4, <3>n DEF LastOfNode
      <4>3. \A k \in 1..n : Written(k, n + 1)'
        BY <1>1, <3>1, <3>2, <3>n, <4>2 DEF Written
      <4>4. ~config'.ok
        BY <1>0, <2>4, <3>1 DEF ConfigConf
      <4>5. i'[p] - 1 = n
        BY <4>1
      <4> QED
        BY <3>2, <4>1, <4>3, <4>4, <4>5
    <3> QED
      BY <3>3, <3>4
  <2>5. CASE ConfigNode(p)
    <3>1. /\ config'.all = config.all /\ config'.conf = config.conf /\ config'.ok = config.ok
          /\ config'.scripts = config.scripts \cup {ini.nodes[i[p]].node}
          /\ config'.misc = config.misc \cup {"auth"}
      BY <1>0, <2>5 DEF ConfigNode
    <3>n. PICK n \in Nat : n = i[p]
      BY <1>l, <2>5 DEF ConfigNode
    <3>2. Listed(n)' /\ ~config'.ok /\ i'[p] = n + 1
      BY <1>0, <1>1, <2>5, <3>1, <3>n DEF ConfigNode, Listed
    <3>3. \A k \in 1..n : /\ ini.nodes[k] \in config'.conf
                          /\ ini.nodes[k].node \in config'.scripts
      BY <1>0, <1>l, <2>5, <3>1, <3>n DEF ConfigNode, Written
    <3>4. CASE n = Len(ini.nodes)
      <4>1. pc'[p] = "c_tail"
        BY <1>0, <2>5, <3>4, <3>n DEF ConfigNode, LoopNext
      <4> QED
        BY <1>1, <3>1, <3>2, <3>3, <3>4, <4>1 DEF AllWritten, Listed
    <3>5. CASE n # Len(ini.nodes)
      <4>1. pc'[p] = "c_append"
        BY <1>0, <2>5, <3>5, <3>n DEF ConfigNode, LoopNext
      <4>2. \A k \in 1..n : Written(k, n + 1)'
        BY <1>1, <3>3 DEF Written
      <4>3. i'[p] - 1 = n
        BY <3>2
      <4> QED
        BY <3>2, <4>1, <4>2, <4>3
    <3> QED
      BY <3>4, <3>5
  <2>6. CASE ConfigTail(p)
    BY <1>0, <2>6 DEF ConfigTail, Listed, AllWritten
  <2>7. CASE ConfigMark(p)
    BY <1>0, <2>7 DEF ConfigMark, AfterConfig
  <2> QED
    BY <2>1, <2>2, <2>3, <2>4, <2>5, <2>6, <2>7 DEF Config
<1>6. ASSUME NEW q \in Procs PROVE Building(q)'
  <2>1. Building(q)
    BY DEF IInv, Working
  <2>2. CASE q # p
    BY <1>1, <1>2, <2>1, <2>2, BuildingFrame
  <2>3. CASE q = p
    BY <1>2, <2>3, BuildingIdle DEF BuildCommands, ConfigCommands, Rest
  <2> QED
    BY <2>2, <2>3
<1>v. vouch'["build"] = vouch["build"] /\ vouch'["deploy"] = vouch["deploy"]
  BY <1>0 DEF Config, ConfigCheck, ConfigOpen, ConfigAppend, ConfigConf, ConfigNode, ConfigTail,
              ConfigMark, Stages, TypeOK
<1>7. ASSUME NEW q \in Procs PROVE Deploying(q)'
  <2>1. Deploying(q)
    BY DEF IInv, Working
  <2>2. CASE q # p
    BY <1>1, <1>2, <1>3, <1>v, <2>1, <2>2, DeployingFrame
  <2>3. CASE q = p
    BY <1>2, <2>3, DeployingIdle DEF ConfigCommands, DeployCommands, Rest
  <2> QED
    BY <2>2, <2>3
<1>8. Sound'
  <2>1. Made' /\ BuildSound' /\ HomeSound'
    BY <1>0, <1>1, <1>v DEF Sound, Made, BuildSound, BuildComplete, HomeSound, HomeComplete, HomeFilled
  <2>2. ConfigSound'
    <3>1. CASE ConfigMark(p)
      <4>1. Listed(Len(ini.nodes)) /\ AllWritten /\ "env" \in config.misc /\ "create" \in config.misc
        BY <1>0, <3>1 DEF ConfigMark, Configuring
      <4>2. config.all = ini.nodes
        BY <1>n, <4>1, SeqEqual DEF Listed
      <4>3. config.misc = Files
        BY <1>0, <4>1 DEF AllWritten, TypeOK, ConfigType, Files
      <4>4. /\ config'.ok /\ config'.all = config.all /\ config'.conf = config.conf
            /\ config'.scripts = config.scripts /\ config'.misc = config.misc
            /\ vouch'["config"] = ini
        BY <1>0, <3>1 DEF ConfigMark, TypeOK, ConfigType, Stages
      <4>5. DOMAIN ini.nodes = 1..Len(ini.nodes)
        BY <1>n
      <4> QED
        BY <4>1, <4>2, <4>3, <4>4, <4>5 DEF ConfigSound, ConfigComplete, AllWritten
    <3>2. CASE ~ConfigMark(p)
      <4>1. vouch' = vouch
        BY <3>2 DEF Config, ConfigCheck, ConfigOpen, ConfigAppend, ConfigConf, ConfigNode, ConfigTail
      <4>2. CASE config.ok
        BY <1>0, <1>3, <4>1, <4>2 DEF Sound, ConfigSound, ConfigComplete
      <4>3. CASE ~config.ok
        BY <1>0, <4>1, <4>3 DEF Sound, ConfigSound, ConfigComplete
      <4> QED
        BY <4>2, <4>3
    <3> QED
      BY <3>1, <3>2
  <2> QED
    BY <2>1, <2>2 DEF Sound
<1> QED
  BY <1>4, <1>5, <1>6, <1>7, <1>8 DEF Working

(* The commands of deploy. *)
LEMMA DeployInv ==
    ASSUME IInv, NEW p \in Procs, Deploy(p)
    PROVE  (Sound /\ Working)'
<1> USE DEF Goto
<1>0. TypeOK /\ Controlled /\ Sound /\ Control(p) /\ Deploying(p)
  BY DEF IInv, Controlled, Working
<1>1. UNCHANGED <<build, config, ini, acts>>
  BY DEF Deploy, DeployOnly, DeployBuilt, DeployConfigured, DeployHome, DeployDir, DeployInst, DeployNode,
         Install, DeployFiles, DeployOpen, DeployWrite
<1>2. /\ pc[p] \in DeployCommands
      /\ pc'[p] \in (DeployCommands \ {"d_build"}) \cup Rest
      /\ \A q \in Procs : q # p => pc'[q] = pc[q] /\ i'[q] = i[q]
  BY <1>0 DEF Deploy, TypeOK, DeployCommands, Rest, LoopNext, DeployBuilt, DeployConfigured, DeployHome, DeployDir, DeployInst, DeployNode,
         Install, DeployFiles, DeployOpen, DeployWrite
<1>n. /\ ini \in Inis /\ ini.nodes \in Seq(Instances)
      /\ Len(ini.nodes) \in Nat /\ Len(ini.nodes) >= 1
  BY <1>0, IniFacts
<1>l. pc[p] \in {"d_inst", "d_node"} => /\ i[p] \in 1..Len(ini.nodes) /\ i[p] \in Nat
                                        /\ ini.nodes[i[p]] \in Instances
  BY <1>0, LoopInstance DEF Loops
<1>4. ASSUME NEW q \in Procs, q # p PROVE Deploying(q)'
  BY <1>0, <1>2, <1>4, Alone, DeployingIdle
<1>b. vouch["build"] = ini => ini.redis \in build.src /\ ini.hiredis \in build.src
  BY <1>0, <1>n, IniAssumption DEF Sound, Made, BuildSound, BuildComplete
<1>v. vouch'["build"] = vouch["build"] /\ vouch'["config"] = vouch["config"]
  BY <1>0 DEF Deploy, TypeOK, Stages, DeployBuilt, DeployConfigured, DeployHome, DeployDir, DeployInst, DeployNode,
         Install, DeployFiles, DeployOpen, DeployWrite
<1>5. Deploying(p)'
  <2> USE DEF DeployOnly, Copying, Copied, HasRedis, HasBoth, DeployCommands
  <2>1. CASE DeployBuilt(p)
    BY <1>0, <2>1 DEF DeployBuilt, TypeOK, Deploying
  <2>2. CASE DeployConfigured(p)
    BY <1>0, <2>2 DEF DeployConfigured, TypeOK, Deploying
  <2>3. CASE DeployHome(p)
    BY <1>0, <2>3 DEF DeployHome, TypeOK, Deploying
  <2>4. CASE DeployDir(p)
    <3>1. home'.all = home.all /\ i'[p] = 1 /\ pc'[p] = "d_inst"
      BY <1>0, <2>4 DEF DeployDir, TypeOK, HomeType
    <3> QED
      BY <1>0, <1>1, <2>4, <3>1 DEF DeployDir, Deploying
  <2>5. CASE DeployInst(p)
    <3>n. PICK n \in Nat : n = i[p]
      BY <1>l, <2>5 DEF DeployInst
    <3>1. CASE pc'[p] = "failed"
      BY <3>1, DeployingIdle
    <3>2. CASE pc'[p] # "failed"
      <4> DEFINE x == ini.nodes[n]
                 here == x.node \in Here
      <4>1. /\ home'.all = home.all /\ home'.scripts = home.scripts /\ home'.misc = home.misc
            /\ home.conf \subseteq home'.conf
            /\ here => x \in home'.conf
        BY <1>0, <2>5, <3>n, <3>2 DEF DeployInst, TypeOK, HomeType
      <4>2. \A k \in 1..(n - 1) : ini.nodes[k].node \in Here =>
                /\ ini.nodes[k] \in home'.conf
                /\ Scripted(ini.nodes[k].node)' \/ ini.nodes[k].node = x.node
        BY <1>0, <1>1, <2>5, <3>n, <4>1 DEF DeployInst, Deploying, Scripted
      <4>3. build.ok /\ config.ok /\ home.all = NoList
        BY <1>0, <2>5 DEF DeployInst, Deploying
      <4>4. CASE here /\ LastOfNode(n)
        <5>1. pc'[p] = "d_node" /\ i'[p] = n
          BY <1>0, <2>5, <3>n, <3>2, <4>4 DEF DeployInst, TypeOK
        <5> QED
          BY <1>1, <4>1, <4>2, <4>3, <4>4, <5>1 DEF Deploying
      <4>5. CASE ~(here /\ LastOfNode(n))
        <5>1. /\ i'[p] = n + 1
              /\ pc'[p] = IF n = Len(ini.nodes) THEN "d_make_redis" ELSE "d_inst"
          BY <1>0, <2>5, <3>n, <3>2, <4>5 DEF DeployInst, TypeOK, LoopNext
        <5>2. CASE n = Len(ini.nodes)
          <6>1. ~here
            BY <4>5, <5>2 DEF LastOfNode
          <6>2. \A k \in 1..Len(ini.nodes) : ini.nodes[k].node \in Here =>
                    ini.nodes[k] \in home'.conf /\ Scripted(ini.nodes[k].node)'
            BY <4>2, <5>2, <6>1, <1>n
          <6> QED
            BY <1>1, <4>1, <4>3, <5>1, <5>2, <6>2 DEF Deploying
        <5>3. CASE n # Len(ini.nodes)
          <6>1. here => x.node = ini.nodes[n + 1].node
            BY <4>5 DEF LastOfNode
          <6>2. \A k \in 1..n : ini.nodes[k].node \in Here =>
                    /\ ini.nodes[k] \in home'.conf
                    /\ Scripted(ini.nodes[k].node)' \/ ini.nodes[k].node = ini.nodes[n + 1].node
            BY <4>1, <4>2, <6>1
          <6>3. i'[p] - 1 = n
            BY <5>1
          <6> QED
            BY <1>1, <4>1, <4>3, <5>1, <5>3, <6>2, <6>3 DEF Deploying
        <5> QED
          BY <5>2, <5>3
      <4> QED
        BY <4>4, <4>5
    <3> QED
      BY <3>1, <3>2
  <2>6. CASE DeployNode(p)
    <3>n. PICK n \in Nat : n = i[p]
      BY <1>l, <2>6 DEF DeployNode
    <3>1. CASE pc'[p] = "failed"
      BY <3>1, DeployingIdle
    <3>2. CASE pc'[p] # "failed"
      <4>1. /\ home'.all = home.all /\ home'.conf = home.conf
            /\ home'.scripts = home.scripts \cup {ini.nodes[n].node}
            /\ home'.misc = home.misc \cup {"create"}
            /\ i'[p] = n + 1
            /\ pc'[p] = IF n = Len(ini.nodes) THEN "d_make_redis" ELSE "d_inst"
        <5>1. pc' # [pc EXCEPT ![p] = "failed"]
          BY <1>0, <3>2 DEF TypeOK
        <5>2. /\ home' = [home EXCEPT !.scripts = @ \cup {ini.nodes[n].node},
                                     !.misc = @ \cup {"create"}]
              /\ pc' = [pc EXCEPT ![p] = LoopNext(n, "d_inst", "d_make_redis")]
              /\ i' = [i EXCEPT ![p] = n + 1]
          BY <2>6, <3>n, <5>1 DEF DeployNode, Goto
        <5>3. /\ home'.all = home.all /\ home'.conf = home.conf
              /\ home'.scripts = home.scripts \cup {ini.nodes[n].node}
              /\ home'.misc = home.misc \cup {"create"}
          BY <1>0, <5>2 DEF TypeOK, HomeType
        <5> QED
          BY <1>0, <5>2, <5>3 DEF TypeOK, LoopNext
      <4>2. \A k \in 1..n : ini.nodes[k].node \in Here =>
                ini.nodes[k] \in home'.conf /\ Scripted(ini.nodes[k].node)'
        BY <1>0, <1>1, <2>6, <3>n, <4>1 DEF DeployNode, Deploying, Scripted
      <4>3. build.ok /\ config.ok /\ home.all = NoList
        BY <1>0, <2>6 DEF DeployNode, Deploying
      <4>4. i'[p] - 1 = n
        BY <4>1
      <4>5. CASE n = Len(ini.nodes)
        BY <1>1, <4>1, <4>2, <4>3, <4>5 DEF Deploying
      <4>6. CASE n # Len(ini.nodes)
        BY <1>1, <4>1, <4>2, <4>3, <4>4, <4>6 DEF Deploying
      <4> QED
        BY <4>5, <4>6
    <3> QED
      BY <3>1, <3>2
  <2>7. CASE \/ Install(p, ini.redis, "d_make_redis", "d_make_hiredis")
             \/ Install(p, ini.hiredis, "d_make_hiredis", "d_files")
    <3>1. /\ home'.all = home.all /\ home'.conf = home.conf /\ home'.scripts = home.scripts
          /\ home'.misc = home.misc /\ home.bin \subseteq home'.bin
      BY <1>0, <2>7 DEF Install, TypeOK, HomeType
    <3>2. \A k \in 1..Len(ini.nodes) : ini.nodes[k].node \in Here =>
              ini.nodes[k] \in home'.conf /\ Scripted(ini.nodes[k].node)'
      BY <1>0, <1>1, <2>7, <3>1 DEF Install, Deploying, Scripted
    <3>3. CASE Install(p, ini.redis, "d_make_redis", "d_make_hiredis")
      <4>1. vouch["build"] = ini => ini.redis \in home'.bin
        BY <1>0, <1>b, <3>3 DEF Install, TypeOK, HomeType
      <4>2. pc'[p] = "d_make_hiredis" /\ build.ok /\ config.ok /\ home.all = NoList
        BY <1>0, <3>3 DEF Install, Deploying, TypeOK
      <4> QED
        BY <1>1, <1>v, <3>1, <3>2, <4>1, <4>2 DEF Deploying
    <3>4. CASE Install(p, ini.hiredis, "d_make_hiredis", "d_files")
      <4>1. vouch["build"] = ini => ini.redis \in home'.bin /\ ini.hiredis \in home'.bin
        BY <1>0, <1>b, <3>1, <3>4 DEF Install, Deploying, TypeOK, HomeType
      <4>2. pc'[p] = "d_files" /\ build.ok /\ config.ok /\ home.all = NoList
        BY <1>0, <3>4 DEF Install, Deploying, TypeOK
      <4> QED
        BY <1>1, <1>v, <3>1, <3>2, <4>1, <4>2 DEF Deploying
    <3> QED
      BY <2>7, <3>3, <3>4
  <2>8. CASE DeployFiles(p) \/ DeployOpen(p)
    <3>1. CASE pc'[p] = "failed"
      BY <3>1, DeployingIdle
    <3>2. CASE pc'[p] # "failed"
      <4>1. /\ home'.conf = home.conf /\ home'.scripts = home.scripts /\ home'.bin = home.bin
            /\ home.misc \subseteq home'.misc
            /\ "auth" \in home'.misc /\ "env" \in home'.misc
        <5>1. CASE DeployFiles(p)
          <6>1. home' = [home EXCEPT !.misc = @ \cup {"env", "auth"}]
            BY <1>0, <3>2, <5>1 DEF DeployFiles, TypeOK
          <6> QED
            BY <1>0, <6>1 DEF TypeOK, HomeType
        <5>2. CASE DeployOpen(p)
          <6>1. home' = [home EXCEPT !.all = << >>] /\ pc[p] = "d_open"
            BY <1>0, <3>2, <5>2 DEF DeployOpen, TypeOK
          <6> QED
            BY <1>0, <6>1 DEF TypeOK, HomeType, Deploying
        <5> QED
          BY <2>8, <5>1, <5>2
      <4>2. \A k \in 1..Len(ini.nodes) : ini.nodes[k].node \in Here =>
                ini.nodes[k] \in home'.conf /\ Scripted(ini.nodes[k].node)'
        BY <1>0, <1>1, <2>8, <4>1 DEF DeployFiles, DeployOpen, Deploying, Scripted
      <4>3. vouch["build"] = ini => ini.redis \in home'.bin /\ ini.hiredis \in home'.bin
        BY <1>0, <2>8, <4>1 DEF DeployFiles, DeployOpen, Deploying
      <4>4. build.ok /\ config.ok
        BY <1>0, <2>8 DEF DeployFiles, DeployOpen, Deploying
      <4>5. \/ pc'[p] = "d_open" /\ home'.all = NoList
            \/ pc'[p] = "d_write" /\ home'.all = << >> /\ config.all # NoList
        BY <1>0, <2>8, <3>2 DEF DeployFiles, DeployOpen, Deploying, TypeOK, HomeType
      <4> QED
        BY <1>1, <1>v, <4>1, <4>2, <4>3, <4>4, <4>5 DEF Deploying
    <3> QED
      BY <3>1, <3>2
  <2>9. CASE DeployWrite(p)
    <3>1. pc'[p] = "done"
      BY <1>0, <2>9 DEF DeployWrite, TypeOK
    <3> QED
      BY <3>1, DeployingIdle
  <2> QED
    BY <2>1, <2>2, <2>3, <2>4, <2>5, <2>6, <2>7, <2>8, <2>9 DEF Deploy
<1>6. ASSUME NEW q \in Procs PROVE Building(q)'
  <2>1. Building(q)
    BY DEF IInv, Working
  <2>2. CASE q # p
    BY <1>1, <1>2, <2>1, <2>2, BuildingFrame
  <2>3. CASE q = p
    BY <1>2, <2>3, BuildingIdle DEF BuildCommands, DeployCommands, Rest
  <2> QED
    BY <2>2, <2>3
<1>7. ASSUME NEW q \in Procs PROVE Configuring(q)'
  <2>1. Configuring(q)
    BY DEF IInv, Working
  <2>2. CASE q # p
    BY <1>1, <1>2, <2>1, <2>2, ConfiguringFrame
  <2>3. CASE q = p
    BY <1>2, <2>3, ConfiguringIdle DEF ConfigCommands, DeployCommands, Rest
  <2> QED
    BY <2>2, <2>3
<1>8. Sound'
  <2>1. Made' /\ BuildSound' /\ ConfigSound'
    BY <1>0, <1>1, <1>v DEF Sound, Made, BuildSound, BuildComplete, ConfigSound, ConfigComplete
  <2>2. HomeSound'
    <3>1. CASE DeployWrite(p)
      <4>1. CASE vouch["build"] = ini /\ vouch["config"] = ini
        <5>1. config.all = ini.nodes
          BY <1>0, <1>n, <4>1, IniAssumption DEF Sound, ConfigSound, ConfigComplete
        <5>2. /\ ini.redis \in home.bin /\ ini.hiredis \in home.bin
              /\ "auth" \in home.misc /\ "env" \in home.misc
              /\ \A k \in 1..Len(ini.nodes) : ini.nodes[k].node \in Here =>
                    ini.nodes[k] \in home.conf /\ Scripted(ini.nodes[k].node)
          BY <1>0, <3>1, <4>1 DEF DeployWrite, Deploying, Copied, HasRedis, HasBoth
        <5>3. /\ home'.bin = home.bin /\ home'.misc = home.misc /\ home'.conf = home.conf
              /\ home'.scripts = home.scripts /\ home'.all = config.all
              /\ vouch'["deploy"] = ini
          BY <1>0, <3>1, <4>1 DEF DeployWrite, TypeOK, HomeType, Stages
        <5>4. DOMAIN ini.nodes = 1..Len(ini.nodes)
          BY <1>n
        <5> QED
          BY <5>1, <5>2, <5>3, <5>4 DEF HomeSound, HomeComplete, HomeFilled, Scripted
      <4>2. CASE ~(vouch["build"] = ini /\ vouch["config"] = ini)
        <5>1. vouch'["deploy"] = NoIni
          BY <1>0, <3>1, <4>2 DEF DeployWrite, TypeOK, Stages
        <5> QED
          BY <5>1 DEF HomeSound
      <4> QED
        BY <4>1, <4>2
    <3>2. CASE ~DeployWrite(p)
      <4>1. vouch' = vouch
        BY <3>2 DEF Deploy, DeployBuilt, DeployConfigured, DeployHome, DeployDir, DeployInst, DeployNode,
         Install, DeployFiles, DeployOpen, DeployWrite
      <4>2. CASE home' = home
        BY <1>0, <4>1, <4>2 DEF Sound, HomeSound, HomeComplete, HomeFilled
      <4>3. CASE home' # home
        <5>1. home.all \in {NoList, << >>}
          BY <1>0, <4>3 DEF Deploy, Deploying, Copying, DeployBuilt, DeployConfigured, DeployHome, DeployDir, DeployInst, DeployNode,
         Install, DeployFiles, DeployOpen, DeployWrite
        <5>2. \A x \in Inis : x.nodes \notin {NoList, << >>}
          BY IniAssumption
        <5>3. vouch["deploy"] = NoIni
          BY <1>0, <5>1, <5>2 DEF Sound, HomeSound, HomeComplete, HomeFilled, TypeOK, Stages
        <5> QED
          BY <4>1, <5>3 DEF HomeSound
      <4> QED
        BY <4>2, <4>3
    <3> QED
      BY <3>1, <3>2
  <2> QED
    BY <2>1, <2>2 DEF Sound
<1> QED
  BY <1>4, <1>5, <1>6, <1>7, <1>8 DEF Working

(* The commands of clean. *)
LEMMA CleanInv ==
    ASSUME IInv, NEW p \in Procs, Clean(p)
    PROVE  (Sound /\ Working)'
<1> USE DEF Goto
<1>0. TypeOK /\ Controlled /\ Sound /\ Control(p)
  BY DEF IInv, Controlled
<1>1. UNCHANGED <<ini, acts, i, err>>
  BY DEF Clean, Ask, RmBuild, RmConfig, RmHome, CleanOnly
<1>2. /\ pc[p] \in CleanCommands
      /\ pc'[p] \in CleanCommands \cup Rest
      /\ \A q \in Procs : q # p => pc'[q] = pc[q]
  BY <1>0 DEF Clean, Ask, RmBuild, RmConfig, RmHome, TypeOK, CleanCommands, Rest
<1>3. ASSUME NEW q \in Procs PROVE Building(q)'
  <2>1. Building(q)
    BY DEF IInv, Working
  <2>2. CASE q = p
    BY <1>2, <2>2, BuildingIdle DEF BuildCommands, CleanCommands, Rest
  <2>3. CASE q # p /\ RmBuild(p)
    BY <1>0, <1>2, <2>3, Alone, BuildingIdle DEF RmBuild
  <2>4. CASE q # p /\ ~RmBuild(p)
    <3>1. build' = build
      BY <2>4 DEF Clean, Ask, RmConfig, RmHome
    <3> QED
      BY <1>1, <1>2, <2>1, <2>4, <3>1, BuildingFrame
  <2> QED
    BY <2>2, <2>3, <2>4
<1>4. ASSUME NEW q \in Procs PROVE Configuring(q)'
  <2>1. Configuring(q)
    BY DEF IInv, Working
  <2>2. CASE q = p
    BY <1>2, <2>2, ConfiguringIdle DEF ConfigCommands, CleanCommands, Rest
  <2>3. CASE q # p /\ RmConfig(p)
    BY <1>0, <1>2, <2>3, Alone, ConfiguringIdle DEF RmConfig
  <2>4. CASE q # p /\ ~RmConfig(p)
    <3>1. config' = config
      BY <2>4 DEF Clean, Ask, RmBuild, RmHome
    <3> QED
      BY <1>1, <1>2, <2>1, <2>4, <3>1, ConfiguringFrame
  <2> QED
    BY <2>2, <2>3, <2>4
<1>5. ASSUME NEW q \in Procs PROVE Deploying(q)'
  <2>1. CASE q = p
    BY <1>2, <2>1, DeployingIdle DEF DeployCommands, CleanCommands, Rest
  <2>2. CASE q # p
    BY <1>0, <1>2, <2>2, Alone, DeployingIdle
  <2> QED
    BY <2>1, <2>2
<1>6. Sound'
  <2>1. CASE RmBuild(p)
    <3>1. UNCHANGED <<config, home>> /\ vouch'["config"] = vouch["config"]
             /\ vouch'["deploy"] = vouch["deploy"] /\ vouch'["build"] = NoIni
      BY <1>0, <2>1 DEF RmBuild, TypeOK, Stages
    <3>2. Made'
      <4>1. PICK src \in SUBSET build.src, ok \in {FALSE, build.ok} :
              \E bin \in SUBSET (build.bin \cap src) : build' = [src |-> src, bin |-> bin, ok |-> ok]
        BY <2>1 DEF RmBuild
      <4>2. build'.bin \subseteq build'.src
        BY <4>1
      <4> QED
        BY <4>2 DEF Made
    <3> QED
      BY <1>0, <3>1, <3>2 DEF Sound, BuildSound, ConfigSound, ConfigComplete, HomeSound, HomeComplete, HomeFilled
  <2>2. CASE RmConfig(p)
    <3>1. UNCHANGED <<build, home>> /\ vouch'["config"] = NoIni
             /\ vouch'["deploy"] = vouch["deploy"] /\ vouch'["build"] = vouch["build"]
      BY <1>0, <2>2 DEF RmConfig, TypeOK, Stages
    <3> QED
      BY <1>0, <3>1 DEF Sound, Made, BuildSound, BuildComplete, ConfigSound, HomeSound, HomeComplete, HomeFilled
  <2>3. CASE RmHome(p)
    <3>1. UNCHANGED <<build, config>> /\ vouch'["config"] = vouch["config"]
             /\ vouch'["deploy"] = NoIni /\ vouch'["build"] = vouch["build"]
      BY <1>0, <2>3 DEF RmHome, TypeOK, Stages
    <3> QED
      BY <1>0, <3>1 DEF Sound, Made, BuildSound, BuildComplete, ConfigSound, ConfigComplete, HomeSound
  <2>4. CASE UNCHANGED <<build, config, home, vouch>>
    BY <1>0, <2>4 DEF Sound, Made, BuildSound, BuildComplete, ConfigSound, ConfigComplete,
                      HomeSound, HomeComplete, HomeFilled
  <2> QED
    BY <2>1, <2>2, <2>3, <2>4 DEF Clean, Ask
<1> QED
  BY <1>3, <1>4, <1>5, <1>6 DEF Working

(* Starting, stopping, editing, and steps of others. *)
LEMMA SoundKept ==
    ASSUME Sound, UNCHANGED <<build, config, home, vouch>>
    PROVE  Sound'
  BY DEF Sound, Made, BuildSound, BuildComplete, ConfigSound, ConfigComplete,
         HomeSound, HomeComplete, HomeFilled

LEMMA OtherInv ==
    ASSUME IInv, NEW p \in Procs, Start(p) \/ Stop(p) \/ Edit \/ UNCHANGED vars
    PROVE  (Sound /\ Working)'
<1> DEFINE First0 == {"x_build", "b_check", "c_check", "d_build"}
<1>0. TypeOK /\ Sound
  BY DEF IInv
<1>1. UNCHANGED <<build, config, home, vouch>>
  BY DEF Start, Stop, Edit, vars
<1>2. Sound'
  BY <1>0, <1>1, SoundKept
<1>3. ASSUME NEW q \in Procs
      PROVE  \/ pc'[q] \in Rest \cup First0
             \/ pc'[q] = pc[q] /\ i'[q] = i[q] /\ ini' = ini
  BY <1>0 DEF Start, Stop, Edit, vars, Goto, First, AfterBuild, AfterConfig, Rest, TypeOK
<1>4. ASSUME NEW q \in Procs PROVE Building(q)' /\ Configuring(q)' /\ Deploying(q)'
  <2>1. Building(q) /\ Configuring(q) /\ Deploying(q)
    BY DEF IInv, Working
  <2>2. CASE pc'[q] \in Rest \cup First0
    BY <2>2, BuildingIdle, ConfiguringIdle, DeployingIdle
       DEF Rest, BuildCommands, ConfigCommands, DeployCommands
  <2>3. CASE pc'[q] = pc[q] /\ i'[q] = i[q] /\ ini' = ini
    BY <1>1, <2>1, <2>3, BuildingFrame, ConfiguringFrame, DeployingFrame
  <2> QED
    BY <1>3, <2>2, <2>3
<1> QED
  BY <1>2, <1>4 DEF Working

LEMMA StepInv ==
    ASSUME TopDirMatches
    PROVE  IInv /\ [Next]_vars => IInv'
<1> SUFFICES ASSUME IInv, [Next]_vars PROVE IInv'
  OBVIOUS
<1>1. TypeOK' /\ Controlled'
  BY StepTypeOK DEF IInv
<1>2. ASSUME NEW p \in Procs, Start(p) \/ Work(p) \/ Stop(p) PROVE (Sound /\ Working)'
  BY <1>2, BuildInv, ConfigInv, DeployInv, CleanInv, OtherInv DEF Work
<1>3. ASSUME Edit \/ UNCHANGED vars PROVE (Sound /\ Working)'
  <2>1. UNCHANGED <<build, config, home, vouch>>
    BY <1>3 DEF Edit, vars
  <2>2. Sound
    BY DEF IInv
  <2>3. Sound'
    BY <2>1, <2>2, SoundKept
  <2>4. ASSUME NEW q \in Procs PROVE (Sound /\ Working)'
    <3>1. Start(q) \/ Stop(q) \/ Edit \/ UNCHANGED vars
      BY <1>3
    <3> QED
      BY <3>1, OtherInv
  <2>5. Working'
    BY <2>4 DEF Working
  <2> QED
    BY <2>3, <2>5
<1> QED
  BY <1>1, <1>2, <1>3 DEF Next, IInv

(* Where every archive unpacks into a directory of its own name,              *)
(* BUILD_SUCCESS stands for a complete build (redis_cluster.sh:217-262),      *)
(* whatever fails, is interrupted, retried or edited in between.              *)
THEOREM BuildIsSound ==
    ASSUME TopDirMatches PROVE Spec => []BuildSound
<1>1. IInv => BuildSound
  BY DEF IInv, Sound
<1> QED
  BY InitInv, StepInv, <1>1, PTL DEF Spec

(* CONFIG_SUCCESS stands for a complete configuration, and CLUSTER_ALL_NODES  *)
(* in it lists every instance once and in order (redis_cluster.sh:265-441).   *)
THEOREM ConfigIsSound ==
    ASSUME TopDirMatches PROVE Spec => []ConfigSound
<1>1. IInv => ConfigSound
  BY DEF IInv, Sound
<1> QED
  BY InitInv, StepInv, <1>1, PTL DEF Spec

(* A home deployed from one ini is complete for this machine's nodes          *)
(* (redis_cluster.sh:444-560).                                                *)
THEOREM HomeIsSound ==
    ASSUME TopDirMatches PROVE Spec => []HomeSound
<1>1. IInv => HomeSound
  BY DEF IInv, Sound
<1> QED
  BY InitInv, StepInv, <1>1, PTL DEF Spec

=============================================================================
