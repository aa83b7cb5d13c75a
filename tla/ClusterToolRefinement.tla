----------------------- MODULE ClusterToolRefinement -----------------------
(***************************************************************************)
(* ClusterTool implements StagedInstall, and a deployed home is kept: both *)
(* from the inductive invariant of ClusterToolProofs.                      *)
(***************************************************************************)
EXTENDS ClusterToolProofs

LEMMA IInvFacts ==
    ASSUME IInv, NEW p \in Procs
    PROVE  TypeOK /\ Building(p) /\ Configuring(p) /\ Deploying(p)
  BY DEF IInv, Working

(* What deploy writes to before its last command is not yet a deployed home. *)
LEMMA DeployWrites ==
    ASSUME IInv, NEW p \in Procs, Deploy(p), home' # home
    PROVE  home.all \in {NoList, << >>}
<1>1. pc[p] \in Copying \cup {"d_write"}
  BY DEF Deploy, DeployBuilt, DeployConfigured, DeployHome, DeployDir, DeployInst, DeployNode,
         Install, DeployFiles, DeployOpen, DeployWrite, Copying
<1>2. Deploying(p)
  BY IInvFacts
<1> QED
  BY <1>1, <1>2 DEF Deploying

LEMMA StepKeepsHome ==
    ASSUME IInv, [Next]_vars, home.all \notin {NoList, << >>}, home' # home
    PROVE  \E p \in Procs : pc[p] = "r_home"
<1>1. ASSUME NEW p \in Procs, Start(p) \/ Build(p) \/ Config(p) \/ Stop(p) PROVE FALSE
  BY <1>1 DEF Start, Stop, Build, BuildCheck, BuildDirs, Untar, Make, BuildMark, BuildOnly,
              Config, ConfigCheck, ConfigOpen, ConfigAppend, ConfigConf, ConfigNode, ConfigTail,
              ConfigMark, ConfigOnly
<1>2. ASSUME NEW p \in Procs, Deploy(p) PROVE FALSE
  BY <1>2, DeployWrites
<1>3. ASSUME NEW p \in Procs, Clean(p) PROVE pc[p] = "r_home"
  BY <1>3 DEF Clean, Ask, RmBuild, RmConfig, RmHome
<1>4. ASSUME Edit \/ UNCHANGED vars PROVE FALSE
  BY <1>4 DEF Edit, vars
<1> QED
  BY <1>1, <1>2, <1>3, <1>4 DEF Next, Work

(* A second deploy does not mix its files into a deployed home              *)
(* (redis_cluster.sh:457-460): only a removal changes one.                  *)
THEOREM HomeIsKept ==
    ASSUME TopDirMatches PROVE Spec => DeployedHomeKept
<1>1. IInv /\ [Next]_vars =>
        [home.all \notin {NoList, << >>} /\ home' # home => \E p \in Procs : pc[p] = "r_home"]_vars
  BY StepKeepsHome
<1> QED
  BY InitInv, StepInv, <1>1, PTL DEF Spec, DeployedHomeKept

-----------------------------------------------------------------------------
(* The refinement. *)

Listing == IF config.ok THEN config.all ELSE NoList
Installed == IF home.all = << >> THEN NoList ELSE home.all

LEMMA BuildRefines ==
    ASSUME IInv, NEW p \in Procs, Build(p)
    PROVE  [Staged!Next]_(Staged!vars)
<1>1. Building(p)
  BY IInvFacts
<1>2. UNCHANGED <<config, home>>
  BY DEF Build, BuildCheck, BuildDirs, Untar, Make, BuildMark, BuildOnly
<1>3. CASE BuildMark(p)
  <2>1. ~build.ok /\ build' = [build EXCEPT !.ok = TRUE]
    BY <1>1, <1>3 DEF BuildMark, Building, BuildCommands
  <2>2. build'.ok
    BY <2>1, IInvFacts DEF TypeOK, BuildType
  <2>3. build.ok = FALSE /\ build'.ok = TRUE
    BY <2>1, <2>2, IInvFacts DEF TypeOK, BuildType
  <2> QED
    BY <1>2, <2>3 DEF Staged!Next, Staged!Build
<1>4. CASE ~BuildMark(p)
  <2>1. build'.ok = build.ok
    BY <1>4, IInvFacts DEF Build, BuildCheck, BuildDirs, Untar, Make, BuildOnly, TypeOK, BuildType
  <2> QED
    BY <1>2, <2>1 DEF Staged!vars
<1> QED
  BY <1>3, <1>4

LEMMA ConfigRefines ==
    ASSUME IInv, NEW p \in Procs, Config(p)
    PROVE  [Staged!Next]_(Staged!vars)
<1>1. Configuring(p) /\ TypeOK
  BY IInvFacts
<1>2. UNCHANGED <<build, home, ini>>
  BY DEF Config, ConfigCheck, ConfigOpen, ConfigAppend, ConfigConf, ConfigNode, ConfigTail,
         ConfigMark, ConfigOnly
<1>3. CASE ConfigMark(p)
  <2>1. ~config.ok /\ Listed(Len(ini.nodes)) /\ config' = [config EXCEPT !.ok = TRUE]
    BY <1>1, <1>3 DEF ConfigMark, Configuring, ConfigCommands
  <2>2. config'.ok /\ config'.all = config.all
    BY <2>1, <1>1 DEF TypeOK, ConfigType
  <2>3. config.all = ini.nodes
    BY <2>1, IniFacts, <1>1, SeqEqual DEF Listed
  <2>4. Listing = NoList /\ Listing' = ini.nodes
    BY <2>1, <2>2, <2>3 DEF Listing
  <2>5. ini.nodes \in {x.nodes : x \in Inis}
    BY <1>1 DEF TypeOK
  <2> QED
    BY <1>2, <2>4, <2>5 DEF Staged!Next, Staged!Configure, Listing
<1>4. CASE ~ConfigMark(p)
  <2>1. config' = config \/ (~config.ok /\ ~config'.ok)
    <3>1. config \in ConfigType
      BY <1>1 DEF TypeOK
    <3>2. (pc[p] = "c_check" /\ config' = config) \/ pc[p] \in ConfigCommands \ {"c_check"}
      BY <1>4 DEF Config, ConfigCheck, ConfigOpen, ConfigAppend, ConfigConf, ConfigNode,
                  ConfigTail, ConfigOnly, ConfigCommands
    <3>3. CASE ConfigCheck(p)
      BY <3>3 DEF ConfigCheck
    <3>4. CASE ConfigOpen(p) \/ ConfigAppend(p)
      <4>1. config'.ok = config.ok
        BY <3>1, <3>4 DEF ConfigOpen, ConfigAppend, ConfigType
      <4> QED
        BY <1>1, <3>2, <4>1 DEF Configuring
    <3>5. CASE ConfigConf(p)
      <4>1. config'.ok = config.ok
        BY <3>1, <3>5 DEF ConfigConf, ConfigType
      <4> QED
        BY <1>1, <3>2, <4>1 DEF Configuring
    <3>6. CASE ConfigNode(p) \/ ConfigTail(p)
      <4>1. config'.ok = config.ok
        BY <3>1, <3>6 DEF ConfigNode, ConfigTail, ConfigType
      <4> QED
        BY <1>1, <3>2, <4>1 DEF Configuring
    <3> QED
      BY <1>4, <3>3, <3>4, <3>5, <3>6 DEF Config
  <2>2. Listing' = Listing
    BY <2>1 DEF Listing
  <2> QED
    BY <1>2, <2>2 DEF Staged!vars, Listing
<1> QED
  BY <1>3, <1>4

LEMMA DeployRefines ==
    ASSUME IInv, NEW p \in Procs, Deploy(p)
    PROVE  [Staged!Next]_(Staged!vars)
<1>1. Deploying(p) /\ TypeOK
  BY IInvFacts
<1>2. UNCHANGED <<build, config>>
  BY DEF Deploy, DeployBuilt, DeployConfigured, DeployHome, DeployDir, DeployInst, DeployNode,
         Install, DeployFiles, DeployOpen, DeployWrite, DeployOnly
<1>3. CASE DeployWrite(p)
  <2>1. /\ build.ok /\ config.ok /\ home.all = << >> /\ config.all # NoList
        /\ home' = [home EXCEPT !.all = config.all]
    BY <1>1, <1>3 DEF DeployWrite, Deploying, DeployCommands
  <2>2. home'.all = config.all
    BY <2>1, <1>1 DEF TypeOK, HomeType
  <2>3. build.ok = TRUE /\ Listing = config.all /\ Installed = NoList
    BY <2>1, <1>1 DEF Listing, Installed, TypeOK, BuildType
  <2>4. CASE config.all = << >>
    BY <1>2, <2>2, <2>3, <2>4 DEF Staged!vars, Installed
  <2>5. CASE config.all # << >>
    <3>1. Installed' = Listing
      BY <2>2, <2>3, <2>5 DEF Installed
    <3> QED
      BY <1>2, <2>1, <2>3, <3>1 DEF Staged!Next, Staged!Install, Installed, Listing
  <2> QED
    BY <2>4, <2>5
<1>4. CASE ~DeployWrite(p)
  <2>1. home'.all = home.all \/ (home.all = NoList /\ home'.all = << >>)
    <3>1. home \in HomeType
      BY <1>1 DEF TypeOK
    <3>2. CASE DeployOpen(p)
      <4>1. home.all = NoList
        BY <1>1, <3>2 DEF DeployOpen, Deploying, Copying
      <4> QED
        BY <3>1, <3>2, <4>1 DEF DeployOpen, HomeType
    <3>3. CASE DeployBuilt(p) \/ DeployConfigured(p) \/ DeployHome(p)
      BY <3>3 DEF DeployBuilt, DeployConfigured, DeployHome
    <3>4. CASE DeployDir(p) \/ DeployFiles(p)
      BY <3>1, <3>4 DEF DeployDir, DeployFiles, HomeType
    <3>5. CASE DeployInst(p)
      BY <3>1, <3>5 DEF DeployInst, HomeType
    <3>6. CASE DeployNode(p)
      BY <3>1, <3>6 DEF DeployNode, HomeType
    <3>7. ASSUME NEW a, NEW at, NEW next, Install(p, a, at, next) PROVE home'.all = home.all
      BY <3>1, <3>7 DEF Install, HomeType
    <3> QED
      BY <1>4, <3>2, <3>3, <3>4, <3>5, <3>6, <3>7 DEF Deploy
  <2>2. Installed' = Installed
    BY <2>1 DEF Installed
  <2> QED
    BY <1>2, <2>2 DEF Staged!vars, Installed
<1> QED
  BY <1>3, <1>4

LEMMA CleanRefines ==
    ASSUME IInv, NEW p \in Procs, Clean(p)
    PROVE  [Staged!Next]_(Staged!vars)
<1>1. TypeOK
  BY IInvFacts
<1>2. /\ build'.ok \in {FALSE, build.ok}
      /\ config'.ok \in {FALSE, config.ok} /\ config'.all \in {NoList, config.all}
      /\ home'.all \in {NoList, home.all}
  <2>1. CASE RmBuild(p)
    <3>1. PICK ok \in {FALSE, build.ok} : \E src, bin : build' = [src |-> src, bin |-> bin, ok |-> ok]
      BY <2>1 DEF RmBuild
    <3>2. build'.ok = ok
      BY <3>1
    <3>3. UNCHANGED <<config, home>>
      BY <2>1 DEF RmBuild
    <3> QED
      BY <3>1, <3>2, <3>3
  <2>2. CASE RmConfig(p)
    <3>1. PICK ok \in {FALSE, config.ok}, all \in {NoList, config.all} :
            \E conf, scripts, misc : config' = [all |-> all, conf |-> conf, scripts |-> scripts,
                                               misc |-> misc, ok |-> ok]
      BY <2>2 DEF RmConfig
    <3>2. config'.ok = ok /\ config'.all = all
      BY <3>1
    <3>3. UNCHANGED <<build, home>>
      BY <2>2 DEF RmConfig
    <3> QED
      BY <3>1, <3>2, <3>3
  <2>3. CASE RmHome(p)
    BY <1>1, <2>3 DEF RmHome, TypeOK, HomeType
  <2>4. CASE UNCHANGED <<build, config, home>>
    BY <2>4
  <2> QED
    BY <2>1, <2>2, <2>3, <2>4 DEF Clean, Ask
<1>3. Listing' \in {NoList, Listing}
  BY <1>2 DEF Listing
<1>4. Installed' \in {NoList, Installed}
  BY <1>2 DEF Installed
<1> QED
  BY <1>2, <1>3, <1>4 DEF Staged!Next, Staged!Remove, Listing, Installed

(* The stages, command by command, with failures, interrupted removals and  *)
(* invocations that run side by side, implement StagedInstall: what is      *)
(* installed is always the list of one finished configuration, and nothing  *)
(* but a removal changes it (redis_cluster.sh:166-560).                     *)
THEOREM StagesImplemented ==
    ASSUME TopDirMatches PROVE Spec => ImplementsStages
<1>1. Init => Staged!Init
  BY DEF Init, Staged!Init, EmptyBuild, EmptyConfig, EmptyHome
<1>2. IInv /\ [Next]_vars => [Staged!Next]_(Staged!vars)
  <2> SUFFICES ASSUME IInv, [Next]_vars PROVE [Staged!Next]_(Staged!vars)
    OBVIOUS
  <2>1. ASSUME Edit \/ UNCHANGED vars \/ \E p \in Procs : Start(p) \/ Stop(p)
        PROVE  UNCHANGED Staged!vars
    BY <2>1 DEF Edit, vars, Start, Stop, Staged!vars
  <2> QED
    BY <2>1, BuildRefines, ConfigRefines, DeployRefines, CleanRefines DEF Next, Work
<1> QED
  BY InitInv, StepInv, <1>1, <1>2, PTL DEF Spec, ImplementsStages, Staged!Spec

=============================================================================
