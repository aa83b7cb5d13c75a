------------------------- MODULE ClusterToolMarkers -------------------------
(***************************************************************************)
(* What the marker files are worth by themselves: proofs about operators   *)
(* who neither edit the configuration nor clean.  The history variable     *)
(* vouch then knows of every marker that is there.                         *)
(***************************************************************************)
EXTENDS ClusterToolProofs

Steady == (\E x : Inis = {x}) /\ \A p \in Procs : ~MayClean(p)

\* What CLUSTER_ALL_NODES in the home stands for.
Deployed == home.all # NoList => HomeFilled(ini) /\ home.all \in {<< >>, ini.nodes}

Marked ==
    /\ build.ok => vouch["build"] = ini
    /\ config.ok => vouch["config"] = ini
    /\ Deployed

NoError == \A p \in Procs : err[p] = FALSE

LEMMA OneIni ==
    ASSUME TypeOK, TypeOK', Steady
    PROVE  ini' = ini
  BY DEF TypeOK, Steady

LEMMA DeployedKept ==
    ASSUME Deployed, UNCHANGED <<home, ini>>
    PROVE  Deployed'
  BY DEF Deployed, HomeFilled

LEMMA NoClean ==
    ASSUME Controlled, Steady, NEW p \in Procs
    PROVE  ~Clean(p)
<1> SUFFICES ASSUME Clean(p) PROVE FALSE
  OBVIOUS
<1>1. pc[p] \in CleanCommands
  BY DEF Clean, Ask, RmBuild, RmConfig, RmHome, CleanCommands
<1>2. "clean" \in acts[p] /\ acts[p] \in Requests[p]
  BY <1>1 DEF Controlled, Control, CleanCommands, Rest
<1> QED
  BY <1>2 DEF Steady, MayClean

\* An install finds its tree: the build that is believed is of this ini.
LEMMA TreesThere ==
    ASSUME IInv, Marked, build.ok
    PROVE  ini.redis \in build.src /\ ini.hiredis \in build.src
<1>1. vouch["build"] # NoIni /\ vouch["build"] = ini
  BY IniAssumption DEF IInv, TypeOK, Marked
<1>2. BuildComplete(ini) /\ Made
  BY <1>1 DEF IInv, Sound, BuildSound
<1> QED
  BY <1>2 DEF BuildComplete, Made

LEMMA BuildMarked ==
    ASSUME IInv, Marked, NoError, NEW p \in Procs, Build(p)
    PROVE  Marked' /\ NoError'
<1> USE DEF Goto, BuildOnly
<1>1. Building(p) /\ TypeOK
  BY DEF IInv, Working
<1>d. Deployed'
  BY DeployedKept DEF Marked, Build, BuildCheck, BuildDirs, Untar, Make, BuildMark
<1>2. CASE BuildCheck(p) \/ BuildDirs(p)
  BY <1>2, <1>d DEF BuildCheck, BuildDirs, Marked, NoError
<1>3. CASE \/ Untar(p, ini.redis, "b_tar_redis", "b_tar_hiredis")
           \/ Untar(p, ini.hiredis, "b_tar_hiredis", "b_make_redis")
  <2>1. build'.ok = build.ok /\ UNCHANGED <<config, home, ini, vouch, err>>
    BY <1>1, <1>3 DEF Untar, TypeOK, BuildType
  <2> QED
    BY <1>d, <2>1 DEF Marked, NoError
<1>4. CASE \/ Make(p, ini.redis, "b_make_redis", "b_make_hiredis")
           \/ Make(p, ini.hiredis, "b_make_hiredis", "b_mark")
  <2>1. ini.redis \in build.src /\ ini.hiredis \in build.src
    BY <1>1, <1>4 DEF Make, Building, Extracted
  <2>2. build'.ok = build.ok /\ UNCHANGED <<config, home, ini, vouch, err>>
    BY <1>1, <1>4, <2>1 DEF Make, TypeOK, BuildType
  <2> QED
    BY <1>d, <2>2 DEF Marked, NoError
<1>5. CASE BuildMark(p)
  BY <1>d, <1>1, <1>5 DEF BuildMark, TypeOK, Stages, Marked, NoError
<1> QED
  BY <1>2, <1>3, <1>4, <1>5 DEF Build

LEMMA ConfigMarked ==
    ASSUME IInv, Marked, NoError, NEW p \in Procs, Config(p)
    PROVE  Marked' /\ NoError'
<1> USE DEF Goto, ConfigOnly
<1>1. TypeOK
  BY DEF IInv
<1>d. Deployed'
  BY DeployedKept DEF Marked, Config, ConfigCheck, ConfigOpen, ConfigAppend, ConfigConf, ConfigNode,
                      ConfigTail, ConfigMark
<1>2. CASE ConfigMark(p)
  BY <1>d, <1>1, <1>2 DEF ConfigMark, TypeOK, Stages, Marked, NoError
<1>3. CASE ~ConfigMark(p)
  <2>1. config'.ok = config.ok /\ UNCHANGED <<build, home, ini, vouch, err>>
    BY <1>1, <1>3 DEF Config, ConfigCheck, ConfigOpen, ConfigAppend, ConfigConf, ConfigNode,
                      ConfigTail, TypeOK, ConfigType
  <2> QED
    BY <1>d, <2>1 DEF Marked, NoError
<1> QED
  BY <1>2, <1>3

(* The two last steps of deploy find everything else in place. *)
LEMMA FilledBeforeList ==
    ASSUME IInv, Marked, NEW p \in Procs, pc[p] \in {"d_open", "d_write"}
    PROVE  HomeFilled(ini) /\ build.ok /\ config.ok
<1>1. Deploying(p) /\ Sound /\ TypeOK
  BY DEF IInv, Working
<1>2. build.ok /\ config.ok
  BY <1>1 DEF Deploying, DeployCommands
<1>3. ini.redis \in home.bin /\ ini.hiredis \in home.bin
  BY <1>1, <1>2 DEF Marked, Deploying, HasRedis, HasBoth
<1>4. \A k \in 1..Len(ini.nodes) : ini.nodes[k].node \in Here =>
          ini.nodes[k] \in home.conf /\ Scripted(ini.nodes[k].node)
  BY <1>1 DEF Deploying, Copied
<1>5. "auth" \in home.misc /\ "env" \in home.misc
  BY <1>1 DEF Deploying
<1>6. DOMAIN ini.nodes = 1..Len(ini.nodes)
  BY <1>1, IniFacts
<1> QED
  BY <1>2, <1>3, <1>4, <1>5, <1>6 DEF HomeFilled, Scripted

LEMMA DeployMarked ==
    ASSUME IInv, Marked, NoError, NEW p \in Procs, Deploy(p)
    PROVE  Marked' /\ NoError'
<1> USE DEF Goto, DeployOnly
<1>1. Deploying(p) /\ TypeOK
  BY DEF IInv, Working
<1>0. ini' = ini
  BY DEF Deploy, DeployBuilt, DeployConfigured, DeployHome, DeployDir, DeployInst, DeployNode,
         Install, DeployFiles, DeployOpen, DeployWrite
<1>2. CASE DeployWrite(p)
  <2>1. HomeFilled(ini) /\ config.ok
    BY <1>2, FilledBeforeList DEF DeployWrite
  <2>2. vouch["config"] = ini /\ ini # NoIni
    BY <1>1, <2>1, IniAssumption DEF Marked, TypeOK
  <2>3. config.all = ini.nodes
    BY <2>2 DEF IInv, Sound, ConfigSound, ConfigComplete
  <2>4. /\ home'.all = ini.nodes /\ home'.bin = home.bin /\ home'.conf = home.conf
        /\ home'.scripts = home.scripts /\ home'.misc = home.misc
    BY <1>1, <1>2, <2>3 DEF DeployWrite, TypeOK, HomeType
  <2>5. Deployed'
    BY <1>0, <2>1, <2>4 DEF Deployed, HomeFilled
  <2>6. /\ UNCHANGED <<build, config, err>>
        /\ vouch'["build"] = vouch["build"] /\ vouch'["config"] = vouch["config"]
    BY <1>1, <1>2 DEF DeployWrite, TypeOK, Stages
  <2> QED
    BY <1>0, <2>5, <2>6 DEF Marked, NoError
<1>3. CASE DeployOpen(p)
  <2>1. HomeFilled(ini)
    BY <1>3, FilledBeforeList DEF DeployOpen
  <2>2. UNCHANGED <<build, config, ini, vouch, err>>
    BY <1>3 DEF DeployOpen
  <2>3. CASE home' = home
    BY <2>2, <2>3, DeployedKept DEF Marked, NoError
  <2>4. CASE home' = [home EXCEPT !.all = << >>]
    <3>1. /\ home'.all = << >> /\ home'.bin = home.bin /\ home'.conf = home.conf
          /\ home'.scripts = home.scripts /\ home'.misc = home.misc
      BY <1>1, <2>4 DEF TypeOK, HomeType
    <3>2. Deployed'
      BY <1>0, <2>1, <3>1 DEF Deployed, HomeFilled
    <3> QED
      BY <2>2, <3>2 DEF Marked, NoError
  <2> QED
    BY <1>3, <2>3, <2>4 DEF DeployOpen
<1>4. CASE \/ Install(p, ini.redis, "d_make_redis", "d_make_hiredis")
           \/ Install(p, ini.hiredis, "d_make_hiredis", "d_files")
  <2>1. build.ok /\ home.all = NoList
    BY <1>1, <1>4 DEF Install, Deploying, DeployCommands, Copying
  <2>2. ini.redis \in build.src /\ ini.hiredis \in build.src
    BY <2>1, TreesThere
  <2>3. home'.all = home.all /\ UNCHANGED <<build, config, ini, vouch, err>>
    BY <1>1, <1>4, <2>2 DEF Install, TypeOK, HomeType
  <2> QED
    BY <2>1, <2>3 DEF Marked, NoError, Deployed
<1>5. CASE DeployDir(p) \/ DeployInst(p) \/ DeployNode(p) \/ DeployFiles(p)
  <2>1. home.all = NoList
    BY <1>1, <1>5 DEF DeployDir, DeployInst, DeployNode, DeployFiles, Deploying, Copying
  <2>2. home'.all = home.all /\ UNCHANGED <<build, config, ini, vouch, err>>
    BY <1>1, <1>5 DEF DeployDir, DeployInst, DeployNode, DeployFiles, TypeOK, HomeType
  <2> QED
    BY <2>1, <2>2 DEF Marked, NoError, Deployed
<1>6. CASE DeployBuilt(p) \/ DeployConfigured(p) \/ DeployHome(p)
  <2>1. UNCHANGED <<build, config, home, ini, vouch, err>>
    BY <1>6 DEF DeployBuilt, DeployConfigured, DeployHome
  <2> QED
    BY <2>1, DeployedKept DEF Marked, NoError
<1> QED
  BY <1>2, <1>3, <1>4, <1>5, <1>6 DEF Deploy

LEMMA StepMarked ==
    ASSUME TopDirMatches, Steady
    PROVE  IInv /\ Marked /\ NoError /\ [Next]_vars => (IInv /\ Marked /\ NoError)'
<1> SUFFICES ASSUME IInv, Marked, NoError, [Next]_vars PROVE (IInv /\ Marked /\ NoError)'
  OBVIOUS
<1>1. IInv'
  BY StepInv
<1>2. ini' = ini
  BY <1>1, OneIni DEF IInv
<1>3. ASSUME NEW p \in Procs, Work(p) PROVE (Marked /\ NoError)'
  BY <1>3, BuildMarked, ConfigMarked, DeployMarked, NoClean DEF Work, IInv
<1>4. ASSUME NEW p \in Procs, Start(p) \/ Stop(p) PROVE (Marked /\ NoError)'
  <2>1. UNCHANGED <<build, config, home, vouch>> /\ err \in [Procs -> BOOLEAN]
    BY <1>4 DEF Start, Stop, IInv, TypeOK
  <2>2. err' = [err EXCEPT ![p] = FALSE] \/ err' = err
    BY <1>4 DEF Start, Stop
  <2> QED
    BY <1>2, <2>1, <2>2, DeployedKept DEF Marked, NoError
<1>5. CASE Edit \/ UNCHANGED vars
  <2>1. UNCHANGED <<build, config, home, vouch, err>>
    BY <1>5 DEF Edit, vars
  <2> QED
    BY <1>1, <1>2, <2>1, DeployedKept DEF Marked, NoError
<1> QED
  BY <1>1, <1>3, <1>4, <1>5 DEF Next

LEMMA InitMarked ==
    ASSUME Init
    PROVE  IInv /\ Marked /\ NoError
  BY InitInv DEF Init, Marked, Deployed, NoError, EmptyBuild, EmptyConfig, EmptyHome

LEMMA MarkedBelieved ==
    ASSUME IInv, Marked
    PROVE  MarkersBelieved
<1>1. ini # NoIni
  BY IniAssumption DEF IInv, TypeOK
<1> QED
  BY <1>1 DEF IInv, Sound, Marked, Deployed, MarkersBelieved, BuildSound, ConfigSound

(* Whatever fails and is retried, and whichever stages run side by side,     *)
(* while the configuration stays as it is and nothing is cleaned: the two     *)
(* success files mean a complete stage (redis_cluster.sh:261, 440), and       *)
(* CLUSTER_ALL_NODES, empty or whole, a home in which nothing else is         *)
(* missing (457, 557).  For every number of operators, where every archive    *)
(* unpacks into its own directory.                                            *)
THEOREM MarkersStandForTheirFiles ==
    ASSUME TopDirMatches PROVE Spec => []MarkersBelieved
<1>1. CASE Steady
  <2>1. Init => IInv /\ Marked /\ NoError
    BY InitMarked
  <2>2. IInv /\ Marked /\ NoError => MarkersBelieved
    BY MarkedBelieved
  <2>3. IInv /\ Marked /\ NoError /\ [Next]_vars => (IInv /\ Marked /\ NoError)'
    BY <1>1, StepMarked
  <2> QED
    BY <2>1, <2>2, <2>3, PTL DEF Spec
<1>2. CASE ~Steady
  <2>1. MarkersBelieved
    BY <1>2 DEF Steady, MarkersBelieved
  <2> QED
    BY <2>1, PTL
<1> QED
  BY <1>1, <1>2

(* No failed command is passed over (redis_cluster.sh:48), as long as the     *)
(* configuration stays as it is and nothing is cleaned: the cd before a make  *)
(* (256, 259, 547) then finds its directory.                                  *)
THEOREM NoErrorPassedOver ==
    ASSUME TopDirMatches, Steady PROVE Spec => []ErrorsExit
<1>1. Init => IInv /\ Marked /\ NoError
  BY InitMarked
<1>2. IInv /\ Marked /\ NoError => ErrorsExit
  BY DEF NoError, ErrorsExit
<1>3. IInv /\ Marked /\ NoError /\ [Next]_vars => (IInv /\ Marked /\ NoError)'
  BY StepMarked
<1> QED
  BY <1>1, <1>2, <1>3, PTL DEF Spec

=============================================================================
