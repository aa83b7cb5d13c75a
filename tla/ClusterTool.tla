----------------------------- MODULE ClusterTool -----------------------------
(***************************************************************************)
(* redis_cluster.sh: the life of one cluster id on one machine.            *)
(*                                                                         *)
(* An invocation of the script is a process.  It runs either clean or, in  *)
(* this order, the stages build, config and deploy it was asked for, one   *)
(* command after the other.  A stage ends by writing a marker file:        *)
(* BUILD_SUCCESS, CONFIG_SUCCESS, and for deploy CLUSTER_ALL_NODES, and    *)
(* the markers are all that a later invocation looks at.  Between two      *)
(* commands an invocation may be killed, and any command may fail: with    *)
(* errexit both end the invocation where it stands.                        *)
(*                                                                         *)
(* Directories are records of what they hold.  The contents of scripts and *)
(* configuration files are abstracted to their presence, except for        *)
(* CLUSTER_ALL_NODES, whose lines create_cluster.sh reads.  An instance is *)
(* a record [node, port].  The branches of config and deploy that need     *)
(* tls_enabled = "yes" after line 290 are never taken (see README.md).     *)
(***************************************************************************)
EXTENDS Naturals, Sequences

CONSTANTS
    Procs,      \* invocations that may run at the same time
    Requests,   \* Requests[p]: the action sets p may be started with
    Inis,       \* values of redis_cluster.ini and cluster_nodes.cfg
    Archives,   \* packages present under pkgs/, without .tar.gz
    TopDir,     \* TopDir[a]: the top directory inside archive a
    Nodes,      \* node ids
    Ports,      \* TCP ports
    Here,       \* nodes that deploy takes for the current machine
    NoIni,      \* no ini is vouched for
    NoList      \* CLUSTER_ALL_NODES does not exist

Stages == {"build", "config", "deploy"}

\* $redis_name-$redis_verno and $hiredis_name-$hiredis_verno of every ini.
Packages == UNION {{x.redis, x.hiredis} : x \in Inis}

\* The stages an invocation of p may ever be asked for.
Touches(p) == (UNION Requests[p]) \cap Stages

MayClean(p) == \E r \in Requests[p] : "clean" \in r

Instances == [node : Nodes, port : Ports]

ASSUME RequestsAssumption == Requests \in [Procs -> SUBSET SUBSET (Stages \cup {"clean"})]

ASSUME HereAssumption == Here \subseteq Nodes

ASSUME IniAssumption ==
    /\ NoIni \notin Inis
    /\ NoList \notin Seq(Instances)
    /\ \A x \in Inis : x.redis # x.hiredis /\ x.nodes \in Seq(Instances) /\ x.nodes # << >>

\* The script takes no lock.  Invocations that run at the same time must not
\* share a stage, and none may clean while another deploys.
ASSUME NoConflict ==
    \A p, q \in Procs : p # q => /\ Touches(p) \cap Touches(q) = {}
                                 /\ "deploy" \in Touches(p) => ~MayClean(q)

VARIABLES
    build,      \* $build_dir/$clusterid: source trees, trees made, marker
    config,     \* $config_dir/$clusterid
    home,       \* $cluster_parent_dir/$clusterid
    ini,        \* the cluster's configuration files as they are now
    vouch,      \* history: the ini each marker stands for
    pc,         \* the command each invocation is about to run
    acts,       \* its actions
    i,          \* its position in the list of instances
    err         \* history: a command of it failed without ending it
vars == <<build, config, home, ini, vouch, pc, acts, i, err>>

EmptyBuild  == [src |-> {}, bin |-> {}, ok |-> FALSE]
EmptyConfig == [all |-> NoList, conf |-> {}, scripts |-> {}, misc |-> {}, ok |-> FALSE]
EmptyHome   == [dir |-> FALSE, conf |-> {}, scripts |-> {}, bin |-> {}, misc |-> {}, all |-> NoList]

Rest == {"idle", "done", "failed"}

Init ==
    /\ build = EmptyBuild
    /\ config = EmptyConfig
    /\ home = EmptyHome
    /\ ini \in Inis
    /\ vouch = [s \in Stages |-> NoIni]
    /\ pc = [p \in Procs |-> "idle"]
    /\ acts = [p \in Procs |-> {}]
    /\ i = [p \in Procs |-> 1]
    /\ err = [p \in Procs |-> FALSE]

Goto(p, l) == pc' = [pc EXCEPT ![p] = l]

\* The dispatch at the end of the script.
AfterConfig(r) == IF "deploy" \in r THEN "d_build" ELSE "done"
AfterBuild(r)  == IF "config" \in r THEN "c_check" ELSE AfterConfig(r)
First(r) == IF "clean" \in r THEN "x_build"
            ELSE IF "build" \in r THEN "b_check" ELSE AfterBuild(r)

\* A new invocation with one of the action sets p may be given.
Start(p) ==
    /\ pc[p] \in Rest
    /\ \E r \in Requests[p] : acts' = [acts EXCEPT ![p] = r] /\ Goto(p, First(r))
    /\ i' = [i EXCEPT ![p] = 1]
    /\ err' = [err EXCEPT ![p] = FALSE]
    /\ UNCHANGED <<build, config, home, ini, vouch>>

\* The operator edits the configuration files while no invocation runs.
Edit ==
    /\ \A p \in Procs : pc[p] \in Rest
    /\ ini' \in Inis
    /\ UNCHANGED <<build, config, home, vouch, pc, acts, i, err>>

\* A command fails, a prompt meets end of input, or the invocation is killed.
Stop(p) ==
    /\ pc[p] \notin Rest
    /\ Goto(p, "failed")
    /\ UNCHANGED <<build, config, home, ini, vouch, acts, i, err>>

-----------------------------------------------------------------------------
(* build() *)

BuildOnly == UNCHANGED <<config, home, ini, acts, i>>

\* if [[ -f BUILD_SUCCESS ]]: the tree is complete, refuse.
BuildCheck(p) ==
    /\ pc[p] = "b_check"
    /\ Goto(p, IF build.ok THEN "failed" ELSE "b_dirs")
    /\ BuildOnly /\ UNCHANGED <<build, vouch, err>>

\* Both packages must be there, and neither output directory.
BuildDirs(p) ==
    /\ pc[p] = "b_dirs"
    /\ Goto(p, IF {ini.redis, ini.hiredis} \subseteq Archives \ build.src
               THEN "b_tar_redis" ELSE "failed")
    /\ BuildOnly /\ UNCHANGED <<build, vouch, err>>

\* tar -xzf creates the directory the archive names, whatever its file name.
Untar(p, a, at, next) ==
    /\ pc[p] = at
    /\ build' = [build EXCEPT !.src = @ \cup {TopDir[a]}]
    /\ Goto(p, next)
    /\ BuildOnly /\ UNCHANGED <<vouch, err>>

\* Faulty variant: make || true.
MakeUnchecked(p, a, at, next) ==
    /\ pc[p] = at
    /\ build' \in {build, [build EXCEPT !.bin = @ \cup ({a} \cap build.src)]}
    /\ Goto(p, next)
    /\ BuildOnly /\ UNCHANGED <<vouch, err>>

\* cd dir && make: where cd fails, make is skipped and errexit does not act.
Make(p, a, at, next) ==
    /\ pc[p] = at
    /\ IF a \in build.src
       THEN /\ build' = [build EXCEPT !.bin = @ \cup {a}]
            /\ UNCHANGED err
       ELSE /\ err' = [err EXCEPT ![p] = TRUE]
            /\ UNCHANGED build
    /\ Goto(p, next)
    /\ BuildOnly /\ UNCHANGED vouch

BuildMark(p) ==
    /\ pc[p] = "b_mark"
    /\ build' = [build EXCEPT !.ok = TRUE]
    /\ vouch' = [vouch EXCEPT !["build"] = ini]
    /\ Goto(p, AfterBuild(acts[p]))
    /\ BuildOnly /\ UNCHANGED err

Build(p) ==
    \/ BuildCheck(p)
    \/ BuildDirs(p)
    \/ Untar(p, ini.redis, "b_tar_redis", "b_tar_hiredis")
    \/ Untar(p, ini.hiredis, "b_tar_hiredis", "b_make_redis")
    \/ Make(p, ini.redis, "b_make_redis", "b_make_hiredis")
    \/ Make(p, ini.hiredis, "b_make_hiredis", "b_mark")
    \/ BuildMark(p)

-----------------------------------------------------------------------------
(* config() *)

ConfigOnly == UNCHANGED <<build, home, ini, acts, err>>

\* Whether instance k is the last port of its node.
LastOfNode(k) == k = Len(ini.nodes) \/ ini.nodes[k].node # ini.nodes[k + 1].node

\* Where a loop over the instances goes after position k.
LoopNext(k, again, out) == IF k = Len(ini.nodes) THEN out ELSE again

ConfigCheck(p) ==
    /\ pc[p] = "c_check"
    /\ Goto(p, IF config.ok THEN "failed" ELSE "c_open")
    /\ ConfigOnly /\ UNCHANGED <<config, vouch, i>>

\* Faulty variant: the file of an interrupted run is not truncated.
ConfigOpenAppends(p) ==
    /\ pc[p] = "c_open"
    /\ config' = [config EXCEPT !.all = IF @ = NoList THEN << >> ELSE @]
    /\ i' = [i EXCEPT ![p] = 1]
    /\ Goto(p, "c_append")
    /\ ConfigOnly /\ UNCHANGED vouch

\* > CLUSTER_ALL_NODES: what an earlier run left in it is dropped.
ConfigOpen(p) ==
    /\ pc[p] = "c_open"
    /\ config' = [config EXCEPT !.all = << >>]
    /\ i' = [i EXCEPT ![p] = 1]
    /\ Goto(p, "c_append")
    /\ ConfigOnly /\ UNCHANGED vouch

\* echo host:port >> CLUSTER_ALL_NODES
ConfigAppend(p) ==
    /\ pc[p] = "c_append"
    /\ config' = [config EXCEPT !.all = Append(@, ini.nodes[i[p]])]
    /\ Goto(p, "c_conf")
    /\ ConfigOnly /\ UNCHANGED <<vouch, i>>

\* sed ... > redis-NODEID-PORT.conf
ConfigConf(p) ==
    /\ pc[p] = "c_conf"
    /\ config' = [config EXCEPT !.conf = @ \cup {ini.nodes[i[p]]}]
    /\ IF LastOfNode(i[p])
       THEN Goto(p, "c_node") /\ UNCHANGED i
       ELSE Goto(p, "c_append") /\ i' = [i EXCEPT ![p] = @ + 1]
    /\ ConfigOnly /\ UNCHANGED vouch

\* The password file and the node's start, shutdown and connect scripts: the
\* commands of one round of the loop in one step, as in ConfigTail, DeployNode
\* and DeployFiles.  A stage that ends among them leaves some of these files
\* fewer; no command tests for them, and the stage's next run writes them all.
ConfigNode(p) ==
    /\ pc[p] = "c_node"
    /\ config' = [config EXCEPT !.scripts = @ \cup {ini.nodes[i[p]].node},
                                !.misc = @ \cup {"auth"}]
    /\ Goto(p, LoopNext(i[p], "c_append", "c_tail"))
    /\ i' = [i EXCEPT ![p] = @ + 1]
    /\ ConfigOnly /\ UNCHANGED vouch

\* cluster_env.sh and create_cluster.sh
ConfigTail(p) ==
    /\ pc[p] = "c_tail"
    /\ config' = [config EXCEPT !.misc = @ \cup {"env", "create"}]
    /\ Goto(p, "c_mark")
    /\ ConfigOnly /\ UNCHANGED <<vouch, i>>

ConfigMark(p) ==
    /\ pc[p] = "c_mark"
    /\ config' = [config EXCEPT !.ok = TRUE]
    /\ vouch' = [vouch EXCEPT !["config"] = ini]
    /\ Goto(p, AfterConfig(acts[p]))
    /\ ConfigOnly /\ UNCHANGED i

Config(p) ==
    \/ ConfigCheck(p)
    \/ ConfigOpen(p)
    \/ ConfigAppend(p)
    \/ ConfigConf(p)
    \/ ConfigNode(p)
    \/ ConfigTail(p)
    \/ ConfigMark(p)

-----------------------------------------------------------------------------
(* deploy() *)

DeployOnly == UNCHANGED <<build, config, ini, acts>>

\* Faulty variants: a marker is not looked at.
DeployNotBuilt(p) ==
    /\ pc[p] = "d_build"
    /\ Goto(p, "d_config")
    /\ DeployOnly /\ UNCHANGED <<home, vouch, i, err>>

DeployNotConfigured(p) ==
    /\ pc[p] = "d_config"
    /\ Goto(p, "d_home")
    /\ DeployOnly /\ UNCHANGED <<home, vouch, i, err>>

DeployAgain(p) ==
    /\ pc[p] = "d_home"
    /\ Goto(p, "d_dir")
    /\ DeployOnly /\ UNCHANGED <<home, vouch, i, err>>

\* The two stages before must have left their markers.
DeployBuilt(p) ==
    /\ pc[p] = "d_build"
    /\ Goto(p, IF build.ok THEN "d_config" ELSE "failed")
    /\ DeployOnly /\ UNCHANGED <<home, vouch, i, err>>

DeployConfigured(p) ==
    /\ pc[p] = "d_config"
    /\ Goto(p, IF config.ok THEN "d_home" ELSE "failed")
    /\ DeployOnly /\ UNCHANGED <<home, vouch, i, err>>

\* if [[ -f CLUSTER_ALL_NODES ]]: already deployed, refuse.
DeployHome(p) ==
    /\ pc[p] = "d_home"
    /\ Goto(p, IF home.all = NoList THEN "d_dir" ELSE "failed")
    /\ DeployOnly /\ UNCHANGED <<home, vouch, i, err>>

DeployDir(p) ==
    /\ pc[p] = "d_dir"
    /\ home' = [home EXCEPT !.dir = TRUE]
    /\ i' = [i EXCEPT ![p] = 1]
    /\ Goto(p, "d_inst")
    /\ DeployOnly /\ UNCHANGED <<vouch, err>>

\* Faulty variant: break where continue was meant.
DeployInstBreaks(p) ==
    LET x == ini.nodes[i[p]] IN
    /\ pc[p] = "d_inst"
    /\ IF x.node \notin Here
       THEN Goto(p, "d_make_redis") /\ UNCHANGED <<home, i>>
       ELSE /\ home' = [home EXCEPT !.conf = @ \cup {x}]
            /\ IF LastOfNode(i[p]) THEN Goto(p, "d_node") /\ UNCHANGED i
               ELSE Goto(p, "d_inst") /\ i' = [i EXCEPT ![p] = @ + 1]
    /\ DeployOnly /\ UNCHANGED <<vouch, err>>

\* Faulty variant: the copying is not limited to this machine's nodes.
DeployInstAll(p) ==
    /\ pc[p] = "d_inst"
    /\ home' = [home EXCEPT !.conf = @ \cup {ini.nodes[i[p]]}]
    /\ IF LastOfNode(i[p]) THEN Goto(p, "d_node") /\ UNCHANGED i
       ELSE Goto(p, "d_inst") /\ i' = [i EXCEPT ![p] = @ + 1]
    /\ DeployOnly /\ UNCHANGED <<vouch, err>>

\* The instances of other machines are passed over; cp fails on a file that
\* config has not made.
DeployInst(p) ==
    LET x == ini.nodes[i[p]]
        here == x.node \in Here
    IN
    /\ pc[p] = "d_inst"
    /\ home' = IF here /\ x \in config.conf THEN [home EXCEPT !.conf = @ \cup {x}] ELSE home
    /\ IF here /\ x \notin config.conf THEN Goto(p, "failed") /\ UNCHANGED i
       ELSE IF here /\ LastOfNode(i[p]) THEN Goto(p, "d_node") /\ UNCHANGED i
       ELSE /\ Goto(p, LoopNext(i[p], "d_inst", "d_make_redis"))
            /\ i' = [i EXCEPT ![p] = @ + 1]
    /\ DeployOnly /\ UNCHANGED <<vouch, err>>

\* create_cluster.sh and the node's scripts.
DeployNode(p) ==
    LET n == ini.nodes[i[p]].node IN
    /\ pc[p] = "d_node"
    /\ IF n \in config.scripts /\ "create" \in config.misc
       THEN /\ home' = [home EXCEPT !.scripts = @ \cup {n}, !.misc = @ \cup {"create"}]
            /\ Goto(p, LoopNext(i[p], "d_inst", "d_make_redis"))
            /\ i' = [i EXCEPT ![p] = @ + 1]
       ELSE Goto(p, "failed") /\ UNCHANGED <<home, i>>
    /\ DeployOnly /\ UNCHANGED <<vouch, err>>

\* cd dir && make install: skipped, and not noticed, where cd fails.
Install(p, a, at, next) ==
    /\ pc[p] = at
    /\ IF a \in build.src
       THEN /\ home' = [home EXCEPT !.bin = @ \cup {a}]
            /\ UNCHANGED err
       ELSE /\ err' = [err EXCEPT ![p] = TRUE]
            /\ UNCHANGED home
    /\ Goto(p, next)
    /\ DeployOnly /\ UNCHANGED <<vouch, i>>

\* cp cluster_env.sh; cp CLUSTER_AUTH_PASS
DeployFiles(p) ==
    /\ pc[p] = "d_files"
    /\ IF {"env", "auth"} \subseteq config.misc
       THEN /\ home' = [home EXCEPT !.misc = @ \cup {"env", "auth"}]
            /\ Goto(p, "d_open")
       ELSE Goto(p, "failed") /\ UNCHANGED home
    /\ DeployOnly /\ UNCHANGED <<vouch, i, err>>

\* cp CLUSTER_ALL_NODES creates the file, which is the marker of a deployed
\* home, before it writes the lines.
DeployOpen(p) ==
    /\ pc[p] = "d_open"
    /\ IF config.all # NoList
       THEN home' = [home EXCEPT !.all = << >>] /\ Goto(p, "d_write")
       ELSE Goto(p, "failed") /\ UNCHANGED home
    /\ DeployOnly /\ UNCHANGED <<vouch, i, err>>

DeployWrite(p) ==
    /\ pc[p] = "d_write"
    /\ home' = [home EXCEPT !.all = config.all]
    /\ vouch' = [vouch EXCEPT !["deploy"] =
                   IF vouch["build"] = ini /\ vouch["config"] = ini THEN ini ELSE NoIni]
    /\ Goto(p, "done")
    /\ DeployOnly /\ UNCHANGED <<i, err>>

Deploy(p) ==
    \/ DeployBuilt(p)
    \/ DeployConfigured(p)
    \/ DeployHome(p)
    \/ DeployDir(p)
    \/ DeployInst(p)
    \/ DeployNode(p)
    \/ Install(p, ini.redis, "d_make_redis", "d_make_hiredis")
    \/ Install(p, ini.hiredis, "d_make_hiredis", "d_files")
    \/ DeployFiles(p)
    \/ DeployOpen(p)
    \/ DeployWrite(p)

-----------------------------------------------------------------------------
(* clean() *)

CleanOnly == UNCHANGED <<ini, acts, i, err>>

\* Faulty variant: what is to be removed is not asked for by name.
AskNothing(p, stage, at, rm, next) ==
    /\ pc[p] = at
    /\ \/ stage = "config" /\ stage \in acts[p] /\ Goto(p, rm)
       \/ Goto(p, next)
    /\ CleanOnly /\ UNCHANGED <<build, config, home, vouch>>

\* Asked for the stage and confirmed: go and remove.  Otherwise pass on.
Ask(p, stage, at, rm, next) ==
    /\ pc[p] = at
    /\ \/ stage \in acts[p] /\ Goto(p, rm)
       \/ Goto(p, next)
    /\ CleanOnly /\ UNCHANGED <<build, config, home, vouch>>

\* Faulty variant: rm -rf ... || true.
RmBuildUnchecked(p) ==
    /\ pc[p] = "r_build"
    /\ \E src \in SUBSET build.src : \E bin \in SUBSET (build.bin \cap src) :
          build' = [src |-> src, bin |-> bin, ok |-> FALSE]
    /\ vouch' = [vouch EXCEPT !["build"] = NoIni]
    /\ Goto(p, "x_config")
    /\ CleanOnly /\ UNCHANGED <<config, home>>

\* rm -rf takes the entries in an order of its own and may be stopped
\* between any two: one step removes any part of what there is.  A tree that
\* loses files may stay, but what was made in it no longer counts as made.
RmBuild(p) ==
    /\ pc[p] = "r_build"
    /\ \E src \in SUBSET build.src, ok \in {FALSE, build.ok} : \E bin \in SUBSET (build.bin \cap src) :
          build' = [src |-> src, bin |-> bin, ok |-> ok]
    /\ vouch' = [vouch EXCEPT !["build"] = NoIni]
    /\ Goto(p, IF build' = EmptyBuild THEN "x_config" ELSE "r_build")
    /\ CleanOnly /\ UNCHANGED <<config, home>>

RmConfig(p) ==
    /\ pc[p] = "r_config"
    /\ \E conf \in SUBSET config.conf, scripts \in SUBSET config.scripts,
          misc \in SUBSET config.misc, ok \in {FALSE, config.ok}, all \in {NoList, config.all} :
          config' = [all |-> all, conf |-> conf, scripts |-> scripts, misc |-> misc, ok |-> ok]
    /\ vouch' = [vouch EXCEPT !["config"] = NoIni]
    /\ Goto(p, IF config' = EmptyConfig THEN "x_home" ELSE "r_config")
    /\ CleanOnly /\ UNCHANGED <<build, home>>

RmHome(p) ==
    /\ pc[p] = "r_home"
    /\ \E conf \in SUBSET home.conf, scripts \in SUBSET home.scripts, bin \in SUBSET home.bin,
          misc \in SUBSET home.misc, all \in {NoList, home.all}, dir \in {FALSE, home.dir} :
          /\ home' = [dir |-> dir, conf |-> conf, scripts |-> scripts, bin |-> bin,
                      misc |-> misc, all |-> all]
          /\ ~dir => home' = EmptyHome
    /\ vouch' = [vouch EXCEPT !["deploy"] = NoIni]
    /\ Goto(p, IF home' = EmptyHome THEN "done" ELSE "r_home")
    /\ CleanOnly /\ UNCHANGED <<build, config>>

Clean(p) ==
    \/ Ask(p, "build", "x_build", "r_build", "x_config")
    \/ Ask(p, "config", "x_config", "r_config", "x_home")
    \/ Ask(p, "deploy", "x_home", "r_home", "done")
    \/ RmBuild(p)
    \/ RmConfig(p)
    \/ RmHome(p)

-----------------------------------------------------------------------------
Work(p) == Build(p) \/ Config(p) \/ Deploy(p) \/ Clean(p)

Next == \/ Edit
        \/ \E p \in Procs : Start(p) \/ Work(p) \/ Stop(p)

Spec == Init /\ [][Next]_vars

-----------------------------------------------------------------------------
(* Properties *)

BuildCommands  == {"b_check", "b_dirs", "b_tar_redis", "b_tar_hiredis", "b_make_redis",
                   "b_make_hiredis", "b_mark"}
ConfigCommands == {"c_check", "c_open", "c_append", "c_conf", "c_node", "c_tail", "c_mark"}
DeployCommands == {"d_build", "d_config", "d_home", "d_dir", "d_inst", "d_node",
                   "d_make_redis", "d_make_hiredis", "d_files", "d_open", "d_write"}
CleanCommands  == {"x_build", "r_build", "x_config", "r_config", "x_home", "r_home"}
Commands == BuildCommands \cup ConfigCommands \cup DeployCommands \cup CleanCommands

Files == {"auth", "env", "create"}

BuildType  == [src : SUBSET {TopDir[a] : a \in Archives}, bin : SUBSET Packages, ok : BOOLEAN]
ConfigType == [all : Seq(Instances) \cup {NoList}, conf : SUBSET Instances,
               scripts : SUBSET Nodes, misc : SUBSET Files, ok : BOOLEAN]
HomeType   == [dir : BOOLEAN, conf : SUBSET [node : Here, port : Ports], scripts : SUBSET Here,
               bin : SUBSET Packages, misc : SUBSET Files, all : Seq(Instances) \cup {NoList}]

\* The types of the state; nothing of another machine's nodes is in home.
TypeOK ==
    /\ build \in BuildType
    /\ config \in ConfigType
    /\ home \in HomeType
    /\ ini \in Inis
    /\ vouch \in [Stages -> Inis \cup {NoIni}]
    /\ pc \in [Procs -> Rest \cup Commands]
    /\ acts \in [Procs -> SUBSET (Stages \cup {"clean"})]
    /\ i \in [Procs -> Nat]
    /\ err \in [Procs -> BOOLEAN]

BuildComplete(x) == build.ok /\ {x.redis, x.hiredis} \subseteq build.bin

ConfigComplete(x) ==
    /\ config.ok
    /\ config.all = x.nodes
    /\ \A k \in DOMAIN x.nodes : x.nodes[k] \in config.conf /\ x.nodes[k].node \in config.scripts
    /\ config.misc = Files

\* Everything of this machine but the list.
HomeFilled(x) ==
    /\ {x.redis, x.hiredis} \subseteq home.bin
    /\ \A k \in DOMAIN x.nodes : x.nodes[k].node \in Here =>
           /\ x.nodes[k] \in home.conf
           /\ x.nodes[k].node \in home.scripts
           /\ "create" \in home.misc
    /\ {"auth", "env"} \subseteq home.misc

HomeComplete(x) == HomeFilled(x) /\ home.all = x.nodes

\* BUILD_SUCCESS, until a clean begins to remove it, stands for both packages
\* of the ini it was built from being made (redis_cluster.sh:217-262),
\* whatever was interrupted, retried or edited before.
BuildSound == vouch["build"] # NoIni => BuildComplete(vouch["build"])

\* CONFIG_SUCCESS stands for a CLUSTER_ALL_NODES that lists every instance
\* of the ini once and in its order, and for every file deploy copies
\* (redis_cluster.sh:265-441): a rerun after an interruption leaves no trace.
ConfigSound == vouch["config"] # NoIni => ConfigComplete(vouch["config"])

\* A home deployed from a build and a configuration of the same ini holds
\* the binaries and everything the nodes of this machine need, and the list
\* of the whole cluster (redis_cluster.sh:444-560).
HomeSound == vouch["deploy"] # NoIni => HomeComplete(vouch["deploy"])

\* As long as nothing is edited or cleaned, the marker files can be believed,
\* whatever failed and was retried, and whichever stages ran side by side.
\* BUILD_SUCCESS and CONFIG_SUCCESS (redis_cluster.sh:447, 452) mean that their
\* stage is complete.  CLUSTER_ALL_NODES in the home, for which deploy looks
\* (457), means that every other file of the home is in place; its lines are
\* all of the list or, where a deploy ended inside cp (557), none.
MarkersBelieved ==
    (Inis = {ini} /\ \A p \in Procs : ~MayClean(p)) =>
        /\ build.ok => BuildComplete(ini)
        /\ config.ok => ConfigComplete(ini)
        /\ home.all # NoList => HomeFilled(ini) /\ home.all \in {<< >>, ini.nodes}

\* A deployed home is not written to until a clean removes it: a second
\* deploy does not mix its files into it (redis_cluster.sh:457-460).
DeployedHomeKept ==
    [][home.all \notin {NoList, << >>} /\ home' # home => \E p \in Procs : pc[p] = "r_home"]_vars

\* "Treat any error as exit" (redis_cluster.sh:48): an invocation one of whose
\* commands failed does not run to its end.
ErrorsExit == \A p \in Procs : err[p] => pc[p] # "done"

\* "If the deployment directory already exists, deploying is not possible"
\* (README.md:169): deploy starts only where there is no home.
RefusesExistingHome == [][\A p \in Procs : DeployDir(p) => ~home.dir]_vars

\* What the files show of the stages: StagedInstall.
Staged == INSTANCE StagedInstall WITH
    Lists     <- {x.nodes : x \in Inis},
    built     <- build.ok,
    listing   <- IF config.ok THEN config.all ELSE NoList,
    installed <- IF home.all = << >> THEN NoList ELSE home.all

\* The stages, command by command, with failures, interrupted removals and
\* invocations that run side by side, implement StagedInstall.
ImplementsStages == Staged!Spec

=============================================================================
