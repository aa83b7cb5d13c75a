# A formal model of redis_cluster_tools

`redis_cluster.sh` builds, configures, deploys and removes a Redis cluster on
each of its machines; the scripts it generates start and stop the instances
of a node; `common.sh` reads the files they are configured by.  With it come
the headers of hiredis, whose event adapters are the only C code here that
keeps state over time.  This directory holds TLA+ models of these, TLC
configurations that check them, and theorems that TLAPS proves for every value
of the constants.
Paths and line numbers are relative to `src/`.

## 1. The system

| part | state it keeps | operations | interacts with |
|---|---|---|---|
| `redis_cluster.sh` build (217-262) | `build/ID`: two source trees, what was made in them, `BUILD_SUCCESS` | check, unpack twice, make twice, mark | archives in `pkgs/`, the ini |
| config (265-441) | `config/ID`: `CLUSTER_ALL_NODES`, one conf per instance, scripts per node, three more files, `CONFIG_SUCCESS` | check, truncate, two nested loops over nodes and ports, mark | the ini, `cluster_nodes.cfg` |
| deploy (444-560) | the home of the cluster, whose `CLUSTER_ALL_NODES` says that it is deployed | three checks, copies for this machine's nodes, two `make install`, three copies | the two marker files and the files of the stages before |
| clean (166-214) | none | per requested stage: confirm, `rm -rf` | the three directories |
| dispatch and argument rules (62-148, 563-569) | the set of actions | clean, or build, config and deploy in this order | the operator |
| this machine's nodes (465-507) | none | compare host names and addresses | `hostname -I` |
| `start_redis.sh` (`redis/sbin/start_redis.sh.0`) | none | for each port: run redis-server, which forks its daemon | daemons |
| `shutdown_redis.sh` (`redis/sbin/shutdown_redis.sh.0`) | none | for each port: read the pid file, `SHUTDOWN SAVE`, wait for the process | pid files, daemons |
| redis-server (not under `src/`) | process, pid file, lock of the cluster file | start, name itself, lock and listen, save, unlink, exit, crash | the two scripts |
| `create_cluster.sh` | none | `redis-cli --cluster create` with the deployed list | all instances |
| `common.sh` (also `sslcerts/common.sh`) | none | `read_cfg`, `write_cfg`, array, version, address and file helpers | all scripts |
| `sslcerts/jkscerts.sh` | one directory of keys and certificates | a chain of keytool and openssl commands | none |
| event adapters (`redis/libs/hiredis/include/hiredis/adapters/*.h`), twelve of them | one record per connection: which directions and timers are registered, whether a callback runs in it, whether it was given up | attach; the hooks addRead, delRead, addWrite, delWrite, scheduleTimer, cleanup; the callbacks of the event library | a `redisAsyncContext`, an event library |
| the other hiredis headers | none | declarations, and inline helpers on strings and allocation | the library, which is not here |
| connect scripts, `rediscmd.c`, sample configurations | none | a client session; two commands; data | redis-server |

Nothing takes a lock, nothing is transactional, and errors are handled by
`set -o errexit`: an invocation stops where it stands, and what it leaves is
what the next one finds.  What is hard, and hard to test, follows from that:

* a stage is believed complete because a marker file exists, and the marker
  may outlive, precede or disagree with what it stands for: interrupted
  builds, reruns, edits of the ini between stages, `rm -rf` that stops halfway;
* `cd dir && make install` and `cat x | sed > y` are not covered by errexit;
* several invocations may run at once;
* after a failure every command but clean may be refused, so recovery depends
  on clean coping with any leftovers;
* the scripts learn about daemons only through pid files that the daemons
  write and remove asynchronously, and that crashes leave behind.

The adapters are single-threaded, and hard for another reason: a callback of
the event library calls a handler of the context, and the handler may call any
hook of the adapter, cleanup too, which frees the record and then the context.
What the callback does next must be right after all of that.  Closes may be
asynchronous (libuv), timers elapse once or again and again, and several
events may arrive in one call.

`PROJECT.json` lists the hazards one by one, with the properties about each.

## 2. The modules

| module | what it is |
|---|---|
| `ClusterTool` | `redis_cluster.sh`, command by command |
| `StagedInstall` | what the stages promise: the abstract specification |
| `Recovery` | the operator who retries, composed with `ClusterTool` |
| `NodeRuntime` | the start and shutdown scripts of one node and its daemons |
| `NodesCfg` | `read_cfg` and `write_cfg` on a file that an operator edits |
| `AsyncContext` | a `redisAsyncContext` and its event loop, as the adapters see them |
| `PollAdapter`, `LibeventAdapter`, `LibsdeventAdapter`, `LibuvAdapter`, `LibevAdapter`, `AeAdapter`, `RedisModuleAdapter`, `IvykisAdapter`, `MacosxAdapter`, `QtAdapter`, `GlibAdapter`, `LibhvAdapter` | one header of `adapters/` each |
| `EventHooks` | what every adapter promises: the abstract specification |
| `MCClusterTool`, `MCClean`, `MCRecovery`, `MCNodeRuntime`, `MCNodesCfg` | instances for TLC |
| `MCAdapters` | the twelve adapters composed, one connection after another, with their properties |
| `ClusterToolProofs` | inductive invariant, types, soundness of the three stages |
| `ClusterToolRefinement` | `ClusterTool` implements `StagedInstall`; a deployed home is kept |
| `ClusterToolMarkers` | marker files stand for their files where nothing is edited or cleaned |
| `NodeRuntimeProofs` | inductive invariant, types, pid files, starts, completeness of a stop |
| `NodesCfgProofs` | `read_cfg` and `write_cfg` are right on orderly sections |
| `RecoveryProofs` | clean ALL and ALL are refused nothing and leave a complete installation |
| `AdapterProofs` | inductive invariant of the adapters, and that they implement `EventHooks` |

### ClusterTool

The three directories are records of what they hold: `build` (trees `src`,
trees made `bin`, marker `ok`), `config` (the list `all`, confs, scripts,
other files, marker) and `home`.  `ini` is what the configuration files say
now: the two packages and the list of instances, node by node.  An
invocation is a process `p`: `acts[p]` its actions, `pc[p]` the command it is
about to run (`b_` build, `c_` config, `d_` deploy, `x_`/`r_` clean's
questions and removals), `i[p]` its place in the list.  There is one action
per command of the script that changes or tests a file, but for four groups
of copies and generated scripts, each of which goes in one step: those of a node
(`ConfigNode`, 394-428, `DeployNode`, 528-543) and those of the whole cluster
(`ConfigTail`, 430-438, `DeployFiles`, 555-556).  A stage that ends among them
leaves some of these files fewer; no command tests for them, the stage's marker
is not there yet, and its next run writes them all.  `Stop` is the failure
of any command, end of input at a prompt, or a kill, between any two;
`RmBuild`, `RmConfig`, `RmHome` remove any part of what there is, a tree that stays
loses any of its binaries, and they may then be stopped; `Edit` changes the ini while no invocation runs.  Two history
variables are not in the code: `vouch[s]` is the ini for which the marker of
stage `s` was written (`NoIni` once a clean begins to remove it), and
`err[p]` says that a command failed and the invocation went on.

`ini` holds the pair of `redis_cluster.ini` and `cluster_nodes.cfg`.  The
content of a file is abstracted to its presence, except for
`CLUSTER_ALL_NODES`.  Lines 285-289 of the script replace `tls_enabled` by 1 or
0, and lines 327, 353, 360 and 417 compare it with "yes": those branches are
never taken, and are not in the model.  The templates are taken to be where the
repository has them.  `Here` is the set of nodes that deploy takes for this
machine.

### StagedInstall

A build that is there or not, a configuration that shows a list or not, an
installed list or none; a list is installed in one step, only where none is,
only with a build and a configuration, and it is that configuration's.
`ClusterTool` implements it under the mapping at the end of the module: the
markers are `built` and what `listing` shows, and a `CLUSTER_ALL_NODES` that
has been created but not yet written counts as not installed.

### Recovery

`ClusterTool` with an operator who gives ALL, and after a failure clean ALL,
confirmed, until it goes through, and then ALL again.  It adds a count of
failures and fairness.  What a second ALL without clean would meet is in
`ClusterTool`: it is refused by the leftovers.  `Recovers` is the promise;
`NeverRefused` and `ThroughIsComplete` are the part of it that is about
states and steps, and can be proved for any number of failures.

### NodeRuntime

`daemon[d]` is the state of process `d`: `born` (forked), `named` (pid file
written), `up`, `saving`, `unlinked` (pid file removed), `leaving`, `none`.
`pidfile[port]` is the file's content.  A run `s` of a script stands before
command `pc[s]` at port number `k[s]`; `nodepid[s]` is the shell variable and
`conn[s]` the daemon redis-cli talks to.  The scripts are translated line by
line; the daemon's actions are external and follow redis-server: the pid file
is written before the cluster file is locked, a daemon that does not get
the lock exits and leaves the pid file as it is, `SHUTDOWN SAVE` unlinks the
pid file of the port whoever wrote it, and a failed save keeps the daemon up.
Process ids are used again.

`Careful = TRUE` is an operator who starts a node when no script runs and
`shutdown_redis.sh` has reported the node stopped, whatever its daemons do by
then, or when no process of it is left (at first, or after crashes); and who
shuts down only after the started daemons have come up.  `told` is that report, a
history variable.  So a start after a shutdown rests on what the script waits
for: without the loop over `/proc` a new daemon meets the lock of an old one
that is still leaving, and `StartedServes` fails (it is the mutant).
Without `Careful` the pid files can be overwritten by a second daemon of a
port, and a daemon that is still coming up is not asked to stop; the scripts
promise nothing then.  Shutdowns may still overlap with each
other, and everything with crashes and failed saves.

### NodesCfg

`file` is a sequence of lines: headers and settings, each commented out or
not, and remarks, comment lines that mention a key and have no `=`.  `Read` is
the awk program of `read_cfg`: the first line at or after a
line with `[s]` whose part before the `=` contains the key; a remark is one, and
what is read from it is empty.  `Written` is what the sed program of `write_cfg`
makes of a file: `Within` follows its address range line by line.
`Inside` and `Repeats` say which names a key matches in the two regular
expressions.  The other actions are an editor: insert, delete, comment out
or in.  Against them stands what an ini file means: `Belongs`, `Sets`.
`Orderly` is the discipline under which the two agree: a section has one line
with `[s]`, comments included, and none of its lines before the setting, remarks
included, contains the key; the sample files of the repository keep it.  `Unmistaken` is what writing needs besides: sed's
expression `^k*=` repeats the last character of the key, so that a write of
`ports` also changes a line `port=` of the section.

### AsyncContext and the adapters

`ctx` is the context, live or freed; `ev` says whether its hooks are set and
whether `ev.data` is; `want` is what it has asked for through the hooks; `at`
is the handler that is running, or `loop`; `due` is what the running callback
has yet to hand on.  `lib` is the adapter that is attached, `mem` its record
(`held`, `freed`, or `corrupt` if it is freed twice or used when freed), `e` the fields of that
record and `loop` what the event library holds for it: watched directions, a
timer, closes under way.  `Asks`, `Drops`, `Schedules` and `Closes` are what
the context does when it calls a hook, `Attached` what it takes to attach,
`Calls` and `Ends` what a callback does around a handler.  A hook that is set is
called with whatever data there is, the data of a record that has been freed
included; where the hooks are set and there is no data the call ends the
program, which is why `NoDangling` excludes that state.

Each adapter has one action per hook, one per callback up to its first handler,
and `Return` for what the callback does when a handler comes back; between the
two the context may call any hook.  The `on` field holds the record's two flags
for the directions.  The actions `Clock` (a deadline passes), `Reconnect`,
`Construct`, `Destruct` and `Finalize` are the application's.

Two sets of adapters say what may go wrong.  `Refusing`: a step of attaching
may fail (macosx.h:132-135, libuv.h:155-163, libevent.h:171), or the making of a
timer (libuv.h:120-122).  `Unguarded`: the
context may be freed while a callback still has something to hand on (libhv,
glib), or the adapter's object be deleted while it has a context (qt).

The event libraries are external and enter by what the adapters rely on: all
in one thread; a watcher that is stopped is not called any more (libev, ae,
ivykis, CFSocket); a timer elapses once (libuv, sd-event, libhv, the module
API) or stays set (libev, libevent); an error of a libuv handle is handed on as
everything the record asks for; uv_close calls back later, in any order; a libhv
timer that has elapsed may still be reset and deleted, as libhv.h:83 and 49 do,
because nothing clears the adapter's pointer to it.  Of the application it is
assumed that it makes one glib source for a context: glib.h:122-153, alone among
the adapters, does not look for one.

`EventHooks` is the promise an application relies on: handlers run one at a
time, on a live context, only for what was watched when it was reported, and
once for each report.

## 3. What TLC checks

| run | instance | shows |
|---|---|---|
| `clean` | two inis, two nodes, one operator who may clean one of the stages | `TypeOK`, `BuildSound`, `ConfigSound`, `HomeSound`, `DeployedHomeKept`, `ImplementsStages` |
| `two` | one ini, two operators side by side: build/deploy and config | `MarkersBelieved`, `ErrorsExit`, `ImplementsStages` |
| `recovery` | two nodes, one of them here, up to two failures | `ThroughIsComplete`, `NeverRefused`, `Recovers` (liveness) |
| `node` | a careful operator, two ports, two scripts, three process ids, two faults | `TypeOK`, `PidfileTrue`, `StoppedMeansDown`, `StartedServes`, `ShutdownEnds` (liveness) |
| `cfg` | two sections, the keys `port` and `ports`, two values, files of up to five lines | `ReadsTheSection`, `WritesTheSetting` |
| `adapters` | all twelve adapters, any number of connections | `TypeOK`, `NoDangling`, `WatchesAsked`, `TimeoutKept`, `KeepsPromise`, `Released` and `DeadlineServed` (liveness) |
| `errexit` | edits, no clean | violation of `ErrorsExit` |
| `readme_home` | one ini, no clean | violation of `RefusesExistingHome` |
| `node_stop` | both instances up, one crash | violation of `ShutsDownAll` |
| `read_cfg` | as `cfg` | violation of `ReadsOnlyTheSection` |
| `adapter_stale` | libhv, context freed in its read handler | violation of `NoStaleHandler` |
| `adapter_attach` | macosx, a step of attaching fails | violation of `DataMeansAttached` |

**Bounds.**  Two inis are enough for every mix of an old and a new
configuration: they differ in a package, in the number of instances and in the
place of this machine's node, which comes before and after another machine's
node and has one and two ports, so the loops meet first, middle and last
ports, and `continue` before and after a copied node.  In `clean` a behaviour
cleans one stage only, as often as it likes: a partial removal has as many
outcomes as the directory has subsets, and all three stages at once make too
many states.  Which one stands in a field `cleans` of the ini that the program
does not read, and the action constraint `OneStage` keeps it; where the
configuration is cleaned the two inis differ in their instances only.
Cleaning all stages in one behaviour is left to the proofs and to `recovery`.
Two invocations at a time are the most that can share no stage and still overlap
with a deploy.  In `node`, two ports distinguish first from last, the third
process id lets a pid be used again while both ports are served, and two
faults let a crash meet a failed save.  In `cfg`, five lines hold two headers
and three settings or remarks, so a key can be missing, come twice, or follow a
name or a comment that contains it, with another section behind it; each of the two keys is mistaken for the other by
one of the programs (awk finds `port` in `ports`, sed changes `port=` for
`ports`).  In `recovery` the node of another machine stands before this
machine's, and two failures let the removal after a failed installation fail
as well; more are left to the theorems.  Node names and values are
interchangeable, hence the symmetry.  The `VIEW` of `clean` drops the
history of invocations that have ended; no property of that run
reads it.  `adapters` has no bound: the state of a connection is finite, and
connections follow one another.  Its `Refusing` and `Unguarded` are empty,
because where the code does not cope the properties fail: NoDangling for
macosx, libuv and libevent that refuse, and for glib and qt that are not
guarded; TypeOK (a record freed twice) for macosx that refuses; WatchesAsked for
macosx and libevent that refuse and for qt that is not guarded; TimeoutKept for
libevent and libuv that refuse; KeepsPromise for libhv and glib that are not
guarded.  The two violation runs show the
cases that contradict a line of the repository.

**Fairness.**  `Recovery`: weak fairness of the operator's next command or the
invocation's next one; the script runs without waiting for anything but its
prompts.  `NodeRuntime!FairSpec`: weak fairness of each script and each daemon,
which the operating system's scheduler gives; none on crashes, failed
saves, starts or aborts.  `StopSpec` adds an operator who repeats
`shutdown_redis.sh` until it is through, so that its counterexample is not
one of an operator who gave up.  `MCAdapters!FairSpec`: handlers return, the
application keeps calling `redisPollTick` (poll.h has no loop of its own), and
libuv runs the callbacks of closes; none on events, timers or the context.

**Findings.**
* `errexit`: in `cd "$redis_build_dir" && make install` a failing `cd` does not
  end the script, against "Treat any error as exit" (redis_cluster.sh:48).
* `readme_home`: README.md:169 says deploying is impossible where the home
  exists; the code looks only for `CLUSTER_ALL_NODES` in it.
* `node_stop`: an instance that is down already ends `shutdown_redis.sh` before
  the instances after it are stopped, in every run of it.
* `read_cfg`: a key that a section does not have is read from another key that
  contains its name, from a comment, or from a later section, against
  common.sh:170.
* `adapter_stale`: libhv.h:14-21 reads the context once; where the read handler
  frees it the write handler is called on it.  poll.h:100-101 tells of that case,
  and poll, libevent, libsdevent and libuv look again.
* `adapter_attach`: macosx.h sets the hooks and `ev.data` before it makes the
  socket; when that fails the record is freed and they stay, so that the sign
  macosx.h:108 goes by is wrong, and the cleanup that redisAsyncFree calls
  frees the record again.

Weaknesses of the same kinds that no line of the repository speaks against, and
that are hazards rather than findings: glib.h:99-102 reads its context after the
write handler; qt.h:77 writes to a context that cleanup has left in `m_ctx`;
libuv.h:148-163 sets the hooks before the record is allocated; libevent.h:171
does not check `event_new`; libsdevent.h:143 never enables an elapsed timer
again; libhv.h:68 takes a timeout below a millisecond for none; libhv.h:83 and 49
use a timer that may have elapsed; libuv.h:120-122 sets no timeout, and says
nothing, where the timer cannot be made; glib.h:122-153 attaches a second time.
A `cp` that is killed at redis_cluster.sh:557 leaves an empty
`CLUSTER_ALL_NODES`, which line 457 takes for a deployed home: `MarkersBelieved`
says that every other file is in place then, and that the list is all there or
empty, no more.  An `rm -rf` that ends early (173) may leave a marker whose files
are gone, and deploy goes ahead: the soundness properties are about markers that
no clean has begun to remove.

README.md:157-163 gives `clean config` as the command that configures; the code
only cleans then (redis_cluster.sh:563-569).

## 4. What is proved

Assumptions on the constants are the named ones of the modules.  The theorems
about soundness and refinement also assume `TopDirMatches` (an archive unpacks
into a directory of its own name, as those of redis and hiredis do), and
those about pid files, starts and stops assume `Careful`, as section 2 has it.  `NoConflict` is an
assumption of `ClusterTool` itself: invocations that overlap share no stage,
and none cleans while another deploys.  The script does not enforce it.

| theorem | for any number of invocations, inis and instances |
|---|---|
| `ClusterToolProofs!TypeCorrect` | `Spec => []TypeOK` |
| `ClusterToolProofs!BuildIsSound`, `ConfigIsSound`, `HomeIsSound` | `BuildSound`, `ConfigSound`, `HomeSound` |
| `ClusterToolRefinement!HomeIsKept` | `DeployedHomeKept` |
| `ClusterToolRefinement!StagesImplemented` | `ImplementsStages` |
| `ClusterToolMarkers!MarkersStandForTheirFiles`, `NoErrorPassedOver` | `MarkersBelieved`, `ErrorsExit`, where nothing is edited or cleaned |

| theorem | for any number of ports, scripts, process ids and faults |
|---|---|
| `NodeRuntimeProofs!TypeCorrect` | `Spec => []TypeOK` |
| `NodeRuntimeProofs!PidfileIsTrue` | `PidfileTrue` |
| `NodeRuntimeProofs!StoppedIsDown` | `StoppedMeansDown` |
| `NodeRuntimeProofs!StartIsTrue` | `StartedServes` |

| theorem | for any file, names and values |
|---|---|
| `NodesCfgProofs!ReadIsRight` | `ReadsTheSection` |
| `NodesCfgProofs!WriteIsRight` | `WritesTheSetting` |

| theorem | for any number of nodes and failures, one configuration, its packages in `pkgs/` |
|---|---|
| `RecoveryProofs!NothingIsRefused` | `NeverRefused` |
| `RecoveryProofs!RecoveryIsComplete` | `ThroughIsComplete` |

| theorem | for every choice of adapters, `Refusing` and `Unguarded` but as said |
|---|---|
| `AdapterProofs!NothingFreedTwice` | `Spec => []TypeOK`, where macosx is not in `Refusing` |
| `AdapterProofs!TimeoutsStay` | `TimeoutKept`, where libevent and libuv are not in `Refusing` |
| `AdapterProofs!HooksIdempotent` | `WatchesAsked`, where libevent and macosx are not in `Refusing`, nor qt in `Unguarded` |
| `AdapterProofs!RecordsOutliveTheirUse` | `NoDangling`, where libevent, libuv and macosx are not in `Refusing`, nor qt and glib in `Unguarded` |
| `AdapterProofs!AdaptersKeepPromise` | `KeepsPromise`, where glib and libhv are not in `Unguarded` |
| `AdapterProofs!NoHandlerIsStale` | `NoStaleHandler`, under the same |
| `AdapterProofs!DataIsAttached` | `DataMeansAttached`, where macosx is not in `Refusing` |

These conditions are exact: for each adapter that a theorem excludes TLC finds
the property violated with that adapter alone in the set.  The last two
theorems turn the findings `adapter_stale` and `adapter_attach` round: libhv and glib are the only adapters that call a handler on a
context that is gone, and macosx the only one whose data outlives its record.

*ClusterTool.*  The soundness properties speak of finished stages only, so they
are not inductive.  `IInv` adds `Controlled` (which stage an invocation may be
in, and that its loop stands inside the list), and `Working`: what each
invocation has achieved at each command (`Building`, `Configuring`,
`Deploying`), for example that `CLUSTER_ALL_NODES` lists exactly the first
`i - 1` instances while config appends.  Under `NoConflict` the lemma `Alone`
says that no other invocation is in the same stage, nor cleans during a
deploy, so that each stage's progress is disturbed by its own steps only.  The
refinement uses the same invariant: a step of deploy that writes the list
finds both markers in place and the configuration's list unchanged.

*Markers.*  The same invariant speaks of a marker only as far as `vouch` knows
the ini it was written for.  Where there is one ini and no invocation may clean,
`vouch` knows of every marker there is (`Marked`), so that each is believed
rightly; and a deploy that believes the build marker finds both trees, so that
its `cd` cannot fail (`TreesThere`), which keeps `err` false (`NoError`).  The
list in the home has no such history: `FilledBeforeList` says that a deploy
creates it only after every other file of the home is there, and `Deployed` that
this lasts until the list is written or a kill leaves it empty.

*NodeRuntime.*  `PidfileTrue` needs that a port has at most one daemon
(`OnePerPort`), and that in turn that a start has the node for itself and its
remaining ports empty (`Starting`).  `Stopping` says that a shutdown has
emptied the ports behind it, and that the only daemon left on the current one
is the one whose pid it holds, from reading the pid file until the wait ends.
All daemon steps are dealt with at once by `Settles`: no daemon appears, none
changes its port, none begins to serve that was not about to.  A careful
start goes by `told`, so `Told` must hold: once a shutdown has said that the node
is stopped, no daemon of it is alive until the next start.  That is what
`Stopping` gives when the last wait ends (`Emptied`), and daemons do not appear by
themselves (`ToldKept`).  `StartedServes` then follows from `OnePerPort`: whoever holds
the lock a new daemon asks for would be a second daemon of its port.

*NodesCfg.*  In an orderly section the only line with `[s]` is its header, every
line between it and the setting belongs to the section, and none of those
names contains the key: the setting is the first hit.  For writing, `Within` must
be shown to be the section.  It is a recursive function over the lines, and the
library's induction theorem is out of the provers' reach; instead the proofs take
the least line at which a statement would fail, which exists because
`<` is well-founded on the naturals (`LeastNumber`, from `WFMin`).
`SectionGoesOn` says that a line belongs to a section exactly where it is the
section's header or a line that is none and follows one of the section;
`WithinIsTheSection` follows line by line, then `RewritesTheSetting`: the
write changes the settings of the key, and only those; remarks and comments
are not touched.  `StaysOrderly` says
that the file is orderly after it, so that reading it back is `ReadIsRight` again.

*Recovery.*  `RInv` adds to `IInv` how far the operator's two commands have
come.  `Cleaning`: what clean has passed is empty, whatever it was.
`Installing`: what ALL has yet to do is not done, so that no check refuses it,
and the markers it has passed are of this ini, so that by `ConfigSound` every
file that deploy copies is there.  `OneOperator` follows from `NoConflict`: two
who give these commands would share a stage.

*Adapters.*  None of the properties is inductive: whether a record may be freed
depends on what runs in it, and whether a timer is set on what the record
remembers.  `IInv` has a part for all (`Base`: data in `ev` is held and a record is freed
once, except for a macosx adapter that could not attach; the loop
knows nothing of a record that is not held; a context without data wants no
timeout) and one per adapter, `PollInv` to `LibhvInv`, about the record in
use: `entered` or `in_tick` says whether a handler runs, a record that was given
up belongs to a freed context, the flags are what the loop watches and, where
contexts are freed when they may be, what the context wants; for libuv,
that the closes under way are exactly the marks left in the record.  There is
one step lemma per adapter, `PollStep` to `LibhvStep`, with a case per action.
For the refinement, `Calling`, `Going`, `Returning`, `Closing` and `Nothing` say
which step of `EventHooks` a step of an adapter is, and `PollKeeps` to
`LibhvKeeps` apply them; `Open` is the refinement mapping.

Beyond the prover and left to TLC are the liveness properties (`Recovers`,
`ShutdownEnds`, `Released`, `DeadlineServed`), which need fairness and ENABLED.
Of `Recovers` the theorems about Recovery leave only that the invocations do end
and that failures stop.  Every other property of a passing run is a theorem.

## 5. What is not modelled

* Contents of the generated configuration files, and TLS: abstracted to presence.
  `cat template | sed > file` with a missing template is therefore not seen.
* The comparison of this machine's addresses (the set `Here`), the rules for
  cluster ids (a violation ends the invocation before its first command,
  which `Stop` covers), and `common.sh` but for `read_cfg` and `write_cfg`:
  pure functions of strings and addresses.
* Overlapping invocations of one stage: excluded by `NoConflict`; the code
  promises nothing for them, and the README gives the commands one by one.
* `create_cluster.sh`: one call of `redis-cli --cluster create`, which decides by
  itself what it accepts; `jkscerts.sh`: one pass through keytool and openssl.
* hiredis itself: its source is not in the repository.  `hiredis.h`, `read.h`,
  `hiredis_ssl.h`, `sockcompat.h` and most of `sds.h` are
  declarations; `async.h` enters as far as the adapters use it.  What
  redisAsyncHandleRead and the others do to the context is every call of the
  hooks that async.h allows them.
* The event libraries, but for what section 2 says of them; threads.
* `rediscmd.c`, a straight line of two commands; the connect scripts (an
  interactive client without state), sample configurations, and the unused
  `redis_cluster.sh.DELETE`.

## 6. Plan

The order of work, most important behaviour first; 1 to 9 are done.

1. `ClusterTool`: the stages with failures, edits and partial removals.
2. `StagedInstall` and the refinement; `Recovery` with its liveness property.
3. Proofs of types and soundness by one inductive invariant; of the refinement.
4. `NodeRuntime`: scripts against asynchronous daemons; proofs about pid files,
   starts and stops.
5. `NodesCfg`: `read_cfg` and `write_cfg` over all small files, against what
   an ini file means, with the proof for the case in which they agree.
6. Theorems for `MarkersBelieved` and `ErrorsExit`.
7. The event adapters against `EventHooks`, one module each.
8. Their inductive invariant, and the proof that they implement `EventHooks`.
9. `write_cfg` by induction over its lines; the safety half of `Recovers`; the
   adapter theorems under the weakest conditions on `Refusing` and `Unguarded`.
10. `HostMatch`: the decision that a node is this machine's, over small sets of
   addresses, composed with `ClusterTool` through `Here`.
11. The generated configuration: settings per instance, with the TLS branches
    and the pipelines that pass over a missing template; README.md:267 as a property.
12. `CreateCluster` over the instances of several `NodeRuntime`s: created before
    all are up, stopped halfway, repeated.
13. Overlapping invocations of the same stage (`NoConflict` dropped): which
    properties survive, as a run and as theorems under weaker assumptions.
14. `JksCerts` and the pure helpers of `common.sh`.
