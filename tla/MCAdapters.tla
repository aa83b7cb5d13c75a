----------------------------- MODULE MCAdapters -----------------------------
(***************************************************************************)
(* An application that attaches any of the adapters to its connection, and *)
(* uses one connection after another.                                      *)
(***************************************************************************)
EXTENDS AsyncContext

Poll        == INSTANCE PollAdapter
Libevent    == INSTANCE LibeventAdapter
Libsdevent  == INSTANCE LibsdeventAdapter
Libuv       == INSTANCE LibuvAdapter
Libev       == INSTANCE LibevAdapter
Ae          == INSTANCE AeAdapter
RedisModule == INSTANCE RedisModuleAdapter
Ivykis      == INSTANCE IvykisAdapter
Qt          == INSTANCE QtAdapter
Macosx      == INSTANCE MacosxAdapter
Glib        == INSTANCE GlibAdapter
Libhv       == INSTANCE LibhvAdapter

Next ==
  \/ Connect
  \/ Poll!Next \/ Libevent!Next \/ Libsdevent!Next \/ Libuv!Next
  \/ Libev!Next \/ Ae!Next \/ RedisModule!Next \/ Ivykis!Next
  \/ Qt!Next \/ Macosx!Next \/ Glib!Next \/ Libhv!Next

\* Handlers return, and the loop goes on.
Returns ==
  \/ Poll!Return \/ Libevent!Return \/ Libsdevent!Return \/ Libsdevent!ReturnTimeout
  \/ Libuv!Return \/ Libev!Return \/ Ae!Return \/ RedisModule!Return
  \/ Ivykis!Return \/ Qt!Return \/ Macosx!Return \/ Glib!Return \/ Libhv!Return

Ticks == \E S \in SUBSET Interests : Poll!Tick(S)

Spec == Init /\ [][Next]_vars

\* The application keeps calling redisPollTick, and its loop keeps running.
FairSpec ==
  /\ Spec
  /\ WF_vars(Returns) /\ WF_vars(Ticks)
  /\ WF_vars(Libuv!OnTimerClose) /\ WF_vars(Libuv!OnHandleClose)

-----------------------------------------------------------------------------
\* What the variables may hold.
Types ==
  /\ ctx \in {"live", "freed"}
  /\ ev \in {"unset", "null", "data"}
  /\ want \subseteq Handlers
  /\ at \in {"loop"} \cup Handlers
  /\ due \subseteq Handlers
  /\ lib \in {"none"} \cup Adapters
  /\ mem \in {"none", "held", "freed", "corrupt"}
  /\ e.on \subseteq Interests
  /\ loop.watch \subseteq Interests /\ loop.timer \in BOOLEAN
  /\ loop.closing \subseteq {"handle", "timer"}

\* Every variable has its type, and no record is freed twice, or used by a
\* hook when it was freed.
TypeOK == Types /\ mem # "corrupt"

\* Nothing follows a pointer to a record that is not held: not the hooks of
\* a live context, the event library, or a callback that goes on after a
\* handler.
NoDangling ==
  /\ ctx = "live" => (ev = "unset" \/ (ev = "data" /\ mem = "held"))
  /\ lib = "poll"        => Poll!Safe
  /\ lib = "libevent"    => Libevent!Safe
  /\ lib = "libsdevent"  => Libsdevent!Safe
  /\ lib = "libuv"       => Libuv!Safe
  /\ lib = "libev"       => Libev!Safe
  /\ lib = "ae"          => Ae!Safe
  /\ lib = "redismodule" => RedisModule!Safe
  /\ lib = "ivykis"      => Ivykis!Safe
  /\ lib = "qt"          => Qt!Safe
  /\ lib = "macosx"      => Macosx!Safe
  /\ lib = "glib"        => Glib!Safe
  /\ lib = "libhv"       => Libhv!Safe

\* What the event library, or the tick or the main loop that reads the
\* record, may report now.
Open == IF lib = "poll" THEN Poll!Open ELSE IF lib = "glib" THEN Glib!Open ELSE Watching

\* The hooks are idempotent (async.h:81-82) in every order of calls: what is
\* watched is what the context has asked for last.  ivykis and macosx begin
\* with both directions.
WatchesAsked ==
  (ctx = "live" /\ ev = "data") =>
    /\ want \cap Interests \subseteq Open
    /\ lib \notin {"ivykis", "macosx"} => Open \cap Interests = want \cap Interests

\* A timeout that the context has set stays set, whatever is added and
\* removed after it, until it is served.  libhv drops timeouts below a
\* millisecond, and libsdevent all but the first that elapses.
TimeoutKept ==
  (ctx = "live" /\ "timeout" \in want /\ lib \notin {"libhv", "libsdevent"}) => "timeout" \in Open

\* Every adapter keeps the promise of EventHooks.
Promise == INSTANCE EventHooks WITH open <- Open
KeepsPromise == Promise!Spec

\* The record of a context that was freed is freed in the end, where it is
\* the adapter's.
Released == (ctx = "freed" /\ lib \notin {"qt", "glib"}) ~> (ctx = "live" \/ mem # "held")

\* A deadline of poll.h that has passed is served, while the application
\* ticks and something is polled for, however many events there are.
DeadlineServed ==
  (lib = "poll" /\ mem = "held" /\ e.deadline = "past")
    ~> (lib # "poll" \/ mem # "held" \/ e.deadline # "past" \/ e.on = {})

-----------------------------------------------------------------------------
\* "context Read callback may have caused context to be deleted"
\* (poll.h:100-101): no handler is called on a context that is gone.
NoStaleHandler == [][at' # at /\ at' # "loop" => ctx = "live"]_vars

\* "Nothing should be attached when something is already attached"
\* (macosx.h:108): data in ac->ev says that something is attached.
DataMeansAttached == ctx = "live" /\ ev = "data" => mem = "held"
=============================================================================
