---------------------------- MODULE AdapterProofs ----------------------------
(***************************************************************************)
(* Proofs about the event adapters, for every choice of adapters.  Each    *)
(* theorem names those adapters whose event library must not fail while    *)
(* they attach, or whose context must not be freed when they do not expect *)
(* it; the others cope with either.                                        *)
(*                                                                         *)
(* The invariant says of each adapter when its record is held, and what of *)
(* the context and of the event library the record knows.                  *)
(***************************************************************************)
EXTENDS MCAdapters, TLAPS

Known == {"none", "poll", "libevent", "libsdevent", "libuv", "libev", "ae", "redismodule",
          "ivykis", "qt", "macosx", "glib", "libhv"}

\* What the event library and the adapters' records look like.
LoopType          == [watch : SUBSET Interests, timer : BOOLEAN, closing : SUBSET {"handle", "timer"}]
PollRecord        == [on : SUBSET Interests, in_tick : BOOLEAN, deleted : BOOLEAN,
                      deadline : {"none", "set", "past"}]
LibeventRecord    == [on : SUBSET Interests, tv : BOOLEAN, made : BOOLEAN,
                      entered : BOOLEAN, deleted : BOOLEAN]
LibsdeventRecord  == [on : SUBSET Interests, fdSource : BOOLEAN, timerSource : BOOLEAN,
                      entered : BOOLEAN, deleted : BOOLEAN]
LibuvRecord       == [on : SUBSET Interests, context : BOOLEAN, handle : BOOLEAN, timer : BOOLEAN]
RedisModuleRecord == [on : SUBSET Interests, timer_active : BOOLEAN]
QtRecord          == [on : SUBSET Interests, m_ctx : {"null", "live", "freed"}]
GlibRecord        == [on : SUBSET Interests, fd : BOOLEAN]

\* Data that is there is held, but for a run loop of macosx that could not be
\* made; hooks without data were never used, and the loop knows nothing of a
\* record that is not held.
Base ==
  /\ Types
  /\ loop \in LoopType
  /\ lib \in Known
  /\ lib = "none" => mem = "none" /\ ctx = "live" /\ at = "loop"
  /\ mem # "held" => loop = Quiet
  /\ lib # "glib" /\ at = "loop" => due = {}
  /\ ctx = "live" /\ ev = "data" => mem = "held" \/ (lib = "macosx" /\ "macosx" \in Refusing)
  /\ mem = "corrupt" => lib = "macosx" /\ "macosx" \in Refusing
  /\ ctx = "live" /\ ev # "data" =>
       "timeout" \notin want /\ ("qt" \notin Unguarded => want = {})
  /\ "libuv" \notin Refusing /\ "qt" \notin Unguarded => ev # "null"

Bound == ctx = "live" /\ ev = "data"

\* A handler runs inside a tick; a record that was given up waits for its end.
PollInv ==
  /\ loop = Quiet /\ due \subseteq Interests
  /\ at # "loop" => mem = "held"
  /\ mem = "held" =>
       /\ e \in PollRecord
       /\ (e.in_tick <=> at # "loop")
       /\ IF e.deleted THEN ctx = "freed" /\ e.in_tick
          ELSE /\ Bound
               /\ "timeout" \in want => e.deadline # "none"
               /\ "qt" \notin Unguarded => e.on = want \cap Interests

LibeventInv ==
  /\ at # "loop" => mem = "held"
  /\ mem = "held" =>
       /\ e \in LibeventRecord
       /\ loop.closing = {}
       /\ (e.entered <=> at # "loop")
       /\ IF e.deleted THEN ctx = "freed" /\ e.entered /\ loop = Quiet
          ELSE /\ Bound
               /\ e.made => loop.watch = e.on /\ loop.timer = e.tv
               /\ e.made \/ "libevent" \in Refusing
               /\ "timeout" \in want => e.tv
               /\ "qt" \notin Unguarded => e.on = want \cap Interests

\* The record may be gone while the timeout handler runs.
LibsdeventInv ==
  /\ at \in Interests => mem = "held"
  /\ at = "timeout" => due = {}
  /\ due \subseteq Interests
  /\ mem = "held" =>
       /\ e \in LibsdeventRecord
       /\ loop.closing = {} /\ loop.watch = e.on
       /\ (e.fdSource <=> e.on # {})
       /\ loop.timer => e.timerSource
       /\ (e.entered <=> at \in Interests)
       /\ IF e.deleted THEN ctx = "freed" /\ e.entered
          ELSE Bound /\ ("qt" \notin Unguarded => e.on = want \cap Interests)

\* Cleanup starts the closes, and each of them leaves its mark in the record.
LibuvInv ==
  /\ at # "loop" => mem = "held"
  /\ due \subseteq {"write"}
  /\ mem = "held" =>
       /\ e \in LibuvRecord
       /\ IF e.context
          THEN /\ Bound
               /\ e.handle /\ loop.closing = {} /\ loop.watch = e.on
               /\ loop.timer => e.timer
               /\ "timeout" \in want /\ "libuv" \notin Refusing => loop.timer
               /\ "qt" \notin Unguarded => e.on = want \cap Interests
          ELSE /\ ctx = "freed" /\ (e.handle \/ e.timer)
               /\ loop = [watch |-> {}, timer |-> FALSE,
                          closing |-> (IF e.handle THEN {"handle"} ELSE {})
                                        \cup (IF e.timer THEN {"timer"} ELSE {})]

LibevInv ==
  /\ due = {}
  /\ mem = "held" =>
       /\ Bound
       /\ e \in [on : SUBSET Interests] /\ loop.closing = {} /\ loop.watch = e.on
       /\ "timeout" \in want => loop.timer
       /\ "qt" \notin Unguarded => e.on = want \cap Interests

AeInv ==
  /\ due = {} /\ "timeout" \notin want
  /\ mem = "held" =>
       /\ Bound
       /\ e \in [on : SUBSET Interests] /\ loop = [Quiet EXCEPT !.watch = e.on]
       /\ "qt" \notin Unguarded => e.on = want \cap Interests

RedisModuleInv ==
  /\ due = {}
  /\ mem = "held" =>
       /\ Bound
       /\ e \in RedisModuleRecord
       /\ loop = [watch |-> e.on, timer |-> e.timer_active, closing |-> {}]
       /\ "timeout" \in want => loop.timer
       /\ "qt" \notin Unguarded => e.on = want \cap Interests

\* ivykis and macosx keep no interest of their own.
BareInv ==
  /\ due = {} /\ "timeout" \notin want
  /\ mem = "held" =>
       /\ Bound
       /\ loop = [Quiet EXCEPT !.watch = loop.watch]
       /\ "qt" \notin Unguarded => want \subseteq loop.watch

\* m_ctx follows the context it was set to; the object may outlive it.
QtInv ==
  /\ due = {} /\ "timeout" \notin want
  /\ ctx = "freed" => want = {}
  /\ mem = "held" =>
       /\ e \in QtRecord
       /\ loop = [Quiet EXCEPT !.watch = e.on]
       /\ (e.m_ctx = "live" <=> Bound)
       /\ Bound \/ e.on = {}
       /\ Bound /\ "qt" \notin Unguarded => e.on = want \cap Interests
  /\ mem = "freed" /\ "qt" \notin Unguarded => e.m_ctx = "null"

\* The source stays until it is finalized; after cleanup it is not polled.
GlibInv ==
  /\ loop = Quiet
  /\ due \subseteq Interests /\ "timeout" \notin want
  /\ at # "loop" \/ due # {} => mem = "held"
  /\ at # "loop" => due \subseteq {"read"}
  /\ ctx = "live" => Bound /\ mem = "held"
  /\ mem = "held" =>
       /\ e \in GlibRecord
       /\ (e.fd <=> ctx = "live")
       /\ Bound /\ "qt" \notin Unguarded => e.on = want \cap Interests
  /\ "glib" \notin Unguarded /\ due # {} => ctx = "live"

LibhvInv ==
  /\ due \subseteq {"write"}
  /\ mem = "held" =>
       /\ Bound
       /\ e \in [on : {{}}, timer : BOOLEAN] /\ loop.closing = {}
       /\ loop.timer => e.timer
       /\ "qt" \notin Unguarded => loop.watch = want \cap Interests
  /\ "libhv" \notin Unguarded /\ due # {} => ctx = "live"

Own ==
  /\ lib = "poll"        => PollInv
  /\ lib = "libevent"    => LibeventInv
  /\ lib = "libsdevent"  => LibsdeventInv
  /\ lib = "libuv"       => LibuvInv
  /\ lib = "libev"       => LibevInv
  /\ lib = "ae"          => AeInv
  /\ lib = "redismodule" => RedisModuleInv
  /\ lib = "ivykis"      => BareInv
  /\ lib = "qt"          => QtInv
  /\ lib = "macosx"      => BareInv
  /\ lib = "glib"        => GlibInv
  /\ lib = "libhv"       => LibhvInv

IInv == Base /\ Own

-----------------------------------------------------------------------------
(* What a step changes, one adapter after another. *)

\* Where a record may be attached, nothing is left of the last one.
LEMMA Vacant ==
    ASSUME IInv, ctx = "live", ev # "data", mem # "held", at = "loop"
    PROVE  /\ due = {} /\ loop = Quiet
           /\ "timeout" \notin want /\ ("qt" \notin Unguarded => want = {})
  BY DEF IInv, Base, Own, GlibInv, Bound

\* How the rest of a tick goes on: with a handler of what was polled, with
\* the timeout, or not at all.
Outcome(S, r) ==
  \/ /\ ~r.deleted /\ at' \in S /\ due' = S \ {at'}
     /\ want' = want /\ e' = r /\ mem' = mem
  \/ /\ ~r.deleted /\ r.deadline = "past" /\ at' = "timeout" /\ due' = {}
     /\ want' = want \ {"timeout"} /\ e' = [r EXCEPT !.deadline = "none"] /\ mem' = mem
  \/ /\ r.deleted /\ at' = "loop" /\ due' = {}
     /\ want' = want /\ e' = r /\ (mem = "held" => mem' = "freed")
  \/ /\ ~r.deleted /\ at' = "loop" /\ due' = {}
     /\ want' = want /\ e' = [r EXCEPT !.in_tick = FALSE] /\ mem' = mem

LEMMA PollOutcome ==
    ASSUME NEW S \in SUBSET Interests, NEW r
    PROVE  /\ Poll!Continue(S, r) => Outcome(S, r)
           /\ Poll!Finish(r) => Outcome({}, r)
<1> USE DEF Outcome, Poll!Ends, Poll!Calls, Poll!Free, Interests
<1>1. ASSUME Poll!Finish(r) PROVE Outcome({}, r) /\ Outcome(S, r)
  BY <1>1 DEF Poll!Finish
<1>2. ASSUME Poll!TimeoutOrFinish(r) PROVE Outcome(S, r)
  BY <1>1, <1>2 DEF Poll!TimeoutOrFinish
<1>3. ASSUME Poll!Continue(S, r) PROVE Outcome(S, r)
  <2>1. CASE S # {} /\ ~r.deleted
    <3>1. PICK h \in S : Poll!Calls(h, S \ {h}) /\ e' = r /\ UNCHANGED mem
      BY <1>3, <2>1 DEF Poll!Continue
    <3> QED
      BY <2>1, <3>1
  <2>2. CASE ~(S # {} /\ ~r.deleted)
    BY <1>2, <1>3, <2>2 DEF Poll!Continue
  <2> QED
    BY <2>1, <2>2
<1> QED
  BY <1>1, <1>3

LEMMA PollStep ==
    ASSUME IInv, Poll!Next
    PROVE  Base' /\ lib' = "poll" /\ PollInv'
<1> DEFINE Goal == Base' /\ lib' = "poll" /\ PollInv'
<1> USE DEF PollInv, PollRecord, LoopType, Types, Known, Bound, Quiet, Interests, Handlers, NoRecord,
            Poll!Quiet, Poll!Interests, Poll!Handlers, Poll!Hook, Poll!Free, Poll!Asks, Poll!Drops
<1>0. Base /\ (lib = "poll" => PollInv)
  BY DEF IInv, Own
<1>1. CASE Poll!Attach
  BY <1>0, <1>1, Vacant DEF Base, Poll!Attach, Poll!Attached, Poll!Attaching
<1>2. ASSUME NEW h \in Interests, Poll!Add(h) \/ Poll!Del(h) PROVE Goal
  BY <1>0, <1>2 DEF Base, Poll!Add, Poll!Del
<1>3. ASSUME NEW tv \in Timevals, Poll!ScheduleTimer(tv) PROVE Goal
  BY <1>0, <1>3 DEF Base, Poll!ScheduleTimer, Poll!Schedules
<1>4. CASE Poll!Cleanup
  BY <1>0, <1>4 DEF Base, Poll!Cleanup, Poll!Closes
<1>5. CASE Poll!Clock
  BY <1>0, <1>5 DEF Base, Poll!Clock
<1>6. ASSUME NEW S \in SUBSET Interests, Poll!Tick(S) PROVE Goal
  <2> DEFINE r == [e EXCEPT !.in_tick = TRUE]
  <2>1. /\ lib = "poll" /\ ctx = "live" /\ ev = "data" /\ at = "loop" /\ mem = "held"
        /\ UNCHANGED <<ctx, ev, lib, loop>> /\ Poll!Continue(S, r)
    BY <1>0, <1>6 DEF Base, Poll!Tick
  <2>2. Outcome(S, r)
    BY <2>1, PollOutcome
  <2>3. /\ r \in PollRecord
        /\ r.on = e.on /\ r.deadline = e.deadline /\ ~r.deleted /\ r.in_tick
    BY <1>0, <2>1 DEF Base
  <2> HIDE DEF r
  <2>4. /\ e' \in PollRecord
        /\ e'.on = e.on /\ ~e'.deleted /\ e'.in_tick = (at' # "loop") /\ mem' = "held"
        /\ at' \in Handlers \cup {"loop"} /\ due' \subseteq Interests
        /\ at' = "loop" => due' = {}
        /\ \/ want' = want /\ e'.deadline = e.deadline
           \/ want' = want \ {"timeout"}
    BY <2>1, <2>2, <2>3 DEF Outcome
  <2>5. PollInv'
    BY <1>0, <2>1, <2>4
  <2>6. Types'
    BY <1>0, <2>1, <2>4 DEF Base
  <2> QED
    BY <1>0, <2>1, <2>4, <2>5, <2>6 DEF Base
<1>7. CASE Poll!Return
  <2>1. /\ lib = "poll" /\ at # "loop" /\ mem = "held" /\ due \in SUBSET Interests
        /\ UNCHANGED <<ctx, ev, lib, loop>>
    BY <1>0, <1>7 DEF Base, Poll!Return
  <2>2. Outcome(due, e) \/ Outcome({}, e)
    BY <1>7, <2>1, PollOutcome DEF Poll!Return
  <2> QED
    BY <1>0, <2>1, <2>2 DEF Base, Outcome
<1> QED
  BY <1>1, <1>2, <1>3, <1>4, <1>5, <1>6, <1>7 DEF Poll!Next, Timevals, Poll!Timevals

LEMMA LibeventStep ==
    ASSUME IInv, Libevent!Next
    PROVE  Base' /\ lib' = "libevent" /\ LibeventInv'
<1> DEFINE Goal == Base' /\ lib' = "libevent" /\ LibeventInv'
<1> USE DEF LibeventInv, LibeventRecord, LoopType, Types, Known, Bound, Quiet, Interests, Handlers,
            NoRecord, Libevent!Quiet, Libevent!Interests,
            Libevent!Handlers, Libevent!NoRecord, Libevent!Watching, Libevent!Hook, Libevent!Free,
            Libevent!Asks, Libevent!Drops, Libevent!Calls, Libevent!Ends
<1>0. Base /\ (lib = "libevent" => LibeventInv)
  BY DEF IInv, Own
<1>1. CASE Libevent!Attach
  <2>1. PICK made \in BOOLEAN :
          /\ made \/ "libevent" \in Refusing
          /\ Libevent!Attached("libevent",
               [on |-> {}, tv |-> FALSE, made |-> made, entered |-> FALSE, deleted |-> FALSE], Quiet)
    BY <1>1 DEF Libevent!Attach
  <2>2. /\ lib' = "libevent" /\ ctx' = "live" /\ ev' = "data" /\ mem' = "held" /\ loop' = Quiet
        /\ at' = "loop" /\ due' = {} /\ want' = want
        /\ e' = [on |-> {}, tv |-> FALSE, made |-> made, entered |-> FALSE, deleted |-> FALSE]
        /\ "timeout" \notin want /\ ("qt" \notin Unguarded => want = {}) /\ "libevent" \in Adapters
    BY <1>0, <2>1, Vacant DEF Libevent!Attached, Libevent!Attaching
  <2> QED
    BY <1>0, <2>1, <2>2 DEF Base
<1>2. ASSUME NEW h \in Interests, Libevent!Add(h) \/ Libevent!Del(h) PROVE Goal
  <2>1. /\ lib = "libevent" /\ mem = "held" /\ Bound /\ ~e.deleted /\ LibeventInv
        /\ UNCHANGED <<lib, ctx, ev, mem, at, due>>
    BY <1>0, <1>2 DEF Base, Libevent!Add, Libevent!Del
  <2>2. PICK on \in SUBSET Interests :
          /\ \/ e' = e /\ loop' = loop /\ on = e.on
             \/ /\ e' = [e EXCEPT !.on = on]
                /\ loop' = IF e.made THEN [loop EXCEPT !.watch = e'.on, !.timer = e.tv] ELSE loop
          /\ "qt" \notin Unguarded => on = want' \cap Interests
          /\ want' = want \cup {h} \/ want' = want \ {h}
    <3>1. CASE Libevent!Add(h)
      <4>1. e.on \cup {h} \in SUBSET Interests
        BY <2>1
      <4>2. CASE h \in e.on
        BY <2>1, <3>1, <4>2 DEF Libevent!Add, Libevent!Update
      <4>3. CASE h \notin e.on
        <5>1. /\ e' = [e EXCEPT !.on = e.on \cup {h}]
              /\ loop' = IF e.made THEN [loop EXCEPT !.watch = e'.on, !.timer = e.tv] ELSE loop
              /\ want' = want \cup {h}
          BY <2>1, <3>1, <4>3 DEF Libevent!Add, Libevent!Update
        <5> QED
          BY <2>1, <4>1, <5>1
      <4> QED
        BY <4>2, <4>3
    <3>2. CASE Libevent!Del(h)
      <4>1. e.on \ {h} \in SUBSET Interests
        BY <2>1
      <4>2. CASE h \notin e.on
        BY <2>1, <3>2, <4>2 DEF Libevent!Del, Libevent!Update
      <4>3. CASE h \in e.on
        <5>1. /\ e' = [e EXCEPT !.on = e.on \ {h}]
              /\ loop' = IF e.made THEN [loop EXCEPT !.watch = e'.on, !.timer = e.tv] ELSE loop
              /\ want' = want \ {h}
          BY <2>1, <3>2, <4>3 DEF Libevent!Del, Libevent!Update
        <5> QED
          BY <2>1, <4>1, <5>1
      <4> QED
        BY <4>2, <4>3
    <3> QED
      BY <1>2, <3>1, <3>2
  <2>3. /\ e' \in LibeventRecord
        /\ e'.on = on /\ e'.tv = e.tv /\ e'.made = e.made /\ e'.entered = e.entered /\ ~e'.deleted
    BY <2>1, <2>2
  <2>4. loop \in LoopType
    BY <1>0 DEF Base
  <2>5. /\ loop' \in LoopType
        /\ e.made => loop'.watch = on /\ loop'.timer = e.tv
        /\ loop'.closing = {}
    <3>1. loop.closing = {} /\ (e.made => loop.watch = e.on /\ loop.timer = e.tv)
      BY <2>1
    <3>2. CASE e' = e /\ loop' = loop /\ on = e.on
      BY <2>4, <3>1, <3>2
    <3>3. CASE /\ e' = [e EXCEPT !.on = on]
               /\ loop' = IF e.made THEN [loop EXCEPT !.watch = e'.on, !.timer = e.tv] ELSE loop
      <4>1. CASE e.made
        <5>1. loop' = [loop EXCEPT !.watch = on, !.timer = e.tv] /\ e.tv \in BOOLEAN
          BY <2>1, <2>3, <3>3, <4>1
        <5> QED
          BY <2>2, <2>4, <3>1, <5>1
      <4>2. CASE ~e.made
        BY <2>4, <3>1, <3>3, <4>2
      <4> QED
        BY <4>1, <4>2
    <3> QED
      BY <2>2, <3>2, <3>3
  <2>6. want' \subseteq Handlers /\ ("timeout" \in want' => "timeout" \in want)
    BY <1>0, <2>2 DEF Base
  <2>7. LibeventInv'
    BY <2>1, <2>2, <2>3, <2>5, <2>6
  <2> QED
    BY <1>0, <2>1, <2>3, <2>5, <2>6, <2>7 DEF Base
<1>3. ASSUME NEW tv \in Timevals, Libevent!SetTimeout(tv) PROVE Goal
  <2> DEFINE r == [e EXCEPT !.on = {}, !.tv = (tv # "zero")]
  <2>1. /\ lib = "libevent" /\ mem = "held" /\ Bound /\ ~e.deleted /\ LibeventInv
        /\ UNCHANGED <<lib, ctx, ev, mem, at, due>> /\ Libevent!Update(r, e.on, FALSE)
        /\ want' = IF tv = "zero" THEN want \ {"timeout"} ELSE want \cup {"timeout"}
    BY <1>0, <1>3 DEF Base, Libevent!SetTimeout, Libevent!Schedules
  <2>2. /\ r \in LibeventRecord
        /\ r.on = {} /\ r.tv = (tv # "zero") /\ r.made = e.made /\ r.entered = e.entered /\ ~r.deleted
    BY <2>1
  <2> HIDE DEF r
  <2>3. /\ e' = [r EXCEPT !.on = @ \cup e.on]
        /\ loop' = IF r.made THEN [loop EXCEPT !.watch = e'.on, !.timer = r.tv] ELSE loop
    BY <2>1, <2>2 DEF Libevent!Update
  <2>4. /\ e' \in LibeventRecord
        /\ e'.on = e.on /\ e'.tv = (tv # "zero") /\ e'.made = e.made /\ e'.entered = e.entered /\ ~e'.deleted
        /\ loop' \in LoopType
        /\ e.made => loop'.watch = e'.on /\ loop'.timer = e'.tv
        /\ loop'.closing = {}
    BY <1>0, <2>1, <2>2, <2>3 DEF Base
  <2>5. want' \subseteq Handlers /\ want' \cap Interests = want \cap Interests /\ ("timeout" \in want' => tv # "zero")
    BY <1>0, <2>1 DEF Base
  <2> QED
    BY <1>0, <2>1, <2>4, <2>5 DEF Base
<1>4. CASE Libevent!Cleanup
  BY <1>0, <1>4 DEF Base, Libevent!Cleanup, Libevent!Closes
<1>5. ASSUME NEW S \in SUBSET Handlers, Libevent!Handler(S) PROVE Goal
  <2>1. /\ lib = "libevent" /\ at = "loop" /\ S # {} /\ S \subseteq loop.watch \cup (IF loop.timer THEN {"timeout"} ELSE {})
        /\ Libevent!Calls(Libevent!First(S), S \ {Libevent!First(S)})
        /\ e' = [e EXCEPT !.entered = TRUE] /\ UNCHANGED <<ctx, ev, lib, mem, loop>>
    BY <1>0, <1>5 DEF Libevent!Handler
  <2>2. mem = "held" /\ LibeventInv /\ ~e.deleted /\ Bound
    BY <1>0, <2>1 DEF Base
  <2>3. /\ at' \in Handlers /\ due' \subseteq Handlers
        /\ want' \subseteq want /\ want' \cap Interests = want \cap Interests
    BY <1>0, <2>1, <2>2 DEF Libevent!Calls, Libevent!First
  <2>4. /\ e' \in LibeventRecord
        /\ e'.on = e.on /\ e'.tv = e.tv /\ e'.made = e.made /\ e'.entered /\ ~e'.deleted
    BY <2>1, <2>2
  <2> QED
    BY <1>0, <2>1, <2>2, <2>3, <2>4 DEF Base
<1>6. CASE Libevent!Return
  <2>1. /\ lib = "libevent" /\ at # "loop" /\ mem = "held" /\ LibeventInv /\ UNCHANGED <<ctx, ev, lib, loop>>
        /\ due \subseteq Handlers /\ want \subseteq Handlers /\ e \in LibeventRecord /\ e.entered
    BY <1>0, <1>6 DEF Base, Libevent!Return
  <2>2. CASE e.deleted
    <3>1. mem' = "freed" /\ e' = e /\ at' = "loop" /\ due' = {} /\ want' = want
      BY <1>6, <2>1, <2>2 DEF Libevent!Return, Libevent!Ends
    <3>2. LibeventInv' /\ ctx = "freed" /\ loop = Quiet
      BY <2>1, <2>2, <3>1
    <3> QED
      BY <1>0, <2>1, <3>1, <3>2 DEF Base
  <2>3. CASE ~e.deleted /\ due # {}
    <3>1. /\ at' \in Handlers /\ due' \subseteq Handlers
          /\ want' \subseteq want /\ want' \cap Interests = want \cap Interests
          /\ UNCHANGED <<mem, e>>
      BY <1>6, <2>1, <2>3 DEF Libevent!Return, Libevent!Calls, Libevent!First
    <3>2. LibeventInv'
      BY <2>1, <2>3, <3>1
    <3> QED
      BY <1>0, <2>1, <3>1, <3>2 DEF Base
  <2>4. CASE ~e.deleted /\ due = {}
    <3>1. at' = "loop" /\ due' = {} /\ UNCHANGED <<want, mem>> /\ e' = [e EXCEPT !.entered = FALSE]
      BY <1>6, <2>1, <2>4 DEF Libevent!Return, Libevent!Ends
    <3>2. /\ e' \in LibeventRecord
          /\ e'.on = e.on /\ e'.tv = e.tv /\ e'.made = e.made /\ ~e'.entered /\ ~e'.deleted
      BY <2>1, <2>4, <3>1
    <3>3. LibeventInv'
      BY <2>1, <2>4, <3>1, <3>2
    <3> QED
      BY <1>0, <2>1, <3>1, <3>2, <3>3 DEF Base
  <2> QED
    BY <2>2, <2>3, <2>4
<1> QED
  BY <1>1, <1>2, <1>3, <1>4, <1>5, <1>6 DEF Libevent!Next, Timevals, Libevent!Timevals

LEMMA LibsdeventStep ==
    ASSUME IInv, Libsdevent!Next
    PROVE  Base' /\ lib' = "libsdevent" /\ LibsdeventInv'
<1> DEFINE Goal == Base' /\ lib' = "libsdevent" /\ LibsdeventInv'
<1> USE DEF LibsdeventInv, LibsdeventRecord, LoopType, Types, Known, Bound, Quiet, Interests,
            Handlers, NoRecord, Libsdevent!Quiet, Libsdevent!Interests,
            Libsdevent!Handlers, Libsdevent!NoRecord, Libsdevent!Watching, Libsdevent!Hook,
            Libsdevent!Free, Libsdevent!Asks, Libsdevent!Drops, Libsdevent!Calls, Libsdevent!Ends
<1>0. Base /\ (lib = "libsdevent" => LibsdeventInv)
  BY DEF IInv, Own
<1>1. CASE Libsdevent!Attach
  <2>1. /\ lib' = "libsdevent" /\ ctx' = "live" /\ ev' = "data" /\ mem' = "held" /\ loop' = Quiet
        /\ at' = "loop" /\ due' = {} /\ want' = want
        /\ e' = [on |-> {}, fdSource |-> FALSE, timerSource |-> FALSE, entered |-> FALSE, deleted |-> FALSE]
        /\ "timeout" \notin want /\ ("qt" \notin Unguarded => want = {}) /\ "libsdevent" \in Adapters
    BY <1>0, <1>1, Vacant DEF Libsdevent!Attach, Libsdevent!Attached, Libsdevent!Attaching
  <2>2. /\ e' \in LibsdeventRecord
        /\ e'.on = {} /\ ~e'.fdSource /\ ~e'.timerSource /\ ~e'.entered /\ ~e'.deleted
        /\ loop'.watch = {} /\ ~loop'.timer /\ loop'.closing = {}
    BY <2>1
  <2>3. LibsdeventInv'
    BY <2>1, <2>2
  <2> QED
    BY <1>0, <2>1, <2>2, <2>3 DEF Base
<1>2. ASSUME NEW h \in Interests, Libsdevent!Add(h) \/ Libsdevent!Del(h) PROVE Goal
  <2>1. /\ lib = "libsdevent" /\ mem = "held" /\ Bound /\ ~e.deleted /\ LibsdeventInv
        /\ UNCHANGED <<lib, ctx, ev, mem, at, due>>
    BY <1>0, <1>2 DEF Base, Libsdevent!Add, Libsdevent!Del
  <2>2. PICK on \in SUBSET Interests :
          /\ \/ e' = e /\ loop' = loop /\ on = e.on
             \/ e' = [e EXCEPT !.on = on, !.fdSource = (on # {})] /\ loop' = [loop EXCEPT !.watch = on]
          /\ "qt" \notin Unguarded => on = want' \cap Interests
          /\ want' = want \cup {h} \/ want' = want \ {h}
    <3>1. CASE Libsdevent!Add(h)
      <4>1. e.on \cup {h} \in SUBSET Interests
        BY <2>1
      <4>2. e' = [e EXCEPT !.on = e.on \cup {h}, !.fdSource = (e.on \cup {h} # {})] \/ (h \in e.on /\ e' = e /\ loop' = loop)
        BY <2>1, <3>1 DEF Libsdevent!Add
      <4>3. CASE h \in e.on
        <5>1. e' = e /\ loop' = loop /\ want' = want \cup {h}
          BY <2>1, <3>1, <4>3 DEF Libsdevent!Add
        <5>2. e.on \in SUBSET Interests /\ ("qt" \notin Unguarded => e.on = want' \cap Interests)
          BY <2>1, <4>3, <5>1
        <5> QED
          BY <5>1, <5>2
      <4>4. CASE h \notin e.on
        <5>1. /\ e' = [e EXCEPT !.on = e.on \cup {h}, !.fdSource = (e.on \cup {h} # {})]
              /\ loop' = [loop EXCEPT !.watch = e.on \cup {h}] /\ want' = want \cup {h}
          BY <2>1, <3>1, <4>2, <4>4 DEF Libsdevent!Add
        <5> QED
          BY <2>1, <4>1, <5>1
      <4> QED
        BY <4>3, <4>4
    <3>2. CASE Libsdevent!Del(h)
      <4>1. e.on \ {h} \in SUBSET Interests
        BY <2>1
      <4> QED
        BY <2>1, <3>2, <4>1 DEF Libsdevent!Del
    <3> QED
      BY <1>2, <3>1, <3>2
  <2>3. /\ e' \in LibsdeventRecord
        /\ e'.on = on /\ e'.fdSource = (on # {}) /\ e'.timerSource = e.timerSource
        /\ e'.entered = e.entered /\ ~e'.deleted
    BY <2>1, <2>2
  <2>4. /\ loop' \in LoopType
        /\ loop'.watch = on /\ loop'.timer = loop.timer /\ loop'.closing = {}
    BY <1>0, <2>1, <2>2 DEF Base
  <2>5. want' \subseteq Handlers
    BY <1>0, <2>2 DEF Base
  <2>6. LibsdeventInv'
    BY <2>1, <2>2, <2>3, <2>4
  <2> QED
    BY <1>0, <2>1, <2>3, <2>4, <2>5, <2>6 DEF Base
<1>3. ASSUME NEW tv \in Timevals, Libsdevent!SetTimeout(tv) PROVE Goal
  BY <1>0, <1>3 DEF Base, Libsdevent!SetTimeout, Libsdevent!Schedules
<1>4. CASE Libsdevent!Cleanup
  <2>1. /\ lib = "libsdevent" /\ mem = "held" /\ Bound /\ ~e.deleted /\ LibsdeventInv
        /\ UNCHANGED <<lib, ev, at, due>> /\ ctx' = "freed" /\ want' = {}
    BY <1>0, <1>4 DEF Base, Libsdevent!Cleanup, Libsdevent!Closes
  <2>2. CASE e.entered
    <3>1. mem' = "held" /\ loop' = loop /\ e' = [e EXCEPT !.deleted = TRUE]
      BY <1>4, <2>1, <2>2 DEF Libsdevent!Cleanup
    <3>2. /\ e' \in LibsdeventRecord
          /\ e'.on = e.on /\ e'.fdSource = e.fdSource /\ e'.timerSource = e.timerSource
          /\ e'.entered = e.entered /\ e'.deleted
      BY <2>1, <3>1
    <3>3. LibsdeventInv'
      BY <2>1, <2>2, <3>1, <3>2
    <3> QED
      BY <1>0, <2>1, <3>1, <3>2, <3>3 DEF Base
  <2>3. CASE ~e.entered
    <3>1. mem' = "freed" /\ loop' = Quiet /\ e' = e
      BY <1>4, <2>1, <2>3 DEF Libsdevent!Cleanup, Libsdevent!Destroy
    <3>2. LibsdeventInv'
      BY <2>1, <2>3, <3>1
    <3> QED
      BY <1>0, <2>1, <3>1, <3>2 DEF Base
  <2> QED
    BY <2>2, <2>3
<1>5. CASE Libsdevent!TimeoutHandler
  <2>1. /\ lib = "libsdevent" /\ at = "loop" /\ loop.timer /\ LibsdeventInv
        /\ at' = "timeout" /\ due' = {} /\ want' = want \ {"timeout"}
        /\ UNCHANGED <<ctx, ev, lib, mem, e>> /\ loop' = [loop EXCEPT !.timer = FALSE]
    BY <1>0, <1>5 DEF Libsdevent!TimeoutHandler, Libsdevent!Calls
  <2>2. mem = "held"
    BY <1>0, <2>1 DEF Base
  <2>3. /\ loop' \in LoopType
        /\ loop'.watch = loop.watch /\ ~loop'.timer /\ loop'.closing = {}
    BY <1>0, <2>1, <2>2 DEF Base
  <2>4. LibsdeventInv'
    BY <2>1, <2>2, <2>3
  <2> QED
    BY <1>0, <2>1, <2>2, <2>3, <2>4 DEF Base
<1>6. ASSUME NEW S \in SUBSET Interests, Libsdevent!Handler(S) PROVE Goal
  <2>1. /\ lib = "libsdevent" /\ at = "loop" /\ S # {} /\ S \subseteq loop.watch /\ LibsdeventInv
        /\ at' = Libsdevent!First(S) /\ due' = S \ {Libsdevent!First(S)} /\ want' = want \ ({at'} \cap {"timeout"})
        /\ e' = [e EXCEPT !.entered = TRUE] /\ UNCHANGED <<ctx, ev, lib, mem, loop>>
    BY <1>0, <1>6 DEF Libsdevent!Handler, Libsdevent!Calls
  <2>2. mem = "held" /\ ~e.deleted /\ Bound
    BY <1>0, <2>1 DEF Base
  <2>3. at' \in Interests /\ due' \subseteq Interests /\ want' = want
    BY <2>1 DEF Libsdevent!First
  <2>4. /\ e' \in LibsdeventRecord
        /\ e'.on = e.on /\ e'.fdSource = e.fdSource /\ e'.timerSource = e.timerSource
        /\ e'.entered /\ ~e'.deleted
    BY <2>1, <2>2
  <2>5. LibsdeventInv'
    BY <2>1, <2>2, <2>3, <2>4
  <2> QED
    BY <1>0, <2>1, <2>2, <2>3, <2>4, <2>5 DEF Base
<1>7. CASE Libsdevent!ReturnTimeout
  BY <1>0, <1>7 DEF Base, Libsdevent!ReturnTimeout
<1>8. CASE Libsdevent!Return
  <2>1. /\ lib = "libsdevent" /\ at \in Interests /\ mem = "held" /\ LibsdeventInv /\ UNCHANGED <<ctx, ev, lib>>
        /\ due \subseteq Interests /\ e \in LibsdeventRecord /\ e.entered
    BY <1>0, <1>8 DEF Libsdevent!Return
  <2>2. CASE e.deleted
    <3>1. mem' = "freed" /\ loop' = Quiet /\ e' = e /\ at' = "loop" /\ due' = {} /\ want' = want
      BY <1>8, <2>1, <2>2 DEF Libsdevent!Return, Libsdevent!Ends, Libsdevent!Destroy
    <3>2. LibsdeventInv' /\ ctx = "freed"
      BY <2>1, <2>2, <3>1
    <3> QED
      BY <1>0, <2>1, <3>1, <3>2 DEF Base
  <2>3. CASE ~e.deleted /\ due # {}
    <3>1. /\ at' \in Interests /\ due' \subseteq Interests /\ want' = want
          /\ UNCHANGED <<mem, e, loop>>
      BY <1>8, <2>1, <2>3 DEF Libsdevent!Return, Libsdevent!Calls, Libsdevent!First
    <3>2. LibsdeventInv'
      BY <2>1, <2>3, <3>1
    <3> QED
      BY <1>0, <2>1, <3>1, <3>2 DEF Base
  <2>4. CASE ~e.deleted /\ due = {}
    <3>1. at' = "loop" /\ due' = {} /\ UNCHANGED <<want, mem, loop>> /\ e' = [e EXCEPT !.entered = FALSE]
      BY <1>8, <2>1, <2>4 DEF Libsdevent!Return, Libsdevent!Ends
    <3>2. /\ e' \in LibsdeventRecord
          /\ e'.on = e.on /\ e'.fdSource = e.fdSource /\ e'.timerSource = e.timerSource
          /\ ~e'.entered /\ ~e'.deleted
      BY <2>1, <2>4, <3>1
    <3>3. Bound /\ ("qt" \notin Unguarded => e.on = want \cap Interests)
      BY <2>1, <2>4
    <3>4. LibsdeventInv'
      BY <2>1, <2>4, <3>1, <3>2, <3>3
    <3> QED
      BY <1>0, <2>1, <3>1, <3>2, <3>4 DEF Base
  <2> QED
    BY <2>2, <2>3, <2>4
<1> QED
  BY <1>1, <1>2, <1>3, <1>4, <1>5, <1>6, <1>7, <1>8 DEF Libsdevent!Next, Timevals, Libsdevent!Timevals

LEMMA LibuvStep ==
    ASSUME IInv, Libuv!Next
    PROVE  Base' /\ lib' = "libuv" /\ LibuvInv'
<1> DEFINE Goal == Base' /\ lib' = "libuv" /\ LibuvInv'
<1> USE DEF LibuvInv, LibuvRecord, LoopType, Types, Known, Bound, Quiet, Interests, Handlers,
            NoRecord, Libuv!Quiet, Libuv!Interests,
            Libuv!Handlers, Libuv!NoRecord, Libuv!Watching, Libuv!Hook, Libuv!Free, Libuv!Asks,
            Libuv!Drops, Libuv!Calls, Libuv!Ends
<1>0. Base /\ (lib = "libuv" => LibuvInv)
  BY DEF IInv, Own
<1>1. CASE Libuv!Attach
  <2>1. /\ lib' = "libuv" /\ ctx' = "live" /\ at' = "loop" /\ due' = {} /\ want' = want
        /\ loop = Quiet /\ "timeout" \notin want /\ ("qt" \notin Unguarded => want = {}) /\ "libuv" \in Adapters
    BY <1>0, <1>1, Vacant DEF Libuv!Attach, Libuv!Attaching
  <2>2. CASE mem' = "held" /\ ev' = "data" /\ e' = Libuv!Fresh /\ loop' = Quiet
    <3>1. /\ e' \in LibuvRecord
          /\ e'.on = {} /\ e'.context /\ e'.handle /\ ~e'.timer
      BY <2>2 DEF Libuv!Fresh
    <3>2. loop' \in LoopType /\ loop'.watch = {} /\ ~loop'.timer /\ loop'.closing = {}
      BY <2>2
    <3>3. LibuvInv'
      BY <2>1, <2>2, <3>1, <3>2
    <3> QED
      BY <1>0, <2>1, <2>2, <3>1, <3>2, <3>3 DEF Base
  <2>3. CASE "libuv" \in Refusing /\ mem' \in {"none", "freed"} /\ ev' = "null" /\ e' = e /\ loop' = loop
    BY <1>0, <2>1, <2>3 DEF Base
  <2> QED
    BY <1>1, <2>2, <2>3 DEF Libuv!Attach
<1>2. ASSUME NEW h \in Interests, Libuv!Add(h) \/ Libuv!Del(h) PROVE Goal
  BY <1>0, <1>2 DEF Base, Libuv!Add, Libuv!Del
<1>3. ASSUME NEW tv \in Timevals, Libuv!SetTimeout(tv) PROVE Goal
  BY <1>0, <1>3 DEF Base, Libuv!SetTimeout, Libuv!Schedules
<1>4. CASE Libuv!Cleanup
  BY <1>0, <1>4 DEF Base, Libuv!Cleanup, Libuv!Closes
<1>5. CASE Libuv!OnTimerClose \/ Libuv!OnHandleClose
  <2>1. /\ lib = "libuv" /\ at = "loop" /\ LibuvInv /\ UNCHANGED <<ctx, ev, want, at, due, lib>>
        /\ loop.closing # {}
    BY <1>0, <1>5 DEF Libuv!OnTimerClose, Libuv!OnHandleClose, Libuv!Closed
  <2>2. mem = "held" /\ ~e.context /\ ctx = "freed" /\ e \in LibuvRecord
    BY <1>0, <2>1 DEF Base
  <2>3. CASE Libuv!OnTimerClose
    <3>1. "timer" \in loop.closing /\ loop' = [loop EXCEPT !.closing = @ \ {"timer"}] /\ e' = [e EXCEPT !.timer = FALSE]
          /\ mem' = IF e.handle THEN "held" ELSE "freed"
      BY <2>2, <2>3 DEF Libuv!OnTimerClose, Libuv!Closed
    <3>2. /\ e' \in LibuvRecord
          /\ e'.on = e.on /\ ~e'.context /\ (e'.handle <=> e.handle) /\ ~e'.timer
      BY <2>2, <3>1
    <3>3. loop = [watch |-> {}, timer |-> FALSE,
                  closing |-> (IF e.handle THEN {"handle"} ELSE {}) \cup {"timer"}]
      BY <2>1, <2>2, <3>1
    <3>4. loop' = [watch |-> {}, timer |-> FALSE, closing |-> IF e.handle THEN {"handle"} ELSE {}]
      <4>1. ((IF e.handle THEN {"handle"} ELSE {}) \cup {"timer"}) \ {"timer"} = IF e.handle THEN {"handle"} ELSE {}
        OBVIOUS
      <4> QED
        BY <3>1, <3>3, <4>1
    <3>5. LibuvInv'
      BY <2>1, <2>2, <3>1, <3>2, <3>4
    <3>6. loop' \in LoopType /\ (mem' # "held" => loop' = Quiet)
      <4>1. CASE e.handle
        <5>1. mem' = "held" /\ loop' = [watch |-> {}, timer |-> FALSE, closing |-> {"handle"}]
          BY <3>1, <3>4, <4>1
        <5> QED
          BY <5>1
      <4>2. CASE ~e.handle
        BY <3>4, <4>2
      <4> QED
        BY <4>1, <4>2
    <3> QED
      BY <1>0, <2>1, <2>2, <3>1, <3>2, <3>5, <3>6 DEF Base
  <2>4. CASE Libuv!OnHandleClose
    <3>1. "handle" \in loop.closing /\ loop' = [loop EXCEPT !.closing = @ \ {"handle"}] /\ e' = [e EXCEPT !.handle = FALSE]
          /\ mem' = IF e.timer THEN "held" ELSE "freed"
      BY <2>2, <2>4 DEF Libuv!OnHandleClose, Libuv!Closed
    <3>2. /\ e' \in LibuvRecord
          /\ e'.on = e.on /\ ~e'.context /\ (e'.timer <=> e.timer) /\ ~e'.handle
      BY <2>2, <3>1
    <3>3. loop = [watch |-> {}, timer |-> FALSE,
                  closing |-> {"handle"} \cup (IF e.timer THEN {"timer"} ELSE {})]
      BY <2>1, <2>2, <3>1
    <3>4. loop' = [watch |-> {}, timer |-> FALSE, closing |-> IF e.timer THEN {"timer"} ELSE {}]
      <4>1. ({"handle"} \cup (IF e.timer THEN {"timer"} ELSE {})) \ {"handle"} = IF e.timer THEN {"timer"} ELSE {}
        OBVIOUS
      <4> QED
        BY <3>1, <3>3, <4>1
    <3>5. LibuvInv'
      BY <2>1, <2>2, <3>1, <3>2, <3>4
    <3>6. loop' \in LoopType /\ (mem' # "held" => loop' = Quiet)
      <4>1. CASE e.timer
        <5>1. mem' = "held" /\ loop' = [watch |-> {}, timer |-> FALSE, closing |-> {"timer"}]
          BY <3>1, <3>4, <4>1
        <5> QED
          BY <5>1
      <4>2. CASE ~e.timer
        BY <3>4, <4>2
      <4> QED
        BY <4>1, <4>2
    <3> QED
      BY <1>0, <2>1, <2>2, <3>1, <3>2, <3>5, <3>6 DEF Base
  <2> QED
    BY <1>5, <2>3, <2>4
<1>6. ASSUME NEW S \in SUBSET Interests, Libuv!Poll(S) PROVE Goal
  BY <1>0, <1>6 DEF Base, Libuv!Poll
<1>7. CASE Libuv!Timeout
  <2>1. /\ lib = "libuv" /\ at = "loop" /\ loop.timer /\ LibuvInv
        /\ at' = "timeout" /\ due' = {} /\ want' = want \ {"timeout"}
        /\ UNCHANGED <<ctx, ev, lib, mem, e>> /\ loop' = [loop EXCEPT !.timer = FALSE]
    BY <1>0, <1>7 DEF Libuv!Timeout, Libuv!Calls
  <2>2. mem = "held" /\ e.context /\ Bound
    BY <1>0, <2>1 DEF Base
  <2>3. /\ loop' \in LoopType
        /\ loop'.watch = loop.watch /\ ~loop'.timer /\ loop'.closing = {}
    BY <1>0, <2>1, <2>2 DEF Base
  <2>4. LibuvInv'
    BY <2>1, <2>2, <2>3
  <2> QED
    BY <1>0, <2>1, <2>2, <2>3, <2>4 DEF Base
<1>8. CASE Libuv!Return
  BY <1>0, <1>8 DEF Base, Libuv!Return
<1> QED
  BY <1>1, <1>2, <1>3, <1>4, <1>5, <1>6, <1>7, <1>8 DEF Libuv!Next, Timevals, Libuv!Timevals

LEMMA LibevStep ==
    ASSUME IInv, Libev!Next
    PROVE  Base' /\ lib' = "libev" /\ LibevInv'
<1> DEFINE Goal == Base' /\ lib' = "libev" /\ LibevInv'
<1> USE DEF LibevInv, LoopType, Types, Known, Bound, Quiet, Interests, Handlers, NoRecord,
            Libev!Quiet, Libev!Interests,
            Libev!Handlers, Libev!NoRecord, Libev!Watching, Libev!Hook, Libev!Free, Libev!Asks,
            Libev!Drops, Libev!Calls, Libev!Ends
<1>0. Base /\ (lib = "libev" => LibevInv)
  BY DEF IInv, Own
<1>1. CASE Libev!Attach
  BY <1>0, <1>1, Vacant DEF Base, Libev!Attach, Libev!Attached, Libev!Attaching
<1>2. ASSUME NEW h \in Interests, Libev!Add(h) \/ Libev!Del(h) PROVE Goal
  BY <1>0, <1>2 DEF Base, Libev!Add, Libev!Del, Libev!Set
<1>3. ASSUME NEW tv \in Timevals, Libev!SetTimeout(tv) PROVE Goal
  BY <1>0, <1>3 DEF Base, Libev!SetTimeout, Libev!Schedules
<1>4. CASE Libev!Cleanup
  BY <1>0, <1>4 DEF Base, Libev!Cleanup, Libev!Closes
<1>5. ASSUME NEW h \in Handlers, Libev!Event(h) PROVE Goal
  BY <1>0, <1>5 DEF Base, Libev!Event
<1>6. CASE Libev!Return
  BY <1>0, <1>6 DEF Base, Libev!Return
<1> QED
  BY <1>1, <1>2, <1>3, <1>4, <1>5, <1>6 DEF Libev!Next, Timevals, Libev!Timevals

LEMMA AeStep ==
    ASSUME IInv, Ae!Next
    PROVE  Base' /\ lib' = "ae" /\ AeInv'
<1> DEFINE Goal == Base' /\ lib' = "ae" /\ AeInv'
<1> USE DEF AeInv, LoopType, Types, Known, Bound, Quiet, Interests, Handlers, NoRecord, Ae!Quiet,
            Ae!Interests,
            Ae!Handlers, Ae!NoRecord, Ae!Watching, Ae!Hook, Ae!Free, Ae!Asks, Ae!Drops, Ae!Calls,
            Ae!Ends
<1>0. Base /\ (lib = "ae" => AeInv)
  BY DEF IInv, Own
<1>1. CASE Ae!Attach
  BY <1>0, <1>1, Vacant DEF Base, Ae!Attach, Ae!Attached, Ae!Attaching
<1>2. ASSUME NEW h \in Interests, Ae!Add(h) \/ Ae!Del(h) PROVE Goal
  BY <1>0, <1>2 DEF Base, Ae!Add, Ae!Del
<1>3. CASE Ae!Cleanup
  BY <1>0, <1>3 DEF Base, Ae!Cleanup, Ae!Closes
<1>4. ASSUME NEW h \in Interests, Ae!Event(h) PROVE Goal
  BY <1>0, <1>4 DEF Base, Ae!Event
<1>5. CASE Ae!Return
  BY <1>0, <1>5 DEF Base, Ae!Return
<1> QED
  BY <1>1, <1>2, <1>3, <1>4, <1>5 DEF Ae!Next, Timevals, Ae!Timevals

LEMMA RedisModuleStep ==
    ASSUME IInv, RedisModule!Next
    PROVE  Base' /\ lib' = "redismodule" /\ RedisModuleInv'
<1> DEFINE Goal == Base' /\ lib' = "redismodule" /\ RedisModuleInv'
<1> USE DEF RedisModuleInv, RedisModuleRecord, LoopType, Types, Known, Bound, Quiet, Interests,
            Handlers, NoRecord, RedisModule!Quiet, RedisModule!Interests,
            RedisModule!Handlers, RedisModule!NoRecord, RedisModule!Watching, RedisModule!Hook,
            RedisModule!Free, RedisModule!Asks, RedisModule!Drops, RedisModule!Calls, RedisModule!Ends
<1>0. Base /\ (lib = "redismodule" => RedisModuleInv)
  BY DEF IInv, Own
<1>1. CASE RedisModule!Attach
  BY <1>0, <1>1, Vacant DEF Base, RedisModule!Attach, RedisModule!Attached, RedisModule!Attaching
<1>2. ASSUME NEW h \in Interests, RedisModule!Add(h) \/ RedisModule!Del(h) PROVE Goal
  BY <1>0, <1>2 DEF Base, RedisModule!Add, RedisModule!Del
<1>3. ASSUME NEW tv \in Timevals, RedisModule!SetTimeout(tv) PROVE Goal
  <2>1. /\ lib = "redismodule" /\ mem = "held" /\ Bound /\ RedisModuleInv /\ UNCHANGED <<lib, ctx, ev, mem, at, due>>
        /\ want' = IF tv = "zero" THEN want \ {"timeout"} ELSE want \cup {"timeout"}
        /\ e' = [e EXCEPT !.timer_active = TRUE] /\ loop' = [loop EXCEPT !.timer = TRUE]
    BY <1>0, <1>3 DEF Base, RedisModule!SetTimeout, RedisModule!Schedules
  <2>2. e' \in RedisModuleRecord /\ e'.on = e.on /\ e'.timer_active
    BY <2>1
  <2>3. loop' = [watch |-> e.on, timer |-> TRUE, closing |-> {}]
    <3>1. loop = [watch |-> e.on, timer |-> e.timer_active, closing |-> {}]
      BY <2>1, <2>2
    <3> QED
      BY <2>1, <2>2, <3>1
  <2>4. want' \subseteq Handlers /\ want' \cap Interests = want \cap Interests
    BY <1>0, <2>1 DEF Base
  <2>5. RedisModuleInv'
    <3>1. loop' = [watch |-> e'.on, timer |-> e'.timer_active, closing |-> {}] /\ loop'.timer
      BY <2>2, <2>3
    <3> QED
      BY <2>1, <2>2, <2>4, <3>1
  <2> QED
    BY <1>0, <2>1, <2>2, <2>3, <2>4, <2>5 DEF Base
<1>4. CASE RedisModule!Cleanup
  <2>1. /\ lib = "redismodule" /\ RedisModuleInv /\ UNCHANGED <<lib, ev, at, due>>
        /\ ctx' = "freed" /\ want' = {} /\ mem = "held" /\ mem' = "freed"
        /\ e' = [e EXCEPT !.on = {}, !.timer_active = FALSE]
        /\ loop' = [loop EXCEPT !.watch = @ \ e.on, !.timer = RedisModule!Stopped]
    BY <1>0, <1>4 DEF Base, RedisModule!Cleanup, RedisModule!Closes
  <2>2. RedisModule!Stopped = FALSE
    BY <2>1 DEF RedisModule!Stopped
  <2>3. loop' = Quiet /\ e'.on = {}
    <3>1. loop = [watch |-> e.on, timer |-> e.timer_active, closing |-> {}] /\ e \in RedisModuleRecord
      BY <2>1, <2>2
    <3> QED
      BY <2>1, <2>2, <3>1
  <2>4. RedisModuleInv'
    BY <2>1, <2>3
  <2>5. Types'
    <3>1. loop'.watch = {} /\ loop'.timer = FALSE /\ loop'.closing = {}
      BY <2>3
    <3>2. /\ ev \in {"unset", "null", "data"} /\ at \in {"loop"} \cup Handlers
          /\ due \subseteq Handlers /\ lib \in {"none"} \cup Adapters
      BY <1>0 DEF Base
    <3> QED
      BY <2>1, <2>3, <3>1, <3>2
  <2> QED
    BY <1>0, <2>1, <2>3, <2>4, <2>5 DEF Base
<1>5. ASSUME NEW h \in Interests, RedisModule!Event(h) PROVE Goal
  BY <1>0, <1>5 DEF Base, RedisModule!Event
<1>6. CASE RedisModule!Timeout
  <2>1. /\ lib = "redismodule" /\ at = "loop" /\ loop.timer /\ RedisModuleInv
        /\ at' = "timeout" /\ due' = {} /\ want' = want \ {"timeout"}
        /\ UNCHANGED <<ctx, ev, lib, mem>>
        /\ e' = [e EXCEPT !.timer_active = FALSE] /\ loop' = [loop EXCEPT !.timer = FALSE]
    BY <1>0, <1>6 DEF RedisModule!Timeout, RedisModule!Calls
  <2>2. mem = "held"
    BY <1>0, <2>1 DEF Base
  <2>3. e' \in RedisModuleRecord /\ e'.on = e.on /\ ~e'.timer_active
    BY <2>1, <2>2
  <2>4. loop' = [watch |-> e'.on, timer |-> e'.timer_active, closing |-> {}]
    <3>1. loop = [watch |-> e.on, timer |-> e.timer_active, closing |-> {}]
      BY <2>1, <2>2
    <3> QED
      BY <2>3, <2>1, <2>2, <3>1
  <2>5. RedisModuleInv'
    BY <2>1, <2>2, <2>3, <2>4
  <2> QED
    BY <1>0, <2>1, <2>2, <2>3, <2>4, <2>5 DEF Base
<1>7. CASE RedisModule!Return
  BY <1>0, <1>7 DEF Base, RedisModule!Return
<1> QED
  BY <1>1, <1>2, <1>3, <1>4, <1>5, <1>6, <1>7 DEF RedisModule!Next, Timevals, RedisModule!Timevals

LEMMA IvykisStep ==
    ASSUME IInv, Ivykis!Next
    PROVE  Base' /\ lib' = "ivykis" /\ BareInv'
<1> DEFINE Goal == Base' /\ lib' = "ivykis" /\ BareInv'
<1> USE DEF BareInv, LoopType, Types, Known, Bound, Quiet, Interests, Handlers, NoRecord,
            Ivykis!Quiet, Ivykis!Interests,
            Ivykis!Handlers, Ivykis!NoRecord, Ivykis!Watching, Ivykis!Hook, Ivykis!Free, Ivykis!Asks,
            Ivykis!Drops, Ivykis!Calls, Ivykis!Ends
<1>0. Base /\ (lib = "ivykis" => BareInv)
  BY DEF IInv, Own
<1>1. CASE Ivykis!Attach
  BY <1>0, <1>1, Vacant DEF Base, Ivykis!Attach, Ivykis!Attached, Ivykis!Attaching
<1>2. ASSUME NEW h \in Interests, Ivykis!Add(h) \/ Ivykis!Del(h) PROVE Goal
  BY <1>0, <1>2 DEF Base, Ivykis!Add, Ivykis!Del
<1>3. CASE Ivykis!Cleanup
  BY <1>0, <1>3 DEF Base, Ivykis!Cleanup, Ivykis!Closes
<1>4. ASSUME NEW h \in Interests, Ivykis!Event(h) PROVE Goal
  BY <1>0, <1>4 DEF Base, Ivykis!Event
<1>5. CASE Ivykis!Return
  BY <1>0, <1>5 DEF Base, Ivykis!Return
<1> QED
  BY <1>1, <1>2, <1>3, <1>4, <1>5 DEF Ivykis!Next, Timevals, Ivykis!Timevals

LEMMA QtStep ==
    ASSUME IInv, Qt!Next
    PROVE  Base' /\ lib' = "qt" /\ QtInv'
<1> DEFINE Goal == Base' /\ lib' = "qt" /\ QtInv'
<1> USE DEF QtInv, QtRecord, LoopType, Types, Known, Bound, Quiet, Interests, Handlers, NoRecord,
            Qt!Quiet, Qt!Interests,
            Qt!Handlers, Qt!NoRecord, Qt!Watching, Qt!Hook, Qt!Free, Qt!Asks, Qt!Drops, Qt!Calls,
            Qt!Ends
<1>0. Base /\ (lib = "qt" => QtInv)
  BY DEF IInv, Own
<1>1. CASE Qt!Construct
  <2>1. /\ lib = "none" /\ mem = "none" /\ loop = Quiet /\ lib' = "qt" /\ "qt" \in Adapters
        /\ mem' = "held" /\ e' = [on |-> {}, m_ctx |-> "null"] /\ UNCHANGED <<ctx, ev, want, at, due, loop>>
    BY <1>0, <1>1 DEF Base, Qt!Construct
  <2>2. ctx = "live" /\ ev # "data" /\ due = {} /\ "timeout" \notin want /\ ("qt" \notin Unguarded => want = {})
    BY <1>0, <2>1 DEF IInv, Base
  <2>3. e' \in QtRecord /\ e'.on = {} /\ e'.m_ctx = "null"
    BY <2>1
  <2>4. QtInv'
    BY <2>1, <2>2, <2>3
  <2> QED
    BY <1>0, <2>1, <2>2, <2>3, <2>4 DEF Base
<1>2. CASE Qt!Destruct
  BY <1>0, <1>2 DEF Base, Qt!Destruct
<1>3. CASE Qt!SetContext
  BY <1>0, <1>3, Vacant DEF Base, Qt!SetContext
<1>4. CASE Qt!Reconnect
  <2>1. /\ lib = "qt" /\ mem = "held" /\ ctx = "freed" /\ at = "loop" /\ QtInv
        /\ ctx' = "live" /\ ev' = "unset" /\ UNCHANGED <<want, at, due, lib, mem, e, loop>>
    BY <1>0, <1>4 DEF Qt!Reconnect
  <2>2. want = {} /\ e.m_ctx # "live" /\ e.on = {}
    BY <2>1
  <2>3. QtInv'
    BY <2>1, <2>2
  <2> QED
    BY <1>0, <2>1, <2>2, <2>3 DEF Base
<1>5. ASSUME NEW h \in Interests, Qt!Add(h) \/ Qt!Del(h) PROVE Goal
  BY <1>0, <1>5 DEF Base, Qt!Add, Qt!Del, Qt!Set
<1>6. CASE Qt!Cleanup
  BY <1>0, <1>6 DEF Base, Qt!Cleanup, Qt!Closes
<1>7. ASSUME NEW h \in Interests, Qt!Slot(h) PROVE Goal
  BY <1>0, <1>7 DEF Base, Qt!Slot
<1>8. CASE Qt!Return
  BY <1>0, <1>8 DEF Base, Qt!Return
<1> QED
  BY <1>1, <1>2, <1>3, <1>4, <1>5, <1>6, <1>7, <1>8 DEF Qt!Next, Timevals, Qt!Timevals

LEMMA MacosxStep ==
    ASSUME IInv, Macosx!Next
    PROVE  Base' /\ lib' = "macosx" /\ BareInv'
<1> DEFINE Goal == Base' /\ lib' = "macosx" /\ BareInv'
<1> USE DEF BareInv, LoopType, Types, Known, Bound, Quiet, Interests, Handlers, NoRecord,
            Macosx!Quiet, Macosx!Interests,
            Macosx!Handlers, Macosx!NoRecord, Macosx!Watching, Macosx!Hook, Macosx!Free, Macosx!Asks,
            Macosx!Drops, Macosx!Calls, Macosx!Ends
<1>0. Base /\ (lib = "macosx" => BareInv)
  BY DEF IInv, Own
<1>1. CASE Macosx!Attach
  <2>1. /\ lib' = "macosx" /\ ctx' = "live" /\ ev' = "data" /\ at' = "loop" /\ due' = {} /\ want' = want
        /\ e' = NoRecord /\ "timeout" \notin want /\ ("qt" \notin Unguarded => want = {}) /\ "macosx" \in Adapters
        /\ \/ mem' = "held" /\ loop' = [Quiet EXCEPT !.watch = Interests]
           \/ "macosx" \in Refusing /\ mem' = "freed" /\ loop' = Quiet
    BY <1>0, <1>1, Vacant DEF Macosx!Attach, Macosx!Attaching
  <2>2. e'.on = {}
    BY <2>1
  <2>3. /\ loop' \in LoopType
        /\ loop' = [Quiet EXCEPT !.watch = loop'.watch]
        /\ mem' = "held" => loop'.watch = Interests
    <3>1. CASE mem' = "held"
      BY <2>1, <3>1
    <3>2. CASE mem' # "held"
      <4>1. loop' = [watch |-> {}, timer |-> FALSE, closing |-> {}]
        BY <2>1, <3>2
      <4>2. [Quiet EXCEPT !.watch = {}] = [watch |-> {}, timer |-> FALSE, closing |-> {}]
        OBVIOUS
      <4> QED
        BY <3>2, <4>1, <4>2
    <3> QED
      BY <3>1, <3>2
  <2>4. BareInv'
    BY <1>0, <2>1, <2>3 DEF Base
  <2>5. want \subseteq Handlers
    BY <1>0 DEF Base
  <2> QED
    BY <1>0, <2>1, <2>2, <2>3, <2>4, <2>5 DEF Base
<1>2. ASSUME NEW h \in Interests, Macosx!Add(h) \/ Macosx!Del(h) PROVE Goal
  BY <1>0, <1>2 DEF Base, Macosx!Add, Macosx!Del, Macosx!Enable
<1>3. CASE Macosx!Cleanup
  BY <1>0, <1>3 DEF Base, Macosx!Cleanup, Macosx!Closes, Macosx!FreeRunLoop
<1>4. ASSUME NEW h \in Interests, Macosx!AsyncCallback(h) PROVE Goal
  BY <1>0, <1>4 DEF Base, Macosx!AsyncCallback
<1>5. CASE Macosx!Return
  BY <1>0, <1>5 DEF Base, Macosx!Return
<1> QED
  BY <1>1, <1>2, <1>3, <1>4, <1>5 DEF Macosx!Next, Timevals, Macosx!Timevals

LEMMA GlibStep ==
    ASSUME IInv, Glib!Next
    PROVE  Base' /\ lib' = "glib" /\ GlibInv'
<1> DEFINE Goal == Base' /\ lib' = "glib" /\ GlibInv'
<1> USE DEF GlibInv, GlibRecord, LoopType, Types, Known, Bound, Quiet, Interests, Handlers, NoRecord,
            Glib!Quiet, Glib!Interests,
            Glib!Handlers, Glib!NoRecord, Glib!Watching, Glib!Hook, Glib!Free, Glib!Asks, Glib!Drops,
            Glib!Calls, Glib!Ends
<1>0. Base /\ (lib = "glib" => GlibInv)
  BY DEF IInv, Own
<1>1. CASE Glib!SourceNew
  BY <1>0, <1>1, Vacant DEF Base, Glib!SourceNew, Glib!Attached, Glib!Attaching
<1>2. ASSUME NEW h \in Interests, Glib!Add(h) \/ Glib!Del(h) PROVE Goal
  BY <1>0, <1>2 DEF Base, Glib!Add, Glib!Del
<1>3. CASE Glib!Cleanup
  BY <1>0, <1>3 DEF Base, Glib!Cleanup, Glib!Closes
<1>4. ASSUME NEW S \in SUBSET Interests, Glib!Poll(S) PROVE Goal
  BY <1>0, <1>4 DEF Base, Glib!Poll
<1>5. CASE Glib!Dispatch
  <2>1. /\ lib = "glib" /\ at = "loop" /\ due # {} /\ due \subseteq Interests /\ GlibInv
        /\ UNCHANGED <<ctx, ev, lib, mem, e, loop>>
    BY <1>0, <1>5 DEF Glib!Dispatch
  <2>2. at' \in Interests /\ due' \subseteq {"read"} /\ want' = want /\ due' \subseteq due
    BY <1>5, <2>1 DEF Glib!Dispatch, Glib!Calls
  <2>3. mem = "held"
    BY <1>5, <2>1 DEF Glib!Dispatch
  <2>4. GlibInv'
    BY <2>1, <2>2, <2>3
  <2> QED
    BY <1>0, <2>1, <2>2, <2>4 DEF Base
<1>6. CASE Glib!Return
  BY <1>0, <1>6 DEF Base, Glib!Return
<1>7. CASE Glib!Finalize
  BY <1>0, <1>7 DEF Base, Glib!Finalize
<1> QED
  BY <1>1, <1>2, <1>3, <1>4, <1>5, <1>6, <1>7 DEF Glib!Next, Timevals, Glib!Timevals

LEMMA LibhvStep ==
    ASSUME IInv, Libhv!Next
    PROVE  Base' /\ lib' = "libhv" /\ LibhvInv'
<1> DEFINE Goal == Base' /\ lib' = "libhv" /\ LibhvInv'
<1> USE DEF LibhvInv, LoopType, Types, Known, Bound, Quiet, Interests, Handlers, NoRecord,
            Libhv!Quiet, Libhv!Interests,
            Libhv!Handlers, Libhv!NoRecord, Libhv!Watching, Libhv!Hook, Libhv!Free, Libhv!Asks,
            Libhv!Drops, Libhv!Calls, Libhv!Ends
<1>0. Base /\ (lib = "libhv" => LibhvInv)
  BY DEF IInv, Own
<1>1. CASE Libhv!Attach
  BY <1>0, <1>1, Vacant DEF Base, Libhv!Attach, Libhv!Attached, Libhv!Attaching
<1>2. ASSUME NEW h \in Interests, Libhv!Add(h) \/ Libhv!Del(h) PROVE Goal
  BY <1>0, <1>2 DEF Base, Libhv!Add, Libhv!Del
<1>3. ASSUME NEW tv \in Timevals, Libhv!SetTimeout(tv) PROVE Goal
  BY <1>0, <1>3 DEF Base, Libhv!SetTimeout, Libhv!Schedules
<1>4. CASE Libhv!Cleanup
  BY <1>0, <1>4 DEF Base, Libhv!Cleanup, Libhv!Closes
<1>5. ASSUME NEW S \in SUBSET Interests, Libhv!HandleEvents(S) PROVE Goal
  <2>1. /\ lib = "libhv" /\ at = "loop" /\ S # {} /\ S \subseteq loop.watch /\ LibhvInv
        /\ UNCHANGED <<ctx, ev, lib, mem, e, loop>>
    BY <1>0, <1>5 DEF Libhv!HandleEvents
  <2>2. mem = "held" /\ Bound
    <3>1. loop.watch # {}
      BY <2>1
    <3> QED
      BY <1>0, <2>1, <3>1 DEF Base
  <2>3. at' \in Interests /\ due' \subseteq {"write"} /\ want' = want
    BY <1>5, <2>1 DEF Libhv!HandleEvents, Libhv!Calls
  <2>4. LibhvInv'
    BY <2>1, <2>2, <2>3
  <2> QED
    BY <1>0, <2>1, <2>2, <2>3, <2>4 DEF Base
<1>6. CASE Libhv!Timeout
  <2>1. /\ lib = "libhv" /\ at = "loop" /\ loop.timer /\ LibhvInv
        /\ at' = "timeout" /\ due' = {} /\ want' = want \ {"timeout"}
        /\ UNCHANGED <<ctx, ev, lib, mem, e>> /\ loop' = [loop EXCEPT !.timer = FALSE]
    BY <1>0, <1>6 DEF Libhv!Timeout, Libhv!Calls
  <2>2. mem = "held" /\ Bound
    BY <1>0, <2>1 DEF Base
  <2>3. /\ loop' \in LoopType
        /\ loop'.watch = loop.watch /\ ~loop'.timer /\ loop'.closing = {}
    BY <1>0, <2>1, <2>2 DEF Base
  <2>4. LibhvInv'
    BY <2>1, <2>2, <2>3
  <2> QED
    BY <1>0, <2>1, <2>2, <2>3, <2>4 DEF Base
<1>7. CASE Libhv!Return
  BY <1>0, <1>7 DEF Base, Libhv!Return
<1> QED
  BY <1>1, <1>2, <1>3, <1>4, <1>5, <1>6, <1>7 DEF Libhv!Next, Timevals, Libhv!Timevals

-----------------------------------------------------------------------------
(* The invariant, and what it is for. *)

LEMMA InitInv == Init => IInv
  BY DEF Init, LoopType, IInv, Base, Own, Types, Known, Quiet, NoRecord, Interests, Handlers

LEMMA ConnectStep == ASSUME IInv, Connect PROVE IInv'
  BY DEF IInv, Base, Own, LoopType, Types, Known, Quiet, NoRecord, Interests, Handlers, Connect

LEMMA StutterStep == ASSUME IInv, UNCHANGED vars PROVE IInv'
  BY DEF IInv, Base, Own, Types, Known, Bound, vars, PollInv, LibeventInv, LibsdeventInv, LibuvInv,
         LibevInv, AeInv, RedisModuleInv, BareInv, QtInv, GlibInv, LibhvInv

LEMMA StepInv == IInv /\ [Next]_vars => IInv'
<1> SUFFICES ASSUME IInv, [Next]_vars PROVE IInv'
  OBVIOUS
<1>1. CASE Poll!Next        BY <1>1, PollStep DEF IInv, Own
<1>2. CASE Libevent!Next    BY <1>2, LibeventStep DEF IInv, Own
<1>3. CASE Libsdevent!Next  BY <1>3, LibsdeventStep DEF IInv, Own
<1>4. CASE Libuv!Next       BY <1>4, LibuvStep DEF IInv, Own
<1>5. CASE Libev!Next       BY <1>5, LibevStep DEF IInv, Own
<1>6. CASE Ae!Next          BY <1>6, AeStep DEF IInv, Own
<1>7. CASE RedisModule!Next BY <1>7, RedisModuleStep DEF IInv, Own
<1>8. CASE Ivykis!Next      BY <1>8, IvykisStep DEF IInv, Own
<1>9. CASE Qt!Next          BY <1>9, QtStep DEF IInv, Own
<1>10. CASE Macosx!Next     BY <1>10, MacosxStep DEF IInv, Own
<1>11. CASE Glib!Next       BY <1>11, GlibStep DEF IInv, Own
<1>12. CASE Libhv!Next      BY <1>12, LibhvStep DEF IInv, Own
<1> QED
  BY <1>1, <1>2, <1>3, <1>4, <1>5, <1>6, <1>7, <1>8, <1>9, <1>10, <1>11, <1>12,
     ConnectStep, StutterStep DEF Next

LEMMA Invariance == Spec => []IInv
  BY InitInv, StepInv, PTL DEF Spec

\* Every variable keeps its type, and no record is freed twice, or used by a
\* hook when it was freed: in whatever order the hooks are called, a context is
\* freed and the closes of libuv are reported, and whatever fails while another
\* adapter than macosx attaches.  macosx leaves its hooks set and their data
\* in ac->ev when it has freed the record (macosx.h:118-135): cleanup frees it
\* again.
THEOREM NothingFreedTwice ==
    ASSUME "macosx" \notin Refusing
    PROVE  Spec => []TypeOK
<1>1. IInv => TypeOK
  BY DEF IInv, Base, TypeOK
<1> QED
  BY <1>1, Invariance, PTL

\* A timeout that the context has set stays set until it is served, for
\* every adapter but libhv and libsdevent, whatever the context asks for and
\* gives up after it.  libevent sets none without its event, and libuv none
\* without its timer (libuv.h:120-122), and neither says so; what fails in
\* another adapter does no harm.
THEOREM TimeoutsStay ==
    ASSUME Refusing \cap {"libevent", "libuv"} = {}
    PROVE  Spec => []TimeoutKept
<1>1. IInv => TimeoutKept
  <2> SUFFICES ASSUME IInv, ctx = "live", "timeout" \in want, lib \notin {"libhv", "libsdevent"}
               PROVE  "timeout" \in Open
    BY DEF TimeoutKept
  <2>1. ev = "data" /\ lib \in Known
    BY DEF IInv, Base
  <2>2. lib \notin {"none", "ae", "ivykis", "qt", "macosx", "glib"} /\ mem = "held"
    BY <2>1 DEF IInv, Base, Own, AeInv, BareInv, QtInv, GlibInv
  <2>3. CASE lib = "poll"
    BY <2>1, <2>2, <2>3 DEF IInv, Own, PollInv, Bound, Open, Poll!Open
  <2>4. CASE lib \in {"libevent", "libuv", "libev", "redismodule"}
    <3>1. loop.timer
      BY <2>1, <2>2, <2>4 DEF IInv, Own, LibeventInv, LibuvInv, LibevInv, RedisModuleInv, Bound
    <3> QED
      BY <2>4, <3>1 DEF Open, Watching
  <2> QED
    BY <2>1, <2>2, <2>3, <2>4 DEF Known
<1> QED
  BY <1>1, Invariance, PTL

\* The hooks are idempotent in every order of calls: what is watched is what
\* the context has asked for last.  libevent watches nothing without its event
\* (libevent.h:171), and macosx nothing when its socket or source could not be
\* made; qt can take the data from a context that goes on asking, when its
\* object is deleted under a context that is live (qt.h:75-79).
THEOREM HooksIdempotent ==
    ASSUME Refusing \cap {"libevent", "macosx"} = {}, "qt" \notin Unguarded
    PROVE  Spec => []WatchesAsked
<1>1. IInv => WatchesAsked
  <2> SUFFICES ASSUME IInv, ctx = "live", ev = "data"
               PROVE  /\ want \cap Interests \subseteq Open
                      /\ lib \notin {"ivykis", "macosx"} => Open \cap Interests = want \cap Interests
    BY DEF WatchesAsked
  <2>1. lib \in Known /\ mem = "held"
    BY DEF IInv, Base
  <2>2. lib # "none" /\ loop.watch \subseteq Interests /\ want \subseteq Handlers
    BY <2>1 DEF IInv, Base, Types
  <2>3. CASE lib = "poll"
    <3>1. e.on = want \cap Interests
      BY <2>1, <2>3 DEF IInv, Own, PollInv, Bound
    <3> QED
      BY <2>1, <2>3, <3>1 DEF Open, Poll!Open, Interests
  <2>4. CASE lib = "glib"
    <3>1. e.on = want \cap Interests /\ e.fd
      BY <2>1, <2>4 DEF IInv, Own, GlibInv, Bound
    <3> QED
      BY <2>1, <2>4, <3>1 DEF Open, Glib!Open
  <2>5. CASE lib \in {"ivykis", "macosx"}
    <3>1. want \cap Interests \subseteq loop.watch
      BY <2>1, <2>5 DEF IInv, Own, BareInv
    <3> QED
      BY <2>5, <3>1 DEF Open, Watching
  <2>6. CASE lib \in Known \ {"none", "poll", "glib", "ivykis", "macosx"}
    <3>1. loop.watch = want \cap Interests
      <4>1. CASE lib = "libevent"    BY <2>1, <4>1 DEF IInv, Own, LibeventInv
      <4>2. CASE lib = "libsdevent"  BY <2>1, <4>2 DEF IInv, Own, LibsdeventInv
      <4>3. CASE lib = "libuv"       BY <2>1, <4>3 DEF IInv, Own, LibuvInv
      <4>4. CASE lib = "libev"       BY <2>1, <4>4 DEF IInv, Own, LibevInv
      <4>5. CASE lib = "ae"          BY <2>1, <4>5 DEF IInv, Own, AeInv, Quiet
      <4>6. CASE lib = "redismodule" BY <2>1, <4>6 DEF IInv, Own, RedisModuleInv
      <4>7. CASE lib = "qt"          BY <2>1, <4>7 DEF IInv, Own, QtInv, Bound, Quiet
      <4>8. CASE lib = "libhv"       BY <2>1, <4>8 DEF IInv, Own, LibhvInv
      <4> QED
        BY <2>6, <4>1, <4>2, <4>3, <4>4, <4>5, <4>6, <4>7, <4>8 DEF Known
    <3> QED
      BY <2>6, <3>1 DEF Open, Watching, Interests
  <2> QED
    BY <2>1, <2>2, <2>3, <2>4, <2>5, <2>6
<1> QED
  BY <1>1, Invariance, PTL

\* Nothing follows a pointer to a record that is not held.  libevent uses an
\* event that was not made, libuv leaves hooks without data, macosx data that
\* was freed; the object of qt follows its context when it is deleted, and the
\* source of glib dispatches what was found for a context that is gone.
THEOREM RecordsOutliveTheirUse ==
    ASSUME Refusing \cap {"libevent", "libuv", "macosx"} = {}, Unguarded \cap {"qt", "glib"} = {}
    PROVE  Spec => []NoDangling
<1>1. IInv => NoDangling
  <2> SUFFICES ASSUME IInv PROVE NoDangling
    OBVIOUS
  <2>1. /\ lib \in Known /\ ev # "null" /\ Types
        /\ ctx = "live" /\ ev = "data" => mem = "held"
        /\ mem # "held" => loop.watch = {} /\ loop.timer = FALSE /\ loop.closing = {}
    BY DEF IInv, Base, Quiet
  <2>2. ctx = "live" => (ev = "unset" \/ (ev = "data" /\ mem = "held"))
    BY <2>1 DEF Types
  <2>3. lib = "poll" => Poll!Safe
    BY <2>1 DEF IInv, Own, PollInv, Poll!Safe
  <2>4. lib = "libevent" => Libevent!Safe
    BY <2>1 DEF IInv, Own, LibeventInv, Bound, Libevent!Safe, Libevent!Watching
  <2>5. lib = "libsdevent" => Libsdevent!Safe
    BY <2>1 DEF IInv, Own, LibsdeventInv, LibsdeventRecord, Libsdevent!Safe, Libsdevent!Watching, Libsdevent!Interests,
       Interests
  <2>6. lib = "libuv" => Libuv!Safe
    BY <2>1 DEF IInv, Own, LibuvInv, Libuv!Safe, Libuv!Watching, Libuv!Interests
  <2>7. lib = "libev" => Libev!Safe
    BY <2>1 DEF Libev!Safe, Libev!Watching
  <2>8. lib = "ae" => Ae!Safe
    BY <2>1 DEF Ae!Safe, Ae!Watching
  <2>9. lib = "redismodule" => RedisModule!Safe
    BY <2>1 DEF IInv, Own, RedisModuleInv, RedisModule!Safe, RedisModule!Watching
  <2>10. lib = "ivykis" => Ivykis!Safe
    BY <2>1 DEF Ivykis!Safe, Ivykis!Watching
  <2>11. lib = "qt" => Qt!Safe
    BY <2>1 DEF IInv, Own, QtInv, Qt!Safe, Qt!Watching
  <2>12. lib = "macosx" => Macosx!Safe
    BY <2>1 DEF Macosx!Safe, Macosx!Watching
  <2>13. lib = "glib" => Glib!Safe
    BY <2>1 DEF IInv, Own, GlibInv, Glib!Safe
  <2>14. lib = "libhv" => Libhv!Safe
    BY <2>1 DEF IInv, Own, LibhvInv, Libhv!Safe
  <2> QED
    BY <2>1, <2>2, <2>3, <2>4, <2>5, <2>6, <2>7, <2>8, <2>9, <2>10, <2>11, <2>12, <2>13, <2>14
    DEF NoDangling, Known
<1> QED
  BY <1>1, Invariance, PTL

\* Data in ac->ev says that something is attached (macosx.h:108), for every
\* adapter but macosx whatever fails, and for macosx where nothing does.
THEOREM DataIsAttached ==
    ASSUME "macosx" \notin Refusing
    PROVE  Spec => []DataMeansAttached
<1>1. IInv => DataMeansAttached
  BY DEF IInv, Base, DataMeansAttached
<1> QED
  BY <1>1, Invariance, PTL

-----------------------------------------------------------------------------
(* Every adapter keeps the promise of EventHooks. *)

Kept == [Promise!Next]_(Promise!shown)

LEMMA Calling ==
    ASSUME ctx = "live", ctx' = "live", at = "loop", due = {}, at' \in Open, due' \subseteq Open \ {at'}
    PROVE  Kept
  BY DEF Kept, Promise!Next, Promise!Call, Promise!Ready

LEMMA Going ==
    ASSUME ctx = "live", ctx' = "live", at' \in due, due' \subseteq due \ {at'}
    PROVE  Kept
  BY DEF Kept, Promise!Next, Promise!Call, Promise!Ready

LEMMA Returning ==
    ASSUME at # "loop", at' = "loop", due' = {}, ctx' = ctx
    PROVE  Kept
  BY DEF Kept, Promise!Next, Promise!Return

LEMMA Closing ==
    ASSUME ctx = "live", ctx' = "freed", at' = at, due' = due
    PROVE  Kept
  BY DEF Kept, Promise!Next, Promise!Close

LEMMA Nothing ==
    ASSUME ctx' = ctx, at' = at, due' = due
    PROVE  Kept
  BY DEF Kept, Promise!shown

LEMMA LibeventKeeps ==
    ASSUME IInv, Libevent!Next
    PROVE  Kept
<1>0. Base /\ (lib = "libevent" => LibeventInv)
  BY DEF IInv, Own
<1> USE DEF LibeventInv, LibeventRecord, Base, Bound, Interests, Handlers, Libevent!Interests,
            Libevent!Handlers
<1>1. CASE Libevent!Attach \/ (\E h \in Interests : Libevent!Add(h) \/ Libevent!Del(h))
           \/ (\E tv \in Timevals : Libevent!SetTimeout(tv))
  BY <1>1, Nothing DEF Libevent!Attach, Libevent!Attached, Libevent!Attaching, Libevent!Add,
     Libevent!Del, Libevent!SetTimeout, Libevent!Schedules, Libevent!Hook, Libevent!Asks, Libevent!Drops
<1>2. CASE Libevent!Cleanup
  BY <1>2, Closing DEF Libevent!Cleanup, Libevent!Closes, Libevent!Hook
<1>3. ASSUME NEW S \in SUBSET Handlers, Libevent!Handler(S) PROVE Kept
  <2>1. lib = "libevent" /\ at = "loop" /\ due = {} /\ mem = "held" /\ Bound /\ ctx' = ctx
    BY <1>0, <1>3 DEF Libevent!Handler, Libevent!First, Libevent!Watching, Quiet
  <2>2. at' \in Open /\ due' \subseteq Open \ {at'}
    BY <1>0, <1>3, <2>1 DEF Libevent!Handler, Libevent!First, Libevent!Calls, Libevent!Watching, Open,
       Watching
  <2> QED
    BY <2>1, <2>2, Calling
<1>4. CASE Libevent!Return
  <2>1. lib = "libevent" /\ at # "loop" /\ LibeventInv /\ mem = "held" /\ ctx' = ctx /\ due \subseteq Handlers
    BY <1>0, <1>4 DEF Libevent!Return, Types
  <2>2. CASE ~e.deleted /\ due # {}
    <3>1. at' = Libevent!First(due) /\ due' = due \ {at'} /\ ctx = "live"
      BY <1>4, <2>1, <2>2 DEF Libevent!Return, Libevent!Calls
    <3>2. Libevent!First(due) \in due
      BY <2>1, <2>2 DEF Libevent!First
    <3> QED
      BY <2>1, <3>1, <3>2, Going
  <2>3. CASE e.deleted \/ due = {}
    BY <1>4, <2>1, <2>3, Returning DEF Libevent!Return, Libevent!Ends
  <2> QED
    BY <2>2, <2>3
<1> QED
  BY <1>1, <1>2, <1>3, <1>4 DEF Libevent!Next, Timevals, Libevent!Timevals

LEMMA LibsdeventKeeps ==
    ASSUME IInv, Libsdevent!Next
    PROVE  Kept
<1>0. Base /\ (lib = "libsdevent" => LibsdeventInv)
  BY DEF IInv, Own
<1> USE DEF LibsdeventInv, LibsdeventRecord, Base, Bound, Interests, Handlers, Libsdevent!Interests,
            Libsdevent!Handlers
<1>1. CASE Libsdevent!Attach \/ (\E h \in Interests : Libsdevent!Add(h) \/ Libsdevent!Del(h))
           \/ (\E tv \in Timevals : Libsdevent!SetTimeout(tv))
  BY <1>1, Nothing DEF Libsdevent!Attach, Libsdevent!Attached, Libsdevent!Attaching, Libsdevent!Add,
     Libsdevent!Del, Libsdevent!SetTimeout, Libsdevent!Schedules, Libsdevent!Hook, Libsdevent!Asks,
     Libsdevent!Drops
<1>2. CASE Libsdevent!Cleanup
  BY <1>2, Closing DEF Libsdevent!Cleanup, Libsdevent!Closes, Libsdevent!Hook
<1>3. CASE Libsdevent!TimeoutHandler
  <2>1. lib = "libsdevent" /\ at = "loop" /\ due = {} /\ mem = "held" /\ Bound /\ ctx' = ctx
    BY <1>0, <1>3 DEF Libsdevent!TimeoutHandler, Libsdevent!Watching, Quiet
  <2>2. at' \in Open /\ due' \subseteq Open \ {at'}
    BY <1>0, <1>3, <2>1 DEF Libsdevent!TimeoutHandler, Libsdevent!Calls, Libsdevent!Watching, Open,
       Watching
  <2> QED
    BY <2>1, <2>2, Calling
<1>4. ASSUME NEW S \in SUBSET Interests, Libsdevent!Handler(S) PROVE Kept
  <2>1. lib = "libsdevent" /\ at = "loop" /\ due = {} /\ mem = "held" /\ Bound /\ ctx' = ctx
    BY <1>0, <1>4 DEF Libsdevent!Handler, Libsdevent!First, Libsdevent!Watching, Quiet
  <2>2. at' \in Open /\ due' \subseteq Open \ {at'}
    BY <1>0, <1>4, <2>1 DEF Libsdevent!Handler, Libsdevent!First, Libsdevent!Calls,
       Libsdevent!Watching, Open, Watching
  <2> QED
    BY <2>1, <2>2, Calling
<1>5. CASE Libsdevent!Return \/ Libsdevent!ReturnTimeout
  BY <1>0, <1>5, Going, Returning DEF Libsdevent!Return, Libsdevent!ReturnTimeout, Libsdevent!First,
     Libsdevent!Calls, Libsdevent!Ends
<1> QED
  BY <1>1, <1>2, <1>3, <1>4, <1>5 DEF Libsdevent!Next, Timevals, Libsdevent!Timevals

LEMMA LibuvKeeps ==
    ASSUME IInv, Libuv!Next
    PROVE  Kept
<1>0. Base /\ (lib = "libuv" => LibuvInv)
  BY DEF IInv, Own
<1> USE DEF LibuvInv, LibuvRecord, Base, Bound, Interests, Handlers, Libuv!Interests, Libuv!Handlers
<1>1. CASE Libuv!Attach \/ (\E h \in Interests : Libuv!Add(h) \/ Libuv!Del(h))
           \/ (\E tv \in Timevals : Libuv!SetTimeout(tv)) \/ Libuv!OnTimerClose \/ Libuv!OnHandleClose
  BY <1>1, Nothing DEF Libuv!Attach, Libuv!Attaching, Libuv!Add, Libuv!Del, Libuv!SetTimeout,
     Libuv!Schedules, Libuv!OnTimerClose, Libuv!OnHandleClose, Libuv!Closed, Libuv!Hook, Libuv!Asks,
     Libuv!Drops
<1>2. CASE Libuv!Cleanup
  BY <1>2, Closing DEF Libuv!Cleanup, Libuv!Closes, Libuv!Hook
<1>3. CASE Libuv!Timeout
  <2>1. lib = "libuv" /\ at = "loop" /\ due = {} /\ mem = "held" /\ Bound /\ ctx' = ctx
    BY <1>0, <1>3 DEF Libuv!Timeout, Libuv!Watching, Quiet
  <2>2. at' \in Open /\ due' \subseteq Open \ {at'}
    BY <1>0, <1>3, <2>1 DEF Libuv!Timeout, Libuv!Calls, Libuv!Watching, Open, Watching
  <2> QED
    BY <2>1, <2>2, Calling
<1>4. ASSUME NEW S \in SUBSET Interests, Libuv!Poll(S) PROVE Kept
  <2>1. lib = "libuv" /\ at = "loop" /\ due = {} /\ mem = "held" /\ Bound /\ ctx' = ctx
    BY <1>0, <1>4 DEF Libuv!Poll, Libuv!Watching, Quiet
  <2>2. at' \in Open /\ due' \subseteq Open \ {at'}
    BY <1>0, <1>4, <2>1 DEF Libuv!Poll, Libuv!Calls, Libuv!Watching, Open, Watching
  <2> QED
    BY <2>1, <2>2, Calling
<1>5. CASE Libuv!Return
  BY <1>0, <1>5, Going, Returning DEF Libuv!Return, Libuv!Calls, Libuv!Ends
<1> QED
  BY <1>1, <1>2, <1>3, <1>4, <1>5 DEF Libuv!Next, Timevals, Libuv!Timevals

LEMMA LibevKeeps ==
    ASSUME IInv, Libev!Next
    PROVE  Kept
<1>0. Base /\ (lib = "libev" => LibevInv)
  BY DEF IInv, Own
<1> USE DEF LibevInv, Base, Bound, Interests, Handlers, Libev!Interests, Libev!Handlers
<1>1. CASE Libev!Attach \/ (\E h \in Interests : Libev!Add(h) \/ Libev!Del(h))
           \/ (\E tv \in Timevals : Libev!SetTimeout(tv))
  BY <1>1, Nothing DEF Libev!Attach, Libev!Attached, Libev!Attaching, Libev!Add, Libev!Del,
     Libev!SetTimeout, Libev!Schedules, Libev!Hook, Libev!Asks, Libev!Drops
<1>2. CASE Libev!Cleanup
  BY <1>2, Closing DEF Libev!Cleanup, Libev!Closes, Libev!Hook
<1>3. ASSUME NEW h \in Handlers, Libev!Event(h) PROVE Kept
  <2>1. lib = "libev" /\ at = "loop" /\ due = {} /\ mem = "held" /\ Bound /\ ctx' = ctx
    BY <1>0, <1>3 DEF Libev!Event, Libev!Watching, Quiet
  <2>2. at' \in Open /\ due' \subseteq Open \ {at'}
    BY <1>0, <1>3, <2>1 DEF Libev!Event, Libev!Calls, Libev!Watching, Open, Watching
  <2> QED
    BY <2>1, <2>2, Calling
<1>4. CASE Libev!Return
  BY <1>0, <1>4, Going, Returning DEF Libev!Return, Libev!Ends
<1> QED
  BY <1>1, <1>2, <1>3, <1>4 DEF Libev!Next, Timevals, Libev!Timevals

LEMMA AeKeeps ==
    ASSUME IInv, Ae!Next
    PROVE  Kept
<1>0. Base /\ (lib = "ae" => AeInv)
  BY DEF IInv, Own
<1> USE DEF AeInv, Base, Bound, Interests, Handlers, Ae!Interests, Ae!Handlers
<1>1. CASE Ae!Attach \/ (\E h \in Interests : Ae!Add(h) \/ Ae!Del(h))
  BY <1>1, Nothing DEF Ae!Attach, Ae!Attached, Ae!Attaching, Ae!Add, Ae!Del, Ae!Hook, Ae!Asks, Ae!Drops
<1>2. CASE Ae!Cleanup
  BY <1>2, Closing DEF Ae!Cleanup, Ae!Closes, Ae!Hook
<1>3. ASSUME NEW h \in Interests, Ae!Event(h) PROVE Kept
  <2>1. lib = "ae" /\ at = "loop" /\ due = {} /\ mem = "held" /\ Bound /\ ctx' = ctx
    BY <1>0, <1>3 DEF Ae!Event, Ae!Watching, Quiet
  <2>2. at' \in Open /\ due' \subseteq Open \ {at'}
    BY <1>0, <1>3, <2>1 DEF Ae!Event, Ae!Calls, Ae!Watching, Open, Watching
  <2> QED
    BY <2>1, <2>2, Calling
<1>4. CASE Ae!Return
  BY <1>0, <1>4, Going, Returning DEF Ae!Return, Ae!Ends
<1> QED
  BY <1>1, <1>2, <1>3, <1>4 DEF Ae!Next

LEMMA RedisModuleKeeps ==
    ASSUME IInv, RedisModule!Next
    PROVE  Kept
<1>0. Base /\ (lib = "redismodule" => RedisModuleInv)
  BY DEF IInv, Own
<1> USE DEF RedisModuleInv, RedisModuleRecord, Base, Bound, Interests, Handlers,
            RedisModule!Interests, RedisModule!Handlers
<1>1. CASE RedisModule!Attach \/ (\E h \in Interests : RedisModule!Add(h) \/ RedisModule!Del(h))
           \/ (\E tv \in Timevals : RedisModule!SetTimeout(tv))
  BY <1>1, Nothing DEF RedisModule!Attach, RedisModule!Attached, RedisModule!Attaching,
     RedisModule!Add, RedisModule!Del, RedisModule!SetTimeout, RedisModule!Schedules,
     RedisModule!Hook, RedisModule!Asks, RedisModule!Drops
<1>2. CASE RedisModule!Cleanup
  BY <1>2, Closing DEF RedisModule!Cleanup, RedisModule!Closes, RedisModule!Hook
<1>3. CASE RedisModule!Timeout
  <2>1. lib = "redismodule" /\ at = "loop" /\ due = {} /\ mem = "held" /\ Bound /\ ctx' = ctx
    BY <1>0, <1>3 DEF RedisModule!Timeout, RedisModule!Watching, Quiet
  <2>2. at' \in Open /\ due' \subseteq Open \ {at'}
    BY <1>0, <1>3, <2>1 DEF RedisModule!Timeout, RedisModule!Calls, RedisModule!Watching, Open, Watching
  <2> QED
    BY <2>1, <2>2, Calling
<1>4. ASSUME NEW h \in Interests, RedisModule!Event(h) PROVE Kept
  <2>1. lib = "redismodule" /\ at = "loop" /\ due = {} /\ mem = "held" /\ Bound /\ ctx' = ctx
    BY <1>0, <1>4 DEF RedisModule!Event, RedisModule!Watching, Quiet
  <2>2. at' \in Open /\ due' \subseteq Open \ {at'}
    BY <1>0, <1>4, <2>1 DEF RedisModule!Event, RedisModule!Calls, RedisModule!Watching, Open, Watching
  <2> QED
    BY <2>1, <2>2, Calling
<1>5. CASE RedisModule!Return
  BY <1>0, <1>5, Going, Returning DEF RedisModule!Return, RedisModule!Ends
<1> QED
  BY <1>1, <1>2, <1>3, <1>4, <1>5 DEF RedisModule!Next, Timevals, RedisModule!Timevals

LEMMA IvykisKeeps ==
    ASSUME IInv, Ivykis!Next
    PROVE  Kept
<1>0. Base /\ (lib = "ivykis" => BareInv)
  BY DEF IInv, Own
<1> USE DEF BareInv, Base, Bound, Interests, Handlers, Ivykis!Interests, Ivykis!Handlers
<1>1. CASE Ivykis!Attach \/ (\E h \in Interests : Ivykis!Add(h) \/ Ivykis!Del(h))
  BY <1>1, Nothing DEF Ivykis!Attach, Ivykis!Attached, Ivykis!Attaching, Ivykis!Add, Ivykis!Del,
     Ivykis!Hook, Ivykis!Asks, Ivykis!Drops
<1>2. CASE Ivykis!Cleanup
  BY <1>2, Closing DEF Ivykis!Cleanup, Ivykis!Closes, Ivykis!Hook
<1>3. ASSUME NEW h \in Interests, Ivykis!Event(h) PROVE Kept
  <2>1. lib = "ivykis" /\ at = "loop" /\ due = {} /\ mem = "held" /\ Bound /\ ctx' = ctx
    BY <1>0, <1>3 DEF Ivykis!Event, Ivykis!Watching, Quiet
  <2>2. at' \in Open /\ due' \subseteq Open \ {at'}
    BY <1>0, <1>3, <2>1 DEF Ivykis!Event, Ivykis!Calls, Ivykis!Watching, Open, Watching
  <2> QED
    BY <2>1, <2>2, Calling
<1>4. CASE Ivykis!Return
  BY <1>0, <1>4, Going, Returning DEF Ivykis!Return, Ivykis!Ends
<1> QED
  BY <1>1, <1>2, <1>3, <1>4 DEF Ivykis!Next

LEMMA QtKeeps ==
    ASSUME IInv, Qt!Next
    PROVE  Kept
<1>0. Base /\ (lib = "qt" => QtInv)
  BY DEF IInv, Own
<1> USE DEF QtInv, QtRecord, Base, Bound, Interests, Handlers, Qt!Interests, Qt!Handlers
<1>1. CASE Qt!Construct \/ Qt!Destruct \/ Qt!SetContext \/ (\E h \in Interests : Qt!Add(h) \/ Qt!Del(h))
  BY <1>1, Nothing DEF Qt!Construct, Qt!Destruct, Qt!SetContext, Qt!Add, Qt!Del, Qt!Hook, Qt!Asks,
     Qt!Drops
<1>2. CASE Qt!Cleanup
  BY <1>2, Closing DEF Qt!Cleanup, Qt!Closes, Qt!Hook
<1>3. ASSUME NEW h \in Interests, Qt!Slot(h) PROVE Kept
  <2>1. lib = "qt" /\ at = "loop" /\ due = {} /\ mem = "held" /\ Bound /\ ctx' = ctx
    BY <1>0, <1>3 DEF Qt!Slot, Qt!Watching, Quiet
  <2>2. at' \in Open /\ due' \subseteq Open \ {at'}
    BY <1>0, <1>3, <2>1 DEF Qt!Slot, Qt!Calls, Qt!Watching, Open, Watching
  <2> QED
    BY <2>1, <2>2, Calling
<1>4. CASE Qt!Return
  BY <1>0, <1>4, Going, Returning DEF Qt!Return, Qt!Ends
<1>5. CASE Qt!Reconnect
  BY <1>0, <1>5 DEF Qt!Reconnect, Kept, Promise!Next, Promise!Connect
<1> QED
  BY <1>1, <1>2, <1>3, <1>4, <1>5 DEF Qt!Next

LEMMA MacosxKeeps ==
    ASSUME IInv, Macosx!Next
    PROVE  Kept
<1>0. Base /\ (lib = "macosx" => BareInv)
  BY DEF IInv, Own
<1> USE DEF BareInv, Base, Bound, Interests, Handlers, Macosx!Interests, Macosx!Handlers
<1>1. CASE Macosx!Attach \/ (\E h \in Interests : Macosx!Add(h) \/ Macosx!Del(h))
  BY <1>1, Nothing DEF Macosx!Attach, Macosx!Attaching, Macosx!Add, Macosx!Del, Macosx!Hook,
     Macosx!Asks, Macosx!Drops
<1>2. CASE Macosx!Cleanup
  BY <1>2, Closing DEF Macosx!Cleanup, Macosx!Closes, Macosx!Hook
<1>3. ASSUME NEW h \in Interests, Macosx!AsyncCallback(h) PROVE Kept
  <2>1. lib = "macosx" /\ at = "loop" /\ due = {} /\ mem = "held" /\ Bound /\ ctx' = ctx
    BY <1>0, <1>3 DEF Macosx!AsyncCallback, Macosx!Watching, Quiet
  <2>2. at' \in Open /\ due' \subseteq Open \ {at'}
    BY <1>0, <1>3, <2>1 DEF Macosx!AsyncCallback, Macosx!Calls, Macosx!Watching, Open, Watching
  <2> QED
    BY <2>1, <2>2, Calling
<1>4. CASE Macosx!Return
  BY <1>0, <1>4, Going, Returning DEF Macosx!Return, Macosx!Ends
<1> QED
  BY <1>1, <1>2, <1>3, <1>4 DEF Macosx!Next

LEMMA LibhvKeeps ==
    ASSUME IInv, "libhv" \notin Unguarded, Libhv!Next
    PROVE  Kept
<1>0. Base /\ (lib = "libhv" => LibhvInv)
  BY DEF IInv, Own
<1> USE DEF LibhvInv, Base, Bound, Interests, Handlers, Libhv!Interests, Libhv!Handlers
<1>1. CASE Libhv!Attach \/ (\E h \in Interests : Libhv!Add(h) \/ Libhv!Del(h))
           \/ (\E tv \in Timevals : Libhv!SetTimeout(tv))
  BY <1>1, Nothing DEF Libhv!Attach, Libhv!Attached, Libhv!Attaching, Libhv!Add, Libhv!Del,
     Libhv!SetTimeout, Libhv!Schedules, Libhv!Hook, Libhv!Asks, Libhv!Drops
<1>2. CASE Libhv!Cleanup
  BY <1>2, Closing DEF Libhv!Cleanup, Libhv!Closes, Libhv!Hook
<1>3. CASE Libhv!Timeout
  <2>1. lib = "libhv" /\ at = "loop" /\ due = {} /\ mem = "held" /\ Bound /\ ctx' = ctx
    BY <1>0, <1>3 DEF Libhv!Timeout, Libhv!Watching, Quiet
  <2>2. at' \in Open /\ due' \subseteq Open \ {at'}
    BY <1>0, <1>3, <2>1 DEF Libhv!Timeout, Libhv!Calls, Libhv!Watching, Open, Watching
  <2> QED
    BY <2>1, <2>2, Calling
<1>4. ASSUME NEW S \in SUBSET Interests, Libhv!HandleEvents(S) PROVE Kept
  <2>1. lib = "libhv" /\ at = "loop" /\ due = {} /\ mem = "held" /\ Bound /\ ctx' = ctx
    <3>1. loop.watch # {} /\ lib = "libhv" /\ at = "loop" /\ ctx' = ctx
      BY <1>4 DEF Libhv!HandleEvents
    <3> QED
      BY <1>0, <3>1 DEF Quiet
  <2>2. at' \in Open /\ due' \subseteq Open \ {at'}
    BY <1>0, <1>4, <2>1 DEF Libhv!HandleEvents, Libhv!Calls, Libhv!Watching, Open, Watching
  <2> QED
    BY <2>1, <2>2, Calling
<1>5. CASE Libhv!Return
  BY <1>0, <1>5, Going, Returning DEF Libhv!Return, Libhv!Calls, Libhv!Ends
<1> QED
  BY <1>1, <1>2, <1>3, <1>4, <1>5 DEF Libhv!Next, Timevals, Libhv!Timevals

LEMMA PollKeeps ==
    ASSUME IInv, Poll!Next
    PROVE  Kept
<1>0. Base /\ (lib = "poll" => PollInv)
  BY DEF IInv, Own
<1> USE DEF PollInv, PollRecord, Base, Bound, Interests, Poll!Interests
<1>1. CASE Poll!Attach \/ (\E h \in Interests : Poll!Add(h) \/ Poll!Del(h))
           \/ (\E tv \in Timevals : Poll!ScheduleTimer(tv)) \/ Poll!Clock
  BY <1>1, Nothing DEF Poll!Attach, Poll!Attached, Poll!Attaching, Poll!Add, Poll!Del,
     Poll!ScheduleTimer,
                       Poll!Schedules, Poll!Clock, Poll!Hook, Poll!Asks, Poll!Drops
<1>2. CASE Poll!Cleanup
  BY <1>2, Closing DEF Poll!Cleanup, Poll!Closes, Poll!Hook
<1>3. ASSUME NEW S \in SUBSET Interests, Poll!Tick(S) PROVE Kept
  <2> DEFINE r == [e EXCEPT !.in_tick = TRUE]
  <2>1. /\ lib = "poll" /\ ctx = "live" /\ ev = "data" /\ at = "loop" /\ mem = "held" /\ due = {}
        /\ S \subseteq e.on /\ ctx' = ctx /\ Poll!Continue(S, r)
    BY <1>0, <1>3 DEF Poll!Tick
  <2>2. Outcome(S, r) /\ r.deadline = e.deadline /\ ~r.deleted
    BY <1>0, <2>1, PollOutcome
  <2> HIDE DEF r
  <2>3. Open = e.on \cup (IF e.deadline # "none" THEN {"timeout"} ELSE {})
    BY <2>1 DEF Open, Poll!Open
  <2>4. \/ at' \in Open /\ due' \subseteq Open \ {at'}
        \/ at' = "loop" /\ due' = {}
    BY <2>1, <2>2, <2>3 DEF Outcome
  <2> QED
    BY <2>1, <2>4, Calling, Nothing
<1>4. CASE Poll!Return
  <2>1. /\ lib = "poll" /\ at # "loop" /\ mem = "held" /\ due \in SUBSET Interests /\ ctx' = ctx
        /\ ~e.deleted => ctx = "live"
    BY <1>0, <1>4 DEF Poll!Return
  <2>2. Outcome(due, e) \/ Outcome({}, e)
    BY <1>4, <2>1, PollOutcome DEF Poll!Return
  <2>3. \/ at' \in due /\ due' = due \ {at'} /\ ctx = "live"
        \/ at' = "timeout" /\ due' = {} /\ ctx = "live" /\ e.deadline = "past"
        \/ at' = "loop" /\ due' = {}
    BY <2>1, <2>2 DEF Outcome
  <2>4. ASSUME at' = "timeout", due' = {}, ctx = "live", e.deadline = "past" PROVE Kept
    <3>1. "timeout" \in Open
      BY <2>1, <2>4 DEF Open, Poll!Open
    <3> QED
      BY <2>1, <2>4, <3>1 DEF Kept, Promise!Next, Promise!Call, Promise!Ready
  <2> QED
    BY <2>1, <2>3, <2>4, Going, Returning
<1> QED
  BY <1>1, <1>2, <1>3, <1>4 DEF Poll!Next, Timevals, Poll!Timevals

LEMMA GlibKeeps ==
    ASSUME IInv, "glib" \notin Unguarded, Glib!Next
    PROVE  Kept
<1>0. Base /\ (lib = "glib" => GlibInv)
  BY DEF IInv, Own
<1> USE DEF GlibInv, GlibRecord, Base, Bound, Interests, Glib!Interests
<1>1. CASE Glib!SourceNew \/ (\E h \in Interests : Glib!Add(h) \/ Glib!Del(h))
  BY <1>1, Nothing DEF Glib!SourceNew, Glib!Attached, Glib!Attaching, Glib!Add, Glib!Del,
                       Glib!Hook, Glib!Asks, Glib!Drops
<1>2. CASE Glib!Cleanup
  BY <1>2, Closing DEF Glib!Cleanup, Glib!Closes, Glib!Hook
<1>3. ASSUME NEW S \in SUBSET Interests, Glib!Poll(S) PROVE Kept
  BY <1>0, <1>3 DEF Glib!Poll, Kept, Promise!Next, Promise!Report, Open, Glib!Open
<1>4. CASE Glib!Dispatch
  <2>1. /\ lib = "glib" /\ at = "loop" /\ due # {} /\ due \subseteq Interests /\ ctx = "live" /\ ctx' = ctx
    BY <1>0, <1>4 DEF Glib!Dispatch
  <2>2. at' \in due /\ due' = due \ {at'}
    BY <1>4, <2>1 DEF Glib!Dispatch, Glib!Calls
  <2> QED
    BY <2>1, <2>2, Going
<1>5. CASE Glib!Return
  BY <1>0, <1>5, Going, Returning DEF Glib!Return, Glib!Calls, Glib!Ends
<1>6. CASE Glib!Finalize
  BY <1>0, <1>6, Nothing DEF Glib!Finalize
<1> QED
  BY <1>1, <1>2, <1>3, <1>4, <1>5, <1>6 DEF Glib!Next

LEMMA PromiseStep ==
    ASSUME Unguarded \cap {"glib", "libhv"} = {}
    PROVE  IInv /\ [Next]_vars => Kept
<1> SUFFICES ASSUME IInv, [Next]_vars PROVE Kept
  OBVIOUS
<1>1. CASE Connect
  BY <1>1 DEF Connect, Kept, Promise!Next, Promise!Connect
<1>2. CASE UNCHANGED vars
  BY <1>2, Nothing DEF vars
<1> QED
  BY <1>1, <1>2, PollKeeps, LibeventKeeps, LibsdeventKeeps, LibuvKeeps, LibevKeeps, AeKeeps,
     RedisModuleKeeps, IvykisKeeps, QtKeeps, MacosxKeeps, GlibKeeps, LibhvKeeps DEF Next

\* Every adapter calls a handler on a live context only, only for what was
\* watched when it was reported, and once for each report.  glib and libhv call
\* the second handler of a report without a look at what the first has done.
THEOREM AdaptersKeepPromise ==
    ASSUME Unguarded \cap {"glib", "libhv"} = {}
    PROVE  Spec => KeepsPromise
<1>1. Init => Promise!Init
  BY DEF Init, Promise!Init
<1>2. IInv /\ [Next]_vars => [Promise!Next]_(Promise!shown)
  BY PromiseStep DEF Kept
<1> QED
  BY <1>1, <1>2, Invariance, PTL DEF Spec, KeepsPromise, Promise!Spec

\* No handler is called on a context that is gone (poll.h:100-101), whatever
\* fails while an adapter attaches, and whenever the context of any adapter
\* but glib and libhv is freed, its own handlers included.
THEOREM NoHandlerIsStale ==
    ASSUME Unguarded \cap {"glib", "libhv"} = {}
    PROVE  Spec => NoStaleHandler
<1>1. Kept => (at' # at /\ at' # "loop" => ctx = "live")
  BY DEF Kept, Promise!Next, Promise!Close, Promise!Connect, Promise!Report, Promise!Call,
     Promise!Return, Promise!shown
<1>2. IInv /\ [Next]_vars => Kept
  BY PromiseStep
<1> QED
  BY <1>1, <1>2, Invariance, PTL DEF Spec, NoStaleHandler
=============================================================================
