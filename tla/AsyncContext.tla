---------------------------- MODULE AsyncContext ----------------------------
(***************************************************************************)
(* One redisAsyncContext of hiredis, the event adapter attached to it, and *)
(* the event library underneath, in a program of one thread.               *)
(*                                                                         *)
(* The context's own code is not in this repository; its header is, and    *)
(* the adapters show how it is used.  Through the hooks in ac->ev it asks  *)
(* to be told of reads, writes and a timeout, and at last it calls         *)
(* cleanup and is freed.  It may do so in any handler that the adapter     *)
(* calls, or between the callbacks of the event loop.                      *)
(*                                                                         *)
(* The adapters' modules extend this one.                                  *)
(***************************************************************************)

CONSTANTS
  Adapters,   \* the adapters an application may attach
  Refusing,   \* those whose event library may fail while they attach or make a timer
  Unguarded   \* those whose context may be freed when they do not expect it

ASSUME ChoiceAssumption == Refusing \subseteq Adapters /\ Unguarded \subseteq Adapters

VARIABLES
  ctx,    \* the context: "live" or "freed"
  ev,     \* ac->ev: "unset", "null" (hooks set, no data) or "data"
  want,   \* what the context has asked for and not given up
  at,     \* "loop", or the handler of the context that is running
  due,    \* what the running callback has yet to look at
  lib,    \* the adapter that was attached, or "none"
  mem,    \* its record: "none", "held", "freed", or "corrupt": freed twice or used when freed
  e,      \* the fields of the record
  loop    \* what the event library holds for it

vars == <<ctx, ev, want, at, due, lib, mem, e, loop>>

Interests == {"read", "write"}
Handlers  == Interests \cup {"timeout"}

\* A struct timeval: zero, below a millisecond, or longer.
Timevals == {"zero", "tiny", "long"}

NoRecord == [on |-> {}]
Quiet == [watch |-> {}, timer |-> FALSE, closing |-> {}]

\* hi_free of the record.
Free == mem' = IF mem = "held" THEN "freed" ELSE "corrupt"

-----------------------------------------------------------------------------
(* What the context does.  Each hook of an adapter is one of these.        *)

\* A hook that is set is called, with the data whatever it points to.  Where
\* the hooks are set and there is no data (ev = "null"), the call reads from a
\* null pointer and the program ends: that is a state NoDangling excludes,
\* and it has no step.
Hook(l) == /\ lib = l /\ ctx = "live" /\ ev = "data"
           /\ UNCHANGED <<lib, ev, at, due>>

Asks(l, h)  == Hook(l) /\ want' = want \cup {h} /\ UNCHANGED ctx
Drops(l, h) == Hook(l) /\ want' = want \ {h} /\ UNCHANGED ctx

Schedules(l, tv) ==
  /\ Hook(l)
  /\ want' = IF tv = "zero" THEN want \ {"timeout"} ELSE want \cup {"timeout"}
  /\ UNCHANGED ctx

\* cleanup is the last hook to be called: the context is freed after it.
Closes(l) == Hook(l) /\ ctx' = "freed" /\ want' = {}

\* A new connection, once nothing is left of the last.
Connect ==
  /\ ctx = "freed" /\ at = "loop" /\ mem # "held"
  /\ ctx' = "live" /\ ev' = "unset" /\ want' = {} /\ due' = {}
  /\ lib' = "none" /\ mem' = "none" /\ e' = NoRecord /\ loop' = Quiet
  /\ UNCHANGED at

-----------------------------------------------------------------------------
(* Attaching, and the callbacks of the event library.                      *)

\* Nothing is attached when something is already attached.
Attaching(l) ==
  /\ l \in Adapters
  /\ ctx = "live" /\ ev # "data" /\ mem # "held" /\ at = "loop"
  /\ lib' = l
  /\ UNCHANGED <<ctx, want, at, due>>

Attached(l, record, registered) ==
  Attaching(l) /\ ev' = "data" /\ mem' = "held" /\ e' = record /\ loop' = registered

\* The adapter calls redisAsyncHandleRead, HandleWrite or HandleTimeout;
\* rest is what its callback looks at afterwards.  A timeout that is handed
\* on has been served.
Calls(h, rest) == at' = h /\ due' = rest /\ want' = want \ ({h} \cap {"timeout"})

\* The callback is over.
Ends == at' = "loop" /\ due' = {} /\ UNCHANGED want

\* What the event library may report now.
Watching == loop.watch \cup (IF loop.timer THEN {"timeout"} ELSE {})

Init ==
  /\ ctx = "live" /\ ev = "unset" /\ want = {} /\ at = "loop" /\ due = {}
  /\ lib = "none" /\ mem = "none" /\ e = NoRecord /\ loop = Quiet
=============================================================================
