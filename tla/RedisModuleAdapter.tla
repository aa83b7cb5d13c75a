------------------------- MODULE RedisModuleAdapter -------------------------
(***************************************************************************)
(* adapters/redismoduleapi.h: the event loop and the timers that redis     *)
(* offers its modules.  A timer elapses once, and is made anew each time.  *)
(***************************************************************************)
EXTENDS AsyncContext

Attach == Attached("redismodule", [on |-> {}, timer_active |-> FALSE], Quiet)

Add(h) ==
  /\ Asks("redismodule", h)
  /\ IF h \in e.on THEN UNCHANGED <<e, loop>>
     ELSE e' = [e EXCEPT !.on = @ \cup {h}] /\ loop' = [loop EXCEPT !.watch = @ \cup {h}]
  /\ UNCHANGED mem

Del(h) ==
  /\ Drops("redismodule", h)
  /\ IF h \notin e.on THEN UNCHANGED <<e, loop>>
     ELSE e' = [e EXCEPT !.on = @ \ {h}] /\ loop' = [loop EXCEPT !.watch = @ \ {h}]
  /\ UNCHANGED mem

\* What is left of a timer after redisModuleStopTimer.
Stopped == IF e.timer_active THEN FALSE ELSE loop.timer

\* The last timer is stopped, and one made.
SetTimeout(tv) ==
  /\ Schedules("redismodule", tv)
  /\ e' = [e EXCEPT !.timer_active = TRUE]
  /\ loop' = [loop EXCEPT !.timer = TRUE]
  /\ UNCHANGED mem

Cleanup ==
  /\ Closes("redismodule")
  /\ e' = [e EXCEPT !.on = {}, !.timer_active = FALSE]
  /\ loop' = [loop EXCEPT !.watch = @ \ e.on, !.timer = Stopped]
  /\ Free

Event(h) ==
  /\ lib = "redismodule" /\ at = "loop" /\ h \in loop.watch
  /\ Calls(h, {})
  /\ UNCHANGED <<ctx, ev, lib, mem, e, loop>>

\* The timer is gone before the handler may ask for the next.
Timeout ==
  /\ lib = "redismodule" /\ at = "loop" /\ loop.timer
  /\ Calls("timeout", {})
  /\ e' = [e EXCEPT !.timer_active = FALSE]
  /\ loop' = [loop EXCEPT !.timer = FALSE]
  /\ UNCHANGED <<ctx, ev, lib, mem>>

Return == lib = "redismodule" /\ at # "loop" /\ Ends /\ UNCHANGED <<ctx, ev, lib, mem, e, loop>>

Next ==
  \/ Attach
  \/ \E h \in Interests : Add(h) \/ Del(h)
  \/ \E tv \in Timevals : SetTimeout(tv)
  \/ Cleanup
  \/ \E h \in Interests : Event(h)
  \/ Timeout
  \/ Return

\* The loop and the timer carry the record, and no timer is left without
\* the flag that lets it be stopped.
Safe == /\ Watching # {} => mem = "held"
        /\ mem = "held" => (loop.timer = e.timer_active)
=============================================================================
