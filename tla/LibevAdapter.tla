---------------------------- MODULE LibevAdapter ----------------------------
(***************************************************************************)
(* adapters/libev.h: a watcher for reads, one for writes and a timer       *)
(* inside the record, which is freed as soon as they are stopped.  The     *)
(* loop calls one watcher at a time, and forgets what it had found for a   *)
(* watcher that is stopped.                                                *)
(***************************************************************************)
EXTENDS AsyncContext

Attach == Attached("libev", [on |-> {}], Quiet)

\* Each hook acts only if the flag of its watcher says so.
Set(h, flag) ==
  IF (h \in e.on) = flag THEN UNCHANGED <<e, loop>>
  ELSE LET on == IF flag THEN e.on \cup {h} ELSE e.on \ {h}
       IN  e' = [e EXCEPT !.on = on] /\ loop' = [loop EXCEPT !.watch = on]

Add(h) == Asks("libev", h) /\ Set(h, TRUE) /\ UNCHANGED mem
Del(h) == Drops("libev", h) /\ Set(h, FALSE) /\ UNCHANGED mem

\* ev_timer_again: a zero repeat stops the timer.
SetTimeout(tv) ==
  /\ Schedules("libev", tv)
  /\ loop' = [loop EXCEPT !.timer = (tv # "zero")]
  /\ UNCHANGED <<mem, e>>

Cleanup == Closes("libev") /\ e' = [e EXCEPT !.on = {}] /\ loop' = Quiet /\ Free

\* The timer repeats: it stays set.
Event(h) ==
  /\ lib = "libev" /\ at = "loop" /\ h \in Watching
  /\ Calls(h, {})
  /\ UNCHANGED <<ctx, ev, lib, mem, e, loop>>

Return == lib = "libev" /\ at # "loop" /\ Ends /\ UNCHANGED <<ctx, ev, lib, mem, e, loop>>

Next ==
  \/ Attach
  \/ \E h \in Interests : Add(h) \/ Del(h)
  \/ \E tv \in Timevals : SetTimeout(tv)
  \/ Cleanup
  \/ \E h \in Handlers : Event(h)
  \/ Return

\* No callback uses the record after its handler; the watchers lie inside it.
Safe == Watching # {} => mem = "held"
=============================================================================
