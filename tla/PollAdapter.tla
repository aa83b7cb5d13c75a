---------------------------- MODULE PollAdapter ----------------------------
(***************************************************************************)
(* adapters/poll.h: no event library; the application calls redisPollTick, *)
(* which polls the descriptor, calls the handlers in the order read, write *)
(* and timeout, and frees at its end a record that a handler gave up.      *)
(***************************************************************************)
EXTENDS AsyncContext

Attach == Attached("poll", [on |-> {}, in_tick |-> FALSE, deleted |-> FALSE, deadline |-> "none"], Quiet)

Add(h) == Asks("poll", h) /\ e' = [e EXCEPT !.on = @ \cup {h}] /\ UNCHANGED <<mem, loop>>
Del(h) == Drops("poll", h) /\ e' = [e EXCEPT !.on = @ \ {h}] /\ UNCHANGED <<mem, loop>>

ScheduleTimer(tv) == Schedules("poll", tv) /\ e' = [e EXCEPT !.deadline = "set"] /\ UNCHANGED <<mem, loop>>

Cleanup ==
  /\ Closes("poll")
  /\ IF e.in_tick THEN e' = [e EXCEPT !.deleted = TRUE] /\ UNCHANGED mem ELSE Free /\ UNCHANGED e
  /\ UNCHANGED loop

\* The deadline passes.
Clock == lib = "poll" /\ mem = "held" /\ e.deadline = "set"
         /\ e' = [e EXCEPT !.deadline = "past"]
         /\ UNCHANGED <<ctx, ev, want, at, due, lib, mem, loop>>

-----------------------------------------------------------------------------
\* The end of a tick: the delayed cleanup.
Finish(r) ==
  /\ Ends
  /\ IF r.deleted THEN Free /\ e' = r ELSE e' = [r EXCEPT !.in_tick = FALSE] /\ UNCHANGED mem

\* The deadline is looked at when the handlers of what was polled are done.
TimeoutOrFinish(r) ==
  IF ~r.deleted /\ r.deadline = "past"
  THEN Calls("timeout", {}) /\ e' = [r EXCEPT !.deadline = "none"] /\ UNCHANGED mem
  ELSE Finish(r)

\* Faulty variant: the deadline is looked at only when nothing was polled.
ContinueStarving(S, r) ==
  IF S # {} /\ ~r.deleted
  THEN LET h == IF "read" \in S THEN "read" ELSE "write"
       IN  Calls(h, S \ {h}) /\ e' = r /\ UNCHANGED mem
  ELSE IF at = "loop" THEN TimeoutOrFinish(r) ELSE Finish(r)

\* The rest of a tick that has polled S, with the record r.
Continue(S, r) ==
  IF S # {} /\ ~r.deleted
  THEN LET h == IF "read" \in S THEN "read" ELSE "write"
       IN  Calls(h, S \ {h}) /\ e' = r /\ UNCHANGED mem
  ELSE TimeoutOrFinish(r)

\* redisPollTick up to its first handler.  The application calls it on a
\* context that it has not freed.
Tick(S) ==
  /\ lib = "poll" /\ ctx = "live" /\ ev = "data" /\ at = "loop"
  /\ e.on # {} /\ S \subseteq e.on
  /\ Continue(S, [e EXCEPT !.in_tick = TRUE])
  /\ UNCHANGED <<ctx, ev, lib, loop>>

\* A handler returns to the tick.
Return ==
  /\ lib = "poll" /\ at # "loop"
  /\ IF at = "timeout" THEN Finish(e) ELSE Continue(due, e)
  /\ UNCHANGED <<ctx, ev, lib, loop>>

Next ==
  \/ Attach
  \/ \E h \in Interests : Add(h) \/ Del(h)
  \/ \E tv \in Timevals : ScheduleTimer(tv)
  \/ Cleanup
  \/ Clock
  \/ \E S \in SUBSET Interests : Tick(S)
  \/ Return

\* What a tick may find now.
Open == IF mem = "held" THEN e.on \cup (IF e.deadline # "none" THEN {"timeout"} ELSE {}) ELSE {}

\* redisPollTick uses its record after every handler.
Safe == at # "loop" => mem = "held"
=============================================================================
