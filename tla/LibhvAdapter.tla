---------------------------- MODULE LibhvAdapter ----------------------------
(***************************************************************************)
(* adapters/libhv.h: an hio_t, whose user data is the context, and a timer *)
(* that elapses once.  Cleanup clears the user data; the callback has read *)
(* it before its first handler.                                            *)
(*                                                                         *)
(* Assumed of libhv: a timer that has elapsed may be reset and deleted.    *)
(* The adapter keeps its pointer to one (redisLibhvTimeout leaves          *)
(* events->timer set), and uses it at libhv.h:83 and 49.                   *)
(***************************************************************************)
EXTENDS AsyncContext

\* timer stands for events->timer being set.
Attach == Attached("libhv", [on |-> {}, timer |-> FALSE], Quiet)

Add(h) == Asks("libhv", h) /\ loop' = [loop EXCEPT !.watch = @ \cup {h}] /\ UNCHANGED <<mem, e>>
Del(h) == Drops("libhv", h) /\ loop' = [loop EXCEPT !.watch = @ \ {h}] /\ UNCHANGED <<mem, e>>

\* Less than a millisecond deletes the timer.  A timer is made, or the last
\* one reset; if that one has elapsed, libhv may have done with it.
SetTimeout(tv) ==
  /\ Schedules("libhv", tv)
  /\ e' = [e EXCEPT !.timer = (tv = "long")]
  /\ \E set \in IF e.timer /\ ~loop.timer THEN BOOLEAN ELSE {TRUE} :
       loop' = [loop EXCEPT !.timer = (tv = "long" /\ set)]
  /\ UNCHANGED mem

\* An application that is careful frees the context only when nothing that
\* was found waits to be handed on.
Cleanup ==
  /\ Closes("libhv")
  /\ due = {} \/ "libhv" \in Unguarded
  /\ loop' = [loop EXCEPT !.watch = {}, !.timer = IF e.timer THEN FALSE ELSE @]
  /\ Free
  /\ UNCHANGED e

\* redisLibhvHandleEvents up to its first handler.
HandleEvents(S) ==
  /\ lib = "libhv" /\ at = "loop" /\ S # {} /\ S \subseteq loop.watch
  /\ LET h == IF "read" \in S THEN "read" ELSE "write" IN Calls(h, S \ {h})
  /\ UNCHANGED <<ctx, ev, lib, mem, e, loop>>

Timeout ==
  /\ lib = "libhv" /\ at = "loop" /\ loop.timer
  /\ Calls("timeout", {})
  /\ loop' = [loop EXCEPT !.timer = FALSE]
  /\ UNCHANGED <<ctx, ev, lib, mem, e>>

\* A handler returns: the write handler gets the context that was read before.
Return ==
  /\ lib = "libhv" /\ at # "loop"
  /\ IF due # {} THEN Calls("write", {}) ELSE Ends
  /\ UNCHANGED <<ctx, ev, lib, mem, e, loop>>

Next ==
  \/ Attach
  \/ \E h \in Interests : Add(h) \/ Del(h)
  \/ \E tv \in Timevals : SetTimeout(tv)
  \/ Cleanup
  \/ \E S \in SUBSET Interests : HandleEvents(S)
  \/ Timeout
  \/ Return

\* The timer that is set is one the record knows of, and may delete.
Safe == loop.timer => mem = "held" /\ e.timer
=============================================================================
