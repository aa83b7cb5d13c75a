---------------------------- MODULE LibuvAdapter ----------------------------
(***************************************************************************)
(* adapters/libuv.h: a poll handle and a timer handle inside the record.   *)
(* Cleanup closes them, and the loop reports each close later, in any      *)
(* order: the last one frees the record.                                   *)
(***************************************************************************)
EXTENDS AsyncContext

\* handle and timer stand for handle.data and timer.data being set.
Fresh == [on |-> {}, context |-> TRUE, handle |-> TRUE, timer |-> FALSE]

\* The hooks are set before the record is allocated and its handle
\* initialised; each of the two may fail.
Attach ==
  \E m \in {"held"} \cup (IF "libuv" \in Refusing THEN {"none", "freed"} ELSE {}) :
    /\ Attaching("libuv") /\ mem' = m
    /\ IF m = "held" THEN ev' = "data" /\ e' = Fresh /\ loop' = Quiet
       ELSE ev' = "null" /\ UNCHANGED <<e, loop>>

Add(h) ==
  /\ Asks("libuv", h)
  /\ IF h \in e.on THEN UNCHANGED <<e, loop>>
     ELSE /\ e' = [e EXCEPT !.on = @ \cup {h}]
          /\ loop' = [loop EXCEPT !.watch = e.on \cup {h}]
  /\ UNCHANGED mem

\* The handle is stopped when nothing is left, and else started again.
Del(h) ==
  /\ Drops("libuv", h)
  /\ e' = [e EXCEPT !.on = @ \ {h}]
  /\ loop' = [loop EXCEPT !.watch = e.on \ {h}]
  /\ UNCHANGED mem

\* The timer is initialised by its first use; where that fails the context is
\* not told that nothing was set.
SetTimeout(tv) ==
  /\ Schedules("libuv", tv)
  /\ \/ e' = [e EXCEPT !.timer = TRUE] /\ loop' = [loop EXCEPT !.timer = TRUE]
     \/ "libuv" \in Refusing /\ ~e.timer /\ UNCHANGED <<e, loop>>
  /\ UNCHANGED mem

Cleanup ==
  /\ Closes("libuv")
  /\ e' = [e EXCEPT !.context = FALSE]
  /\ loop' = [watch |-> {}, timer |-> FALSE,
              closing |-> {"handle"} \cup (IF e.timer THEN {"timer"} ELSE {})]
  /\ UNCHANGED mem

-----------------------------------------------------------------------------
Closed(c) ==
  /\ lib = "libuv" /\ at = "loop" /\ c \in loop.closing
  /\ loop' = [loop EXCEPT !.closing = @ \ {c}]
  /\ UNCHANGED <<ctx, ev, want, at, due, lib>>

\* Faulty variant: it does not wait for the other handle.
OnTimerCloseFrees == Closed("timer") /\ e' = [e EXCEPT !.timer = FALSE] /\ Free

OnTimerClose ==
  /\ Closed("timer")
  /\ e' = [e EXCEPT !.timer = FALSE]
  /\ IF e.handle THEN UNCHANGED mem ELSE Free

\* Faulty variant: it leaves the record to a timer that may never have been used.
OnHandleCloseLeaves == Closed("handle") /\ e' = [e EXCEPT !.handle = FALSE] /\ UNCHANGED mem

OnHandleClose ==
  /\ Closed("handle")
  /\ e' = [e EXCEPT !.handle = FALSE]
  /\ IF e.timer THEN UNCHANGED mem ELSE Free

\* redisLibuvPoll: an error stands for everything the record asks for.
Poll(S) ==
  /\ lib = "libuv" /\ at = "loop" /\ S # {}
  /\ loop.watch # {} /\ (S \subseteq loop.watch \/ S = e.on)
  /\ e.context
  /\ LET h == IF "read" \in S THEN "read" ELSE "write" IN Calls(h, S \ {h})
  /\ UNCHANGED <<ctx, ev, lib, mem, e, loop>>

Timeout ==
  /\ lib = "libuv" /\ at = "loop" /\ loop.timer
  /\ Calls("timeout", {})
  /\ loop' = [loop EXCEPT !.timer = FALSE]
  /\ UNCHANGED <<ctx, ev, lib, mem, e>>

\* A handler returns: the write handler is left out when cleanup was called.
Return ==
  /\ lib = "libuv" /\ at # "loop"
  /\ IF due # {} /\ e.context THEN Calls("write", {}) ELSE Ends
  /\ UNCHANGED <<ctx, ev, lib, mem, e, loop>>

Next ==
  \/ Attach
  \/ \E h \in Interests : Add(h) \/ Del(h)
  \/ \E tv \in Timevals : SetTimeout(tv)
  \/ Cleanup
  \/ OnTimerClose
  \/ OnHandleClose
  \/ \E S \in SUBSET Interests : Poll(S)
  \/ Timeout
  \/ Return

Spec == Init /\ [][Connect \/ Next]_vars

\* The callbacks of the loop find the record, those of the closes too.
Safe == (at \in Interests \/ Watching # {} \/ loop.closing # {}) => mem = "held"
=============================================================================
