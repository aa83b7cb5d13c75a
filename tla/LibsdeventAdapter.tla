------------------------- MODULE LibsdeventAdapter -------------------------
(***************************************************************************)
(* adapters/libsdevent.h: a source for the descriptor while something is   *)
(* asked for, and one for the timeout.  Both are given back when the       *)
(* record is destroyed, which the descriptor's callback may have to do.    *)
(***************************************************************************)
EXTENDS AsyncContext

Attach ==
  Attached("libsdevent",
           [on |-> {}, fdSource |-> FALSE, timerSource |-> FALSE, entered |-> FALSE, deleted |-> FALSE],
           Quiet)

\* The source is made for the first interest, and changed for the second.
Add(h) ==
  /\ Asks("libsdevent", h)
  /\ IF h \in e.on THEN UNCHANGED <<e, loop>>
     ELSE /\ e' = [e EXCEPT !.on = @ \cup {h}, !.fdSource = TRUE]
          /\ loop' = [loop EXCEPT !.watch = e.on \cup {h}]
  /\ UNCHANGED mem

Del(h) ==
  /\ Drops("libsdevent", h)
  /\ e' = [e EXCEPT !.on = @ \ {h}, !.fdSource = (e.on \ {h} # {})]
  /\ loop' = [loop EXCEPT !.watch = e.on \ {h}]
  /\ UNCHANGED mem

\* A time source elapses once; another time does not enable it again.
SetTimeout(tv) ==
  /\ Schedules("libsdevent", tv)
  /\ e' = [e EXCEPT !.timerSource = TRUE]
  /\ loop' = [loop EXCEPT !.timer = ~e.timerSource \/ @]
  /\ UNCHANGED mem

Destroy == Free /\ loop' = Quiet

Cleanup ==
  /\ Closes("libsdevent")
  /\ IF e.entered THEN e' = [e EXCEPT !.deleted = TRUE] /\ UNCHANGED <<mem, loop>>
     ELSE Destroy /\ UNCHANGED e

-----------------------------------------------------------------------------
\* It does not mark the record as entered: the record may be gone when it returns.
TimeoutHandler ==
  /\ lib = "libsdevent" /\ at = "loop" /\ loop.timer
  /\ Calls("timeout", {})
  /\ loop' = [loop EXCEPT !.timer = FALSE]
  /\ UNCHANGED <<ctx, ev, lib, mem, e>>

First(S) == IF "read" \in S THEN "read" ELSE "write"

Handler(S) ==
  /\ lib = "libsdevent" /\ at = "loop" /\ S # {} /\ S \subseteq loop.watch
  /\ Calls(First(S), S \ {First(S)})
  /\ e' = [e EXCEPT !.entered = TRUE]
  /\ UNCHANGED <<ctx, ev, lib, mem, loop>>

ReturnTimeout == lib = "libsdevent" /\ at = "timeout" /\ Ends /\ UNCHANGED <<ctx, ev, lib, mem, e, loop>>

\* CHECK_DELETED, then the other handler, then the end.
Return ==
  /\ lib = "libsdevent" /\ at \in Interests
  /\ IF e.deleted THEN Ends /\ Destroy /\ UNCHANGED e
     ELSE IF due # {} THEN Calls(First(due), due \ {First(due)}) /\ UNCHANGED <<e, mem, loop>>
     ELSE Ends /\ e' = [e EXCEPT !.entered = FALSE] /\ UNCHANGED <<mem, loop>>
  /\ UNCHANGED <<ctx, ev, lib>>

Next ==
  \/ Attach
  \/ \E h \in Interests : Add(h) \/ Del(h)
  \/ \E tv \in Timevals : SetTimeout(tv)
  \/ Cleanup
  \/ TimeoutHandler
  \/ \E S \in SUBSET Interests : Handler(S)
  \/ ReturnTimeout
  \/ Return

\* The sources and the descriptor's callback find the record, and nobody
\* changes a source that was given back.
Safe == /\ (at \in Interests \/ Watching # {}) => mem = "held"
        /\ mem = "held" => e.fdSource = (e.on # {}) /\ (loop.timer => e.timerSource)
=============================================================================
