--------------------------- MODULE IvykisAdapter ---------------------------
(***************************************************************************)
(* adapters/ivykis.h: an iv_fd inside the record, whose handlers are set   *)
(* and cleared.  Both are set from the start, and their cookie is the      *)
(* context, not the record.                                                *)
(***************************************************************************)
EXTENDS AsyncContext

Attach == Attached("ivykis", NoRecord, [Quiet EXCEPT !.watch = Interests])

Add(h) == Asks("ivykis", h) /\ loop' = [loop EXCEPT !.watch = @ \cup {h}] /\ UNCHANGED <<mem, e>>
Del(h) == Drops("ivykis", h) /\ loop' = [loop EXCEPT !.watch = @ \ {h}] /\ UNCHANGED <<mem, e>>

Cleanup == Closes("ivykis") /\ loop' = Quiet /\ Free /\ UNCHANGED e

Event(h) ==
  /\ lib = "ivykis" /\ at = "loop" /\ h \in loop.watch
  /\ Calls(h, {})
  /\ UNCHANGED <<ctx, ev, lib, mem, e, loop>>

Return == lib = "ivykis" /\ at # "loop" /\ Ends /\ UNCHANGED <<ctx, ev, lib, mem, e, loop>>

Next ==
  \/ Attach
  \/ \E h \in Interests : Add(h) \/ Del(h)
  \/ Cleanup
  \/ \E h \in Interests : Event(h)
  \/ Return

\* The registered descriptor lies inside the record.
Safe == Watching # {} => mem = "held"
=============================================================================
