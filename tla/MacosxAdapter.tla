--------------------------- MODULE MacosxAdapter ---------------------------
(***************************************************************************)
(* adapters/macosx.h: a CFSocket and its run loop source.  Both callbacks  *)
(* are enabled from the start and carry the context, not the record.       *)
(***************************************************************************)
EXTENDS AsyncContext

\* What freeRedisRunLoop invalidates and releases before it frees the record.
FreeRunLoop == Free /\ loop' = Quiet

\* The hooks are set and the data too before the socket and its source are
\* made; when one of them fails the record is freed, and they stay.
Attach ==
  \E made \in {TRUE} \cup (IF "macosx" \in Refusing THEN {FALSE} ELSE {}) :
    /\ Attaching("macosx") /\ ev' = "data" /\ e' = NoRecord
    /\ IF made THEN mem' = "held" /\ loop' = [Quiet EXCEPT !.watch = Interests]
       ELSE mem' = "freed" /\ loop' = Quiet

\* The hooks do not know: they read the socket from a record that is gone.
Enable(directions) ==
  IF mem = "held" THEN loop' = [loop EXCEPT !.watch = directions] /\ UNCHANGED mem
                  ELSE mem' = "corrupt" /\ UNCHANGED loop

Add(h) == Asks("macosx", h) /\ Enable(loop.watch \cup {h}) /\ UNCHANGED e
Del(h) == Drops("macosx", h) /\ Enable(loop.watch \ {h}) /\ UNCHANGED e

\* Nor does cleanup: it frees that record a second time.
Cleanup == Closes("macosx") /\ FreeRunLoop /\ UNCHANGED e

AsyncCallback(h) ==
  /\ lib = "macosx" /\ at = "loop" /\ h \in loop.watch
  /\ Calls(h, {})
  /\ UNCHANGED <<ctx, ev, lib, mem, e, loop>>

Return == lib = "macosx" /\ at # "loop" /\ Ends /\ UNCHANGED <<ctx, ev, lib, mem, e, loop>>

Next ==
  \/ Attach
  \/ \E h \in Interests : Add(h) \/ Del(h)
  \/ Cleanup
  \/ \E h \in Interests : AsyncCallback(h)
  \/ Return

\* A socket that is enabled is not released.
Safe == Watching # {} => mem = "held"
=============================================================================
