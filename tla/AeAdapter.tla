----------------------------- MODULE AeAdapter -----------------------------
(***************************************************************************)
(* adapters/ae.h: file events of the loop of redis itself, one for each    *)
(* direction, and no timeout.                                              *)
(***************************************************************************)
EXTENDS AsyncContext

Attach == Attached("ae", [on |-> {}], Quiet)

Add(h) ==
  /\ Asks("ae", h)
  /\ IF h \in e.on THEN UNCHANGED <<e, loop>>
     ELSE e' = [e EXCEPT !.on = @ \cup {h}] /\ loop' = [loop EXCEPT !.watch = @ \cup {h}]
  /\ UNCHANGED mem

Del(h) ==
  /\ Drops("ae", h)
  /\ IF h \notin e.on THEN UNCHANGED <<e, loop>>
     ELSE e' = [e EXCEPT !.on = @ \ {h}] /\ loop' = [loop EXCEPT !.watch = @ \ {h}]
  /\ UNCHANGED mem

\* Faulty variant: the write event is forgotten.
CleanupReadOnly ==
  Closes("ae") /\ e' = [e EXCEPT !.on = {}] /\ loop' = [loop EXCEPT !.watch = @ \ {"read"}] /\ Free

\* Each file event that the flags tell of is deleted.
Cleanup ==
  Closes("ae") /\ e' = [e EXCEPT !.on = {}] /\ loop' = [loop EXCEPT !.watch = @ \ e.on] /\ Free

Event(h) ==
  /\ lib = "ae" /\ at = "loop" /\ h \in loop.watch
  /\ Calls(h, {})
  /\ UNCHANGED <<ctx, ev, lib, mem, e, loop>>

Return == lib = "ae" /\ at # "loop" /\ Ends /\ UNCHANGED <<ctx, ev, lib, mem, e, loop>>

Next ==
  \/ Attach
  \/ \E h \in Interests : Add(h) \/ Del(h)
  \/ Cleanup
  \/ \E h \in Interests : Event(h)
  \/ Return

Spec == Init /\ [][Connect \/ Next]_vars

\* The loop calls its file events with the record.
Safe == Watching # {} => mem = "held"
=============================================================================
