----------------------------- MODULE QtAdapter -----------------------------
(***************************************************************************)
(* adapters/qt.h: the record is an object of the application, which makes  *)
(* and deletes it; a QSocketNotifier exists for each direction asked for.  *)
(* Cleanup deletes the notifiers and leaves m_ctx as it is.                *)
(***************************************************************************)
EXTENDS AsyncContext

\* on stands for m_read and m_write, m_ctx for what has become of the context
\* it points to.
Construct ==
  /\ "qt" \in Adapters /\ lib = "none"
  /\ lib' = "qt" /\ mem' = "held" /\ e' = [on |-> {}, m_ctx |-> "null"]
  /\ UNCHANGED <<ctx, ev, want, at, due, loop>>

\* The destructor: it takes the data from the context that m_ctx points to.
\* The notifiers have no parent and stay, but are not connected any more.
Destruct ==
  /\ lib = "qt" /\ mem = "held" /\ at = "loop"
  /\ e.m_ctx = "null" \/ "qt" \in Unguarded
  /\ ev' = IF e.m_ctx = "live" THEN "null" ELSE ev
  /\ Free /\ loop' = Quiet
  /\ UNCHANGED <<ctx, want, at, due, lib, e>>

SetContext ==
  /\ lib = "qt" /\ mem = "held" /\ ctx = "live" /\ ev # "data" /\ at = "loop"
  /\ ev' = "data" /\ e' = [e EXCEPT !.m_ctx = "live"]
  /\ UNCHANGED <<ctx, want, at, due, lib, mem, loop>>

\* The application connects again and keeps the adapter.
Reconnect ==
  /\ lib = "qt" /\ mem = "held" /\ ctx = "freed" /\ at = "loop"
  /\ ctx' = "live" /\ ev' = "unset"
  /\ UNCHANGED <<want, at, due, lib, mem, e, loop>>

Set(h, flag) ==
  LET on == IF flag THEN e.on \cup {h} ELSE e.on \ {h}
  IN  e' = [e EXCEPT !.on = on] /\ loop' = [loop EXCEPT !.watch = on]

Add(h) == Asks("qt", h) /\ Set(h, TRUE) /\ UNCHANGED mem
Del(h) == Drops("qt", h) /\ Set(h, FALSE) /\ UNCHANGED mem

Cleanup == Closes("qt") /\ e' = [on |-> {}, m_ctx |-> "freed"] /\ loop' = Quiet /\ UNCHANGED mem

\* The slots read() and write().
Slot(h) ==
  /\ lib = "qt" /\ at = "loop" /\ h \in loop.watch
  /\ Calls(h, {})
  /\ UNCHANGED <<ctx, ev, lib, mem, e, loop>>

Return == lib = "qt" /\ at # "loop" /\ Ends /\ UNCHANGED <<ctx, ev, lib, mem, e, loop>>

Next ==
  \/ Construct
  \/ Destruct
  \/ SetContext
  \/ Reconnect
  \/ \E h \in Interests : Add(h) \/ Del(h)
  \/ Cleanup
  \/ \E h \in Interests : Slot(h)
  \/ Return

\* The notifiers are connected to the adapter, and a destructor has not
\* written to a context that was freed.
Safe == /\ Watching # {} => mem = "held"
        /\ lib = "qt" /\ mem = "freed" => e.m_ctx # "freed"
=============================================================================
