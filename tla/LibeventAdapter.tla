-------------------------- MODULE LibeventAdapter --------------------------
(***************************************************************************)
(* adapters/libevent.h: one event for the descriptor and the timeout,      *)
(* deleted, assigned and added again whenever the interest changes.  A     *)
(* record that is given up while its callback runs is freed by the         *)
(* callback.                                                               *)
(***************************************************************************)
EXTENDS AsyncContext

\* event_new is not checked: e->ev may be NULL in a record that is attached.
Attach ==
  \E made \in {TRUE} \cup (IF "libevent" \in Refusing THEN {FALSE} ELSE {}) :
    Attached("libevent",
             [on |-> {}, tv |-> FALSE, made |-> made, entered |-> FALSE, deleted |-> FALSE],
             Quiet)

\* Faulty variant: an event that is still wanted is not assigned again.
UpdateOnce(r, flags, isRemove) ==
  IF isRemove = (r.on \cap flags = {})
  THEN e' = r /\ UNCHANGED loop
  ELSE /\ e' = [r EXCEPT !.on = IF isRemove THEN @ \ flags ELSE @ \cup flags]
       /\ loop' = IF ~r.made \/ (isRemove /\ e'.on # {}) THEN loop
                  ELSE [loop EXCEPT !.watch = e'.on, !.timer = r.tv]

\* redisLibeventUpdate on the record r.  It has nothing to do where a flag to
\* remove is not set, or one to add is; else event_del, event_assign, event_add.
\* They register nothing where there is no event: they are called on NULL,
\* which Safe counts.
Update(r, flags, isRemove) ==
  IF isRemove = (r.on \cap flags = {})
  THEN e' = r /\ UNCHANGED loop
  ELSE /\ e' = [r EXCEPT !.on = IF isRemove THEN @ \ flags ELSE @ \cup flags]
       /\ loop' = IF r.made THEN [loop EXCEPT !.watch = e'.on, !.timer = r.tv] ELSE loop

Add(h) == Asks("libevent", h) /\ Update(e, {h}, FALSE) /\ UNCHANGED mem
Del(h) == Drops("libevent", h) /\ Update(e, {h}, TRUE) /\ UNCHANGED mem

\* Faulty variant: the flags are not cleared first, and Update sees no change.
SetTimeoutKeeps(tv) ==
  /\ Schedules("libevent", tv)
  /\ Update([e EXCEPT !.tv = (tv # "zero")], e.on, FALSE)
  /\ UNCHANGED mem

SetTimeout(tv) ==
  /\ Schedules("libevent", tv)
  /\ Update([e EXCEPT !.on = {}, !.tv = (tv # "zero")], e.on, FALSE)
  /\ UNCHANGED mem

Cleanup ==
  /\ Closes("libevent")
  /\ loop' = Quiet
  /\ e' = [e EXCEPT !.made = FALSE, !.deleted = e.entered]
  /\ IF e.entered THEN UNCHANGED mem ELSE Free

-----------------------------------------------------------------------------
\* The order of redisLibeventHandler.
First(S) == IF "timeout" \in S THEN "timeout" ELSE IF "read" \in S THEN "read" ELSE "write"

\* The event is persistent: it stays added, with its timeout.
Handler(S) ==
  /\ lib = "libevent" /\ at = "loop" /\ S # {} /\ S \subseteq Watching
  /\ Calls(First(S), S \ {First(S)})
  /\ e' = [e EXCEPT !.entered = TRUE]
  /\ UNCHANGED <<ctx, ev, lib, mem, loop>>

\* Faulty variant: the state is looked at after the last handler only.
ReturnUnchecked ==
  /\ lib = "libevent" /\ at # "loop"
  /\ IF due # {} THEN Calls(First(due), due \ {First(due)}) /\ UNCHANGED <<e, mem>>
     ELSE Ends /\ IF e.deleted THEN Free /\ UNCHANGED e
                               ELSE e' = [e EXCEPT !.entered = FALSE] /\ UNCHANGED mem
  /\ UNCHANGED <<ctx, ev, lib, loop>>

\* A handler returns: CHECK_DELETED, then the next one, then the end.
Return ==
  /\ lib = "libevent" /\ at # "loop"
  /\ IF e.deleted THEN Ends /\ Free /\ UNCHANGED e
     ELSE IF due # {} THEN Calls(First(due), due \ {First(due)}) /\ UNCHANGED <<e, mem>>
     ELSE Ends /\ e' = [e EXCEPT !.entered = FALSE] /\ UNCHANGED mem
  /\ UNCHANGED <<ctx, ev, lib, loop>>

Next ==
  \/ Attach
  \/ \E h \in Interests : Add(h) \/ Del(h)
  \/ \E tv \in Timevals : SetTimeout(tv)
  \/ Cleanup
  \/ \E S \in SUBSET Handlers : Handler(S)
  \/ Return

Spec == Init /\ [][Connect \/ Next]_vars

\* The hooks and the callback find the record, and the hooks the event.
Safe == /\ (at # "loop" \/ Watching # {}) => mem = "held"
        /\ ctx = "live" /\ ev = "data" => e.made
=============================================================================
