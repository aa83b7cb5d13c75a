---------------------------- MODULE GlibAdapter ----------------------------
(***************************************************************************)
(* adapters/glib.h: a GSource whose poll descriptor names what is wanted   *)
(* and what was found.  The main loop polls, then dispatches the sources   *)
(* that are ready; the source writes before it reads.  Cleanup takes the   *)
(* descriptor out of the loop; the source stays, with what was found and   *)
(* with its pointer to the context, until the application gives it up.     *)
(*                                                                         *)
(* Assumed of the application: it makes one source for a context.  Alone   *)
(* among the adapters redis_source_new does not look whether something is  *)
(* attached (glib.h:122-153): a second call would overwrite ac->ev, and    *)
(* cleanup would never reach the first source.                             *)
(***************************************************************************)
EXTENDS AsyncContext

\* on and due stand for poll_fd.events and poll_fd.revents.
SourceNew == Attached("glib", [on |-> {}, fd |-> TRUE], Quiet)

Add(h) == Asks("glib", h) /\ e' = [e EXCEPT !.on = @ \cup {h}] /\ UNCHANGED <<mem, loop>>
Del(h) == Drops("glib", h) /\ e' = [e EXCEPT !.on = @ \ {h}] /\ UNCHANGED <<mem, loop>>

\* An application that is careful frees the context only when nothing that
\* was found waits to be handed on.
Cleanup ==
  /\ Closes("glib")
  /\ due = {} \/ "glib" \in Unguarded
  /\ e' = [e EXCEPT !.on = {}, !.fd = FALSE]
  /\ UNCHANGED <<mem, loop>>

-----------------------------------------------------------------------------
\* The loop polls the descriptor; prepare and check compare what is wanted
\* with what was found.
Poll(S) ==
  /\ lib = "glib" /\ at = "loop" /\ due = {} /\ mem = "held" /\ e.fd
  /\ S # {} /\ S \subseteq e.on
  /\ due' = S
  /\ UNCHANGED <<ctx, ev, want, at, lib, mem, e, loop>>

Dispatch ==
  /\ lib = "glib" /\ at = "loop" /\ due # {}
  /\ LET h == IF "write" \in due THEN "write" ELSE "read" IN Calls(h, due \ {h})
  /\ UNCHANGED <<ctx, ev, lib, mem, e, loop>>

\* A handler returns.
Return ==
  /\ lib = "glib" /\ at # "loop"
  /\ IF due # {} THEN Calls("read", {}) ELSE Ends
  /\ UNCHANGED <<ctx, ev, lib, mem, e, loop>>

\* The application gives up the source of a context that is gone; the loop
\* does not dispatch it any more.
Finalize ==
  /\ lib = "glib" /\ mem = "held" /\ ctx = "freed" /\ at = "loop"
  /\ Free /\ e' = [e EXCEPT !.fd = FALSE] /\ due' = {}
  /\ UNCHANGED <<ctx, ev, want, at, lib, loop>>

Next ==
  \/ SourceNew
  \/ \E h \in Interests : Add(h) \/ Del(h)
  \/ Cleanup
  \/ \E S \in SUBSET Interests : Poll(S)
  \/ Dispatch
  \/ Return
  \/ Finalize

Open == IF mem = "held" /\ e.fd THEN e.on ELSE {}

\* The source is there when its handlers return, and a source that outlives
\* its context is not polled.
Safe == /\ at # "loop" => mem = "held"
        /\ mem = "held" /\ ctx = "freed" => ~e.fd /\ due = {}
=============================================================================
