----------------------------- MODULE EventHooks -----------------------------
(***************************************************************************)
(* What every event adapter promises the context it is attached to: a      *)
(* handler is called on a live context only, only for something that was   *)
(* watched when it was reported, and once for each report.                 *)
(***************************************************************************)
VARIABLES
  ctx,    \* "live" or "freed"
  open,   \* what is watched now
  due,    \* what was reported and has not been handed on
  at      \* "loop", or the handler that is running

shown == <<ctx, due, at>>

Init == ctx = "live" /\ due = {} /\ at = "loop"

\* The context is freed, between two callbacks or in a handler; a program
\* makes a new one when no handler runs.
Close   == ctx = "live" /\ ctx' = "freed" /\ due' \subseteq due /\ UNCHANGED at
Connect == ctx = "freed" /\ ctx' = "live" /\ at = "loop" /\ due' = {} /\ UNCHANGED at

\* A report is taken when the last one has been dealt with.
Report == at = "loop" /\ due = {} /\ due' \subseteq open /\ UNCHANGED <<ctx, at>>

\* What may be handed on: the rest of the report, a new report, or a timeout
\* that is set.
Ready == due \cup (IF at = "loop" /\ due = {} THEN open ELSE open \cap {"timeout"})

Call ==
  /\ ctx = "live"
  /\ at' \in Ready
  /\ due' \subseteq Ready \ {at'}
  /\ UNCHANGED ctx

Return == at # "loop" /\ at' = "loop" /\ due' \subseteq due /\ UNCHANGED ctx

Next == Close \/ Connect \/ Report \/ Call \/ Return

Spec == Init /\ [][Next]_shown
=============================================================================
