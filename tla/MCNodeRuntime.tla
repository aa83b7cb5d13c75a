---------------------------- MODULE MCNodeRuntime ----------------------------
(***************************************************************************)
(* NodeRuntime for TLC: a node with two instances, two scripts that may    *)
(* overlap, and a process id to spare.                                     *)
(***************************************************************************)
EXTENDS NodeRuntime

CONSTANTS s1, s2, d1, d2, d3

TwoPorts == <<6377, 6378>>

=============================================================================
