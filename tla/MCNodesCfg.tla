----------------------------- MODULE MCNodesCfg -----------------------------
(***************************************************************************)
(* NodesCfg for TLC: two nodes and two keys.  One contains the other, as   *)
(* tlsports contains ports, and sed's ports*= matches both.                *)
(***************************************************************************)
EXTENDS NodesCfg, TLC

CONSTANTS n1, n2, v1, v2

PortKeys == {"port", "ports"}
PortsInside == {<<"port", "port">>, <<"port", "ports">>, <<"ports", "ports">>}
PortsRepeats == {<<"port", "port">>, <<"ports", "port">>, <<"ports", "ports">>}
Symmetry == Permutations(Sections) \cup Permutations(Values)

=============================================================================
