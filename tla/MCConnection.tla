---------------------------- MODULE MCConnection ----------------------------
(* Connection for TLC: two application Connections over two transport      *)
(* connections, so one can be inbound and one outbound, or both outbound;  *)
(* 257 is its own byte swap, 80 and 8080 are not.  The settings run uses   *)
(* one connection: a timeout, retry counts below, at and just past INT_MAX *)
(* and at UINT_MAX, and local addresses with and without the address or   *)
(* the port; int is 8 bits wide, which keeps the conversion's shape.       *)
EXTENDS Connection, TLC

CONSTANTS s1, s2, v1

MCIntMax == 127
MCSlots == {s1, s2}
MCPorts == {80, 257, 8080}
MCOnePort == {80}
MCMethods == {"GET", "BREW"}
MCKnobValues == {v1}
MCRetryArgs == {3, MCIntMax, MCIntMax + 1, 2 * MCIntMax + 1}
MCLocalIPs == {0, 1}
MCLocalPorts == {0, 4000}
Perms == Permutations(MCSlots)
=============================================================================
