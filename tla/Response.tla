------------------------------ MODULE Response ------------------------------
(***************************************************************************)
(* What a Request promises the transport about one exchange (spec.md       *)
(* sections 3 and 4.5), with no lifetime, buffer or encoding in it: the    *)
(* primitives it issues, in order, and whether it is finalized.            *)
(*                                                                          *)
(* A complete response (a reply, an error, the end of a chunked reply) is *)
(* issued at most once, and only by the step that finalizes the Request;  *)
(* chunk primitives may be issued until the exchange is cancelled; cancel  *)
(* is the last thing ever issued; a Request may also become finalized      *)
(* without issuing anything (a finalize() whose send then throws).         *)
(***************************************************************************)
EXTENDS Naturals, Sequences

VARIABLES
    wire,   \* the primitives issued on the exchange, in order
    final   \* the Request is finalized

vars == <<wire, final>>

Terminals == {"reply", "error", "end"}
Chunks == {"start", "chunk"}

Cancelled == \E i \in 1..Len(wire) : wire[i] = "cancel"

Init == wire = <<>> /\ final = FALSE

(* The finalizing step issues complete response p.                         *)
Respond(p) ==
    /\ ~final
    /\ wire' = Append(wire, p)
    /\ final' = TRUE

(* A chunk primitive, on an exchange not cancelled.                        *)
Stream(p) ==
    /\ ~Cancelled
    /\ wire' = Append(wire, p)
    /\ UNCHANGED final

(* Abandoning the exchange finalizes the Request.                          *)
Cancel ==
    /\ ~Cancelled
    /\ wire' = Append(wire, "cancel")
    /\ final' = TRUE

(* Becoming finalized without issuing anything.                            *)
Seal ==
    /\ final' = TRUE
    /\ UNCHANGED wire

Next ==
    \/ \E p \in Terminals : Respond(p)
    \/ \E p \in Chunks : Stream(p)
    \/ Cancel
    \/ Seal

Spec == Init /\ [][Next]_vars

=============================================================================
