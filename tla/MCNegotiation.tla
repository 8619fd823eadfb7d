--------------------------- MODULE MCNegotiation ---------------------------
(* Every header of up to three tokens over the six names and the qualities *)
(* 0, 0.1, 0.5, 0.9, 1 and 2 (in tenths), with or without a "q=": ties,     *)
(* zero weights, weights above the default and repeated wildcards all occur.*)
EXTENDS Negotiation

MCQValues == {0, 1, 5, 9, 10, 20}

(* spec.md section 8's header, in its own order: "gzip;q=0.1, *;q=0.9".   *)
SpecExampleHeader == <<[name |-> "gzip", q |-> 1], [name |-> "*", q |-> 9]>>
SpecExampleSpec == Init /\ accept = SpecExampleHeader /\ [][Next]_vars
=============================================================================
