----------------------------- MODULE MCRequest -----------------------------
(* Model-checking instance of Request: two application references (so a  *)
(* copy can outlive the creator's), up to three primitives on the exchange *)
(* (start, chunk, end; or a reply followed by a stray chunk and a        *)
(* cancel) and two output segments (enough to mix two codecs).             *)
EXTENDS Request

MCMaxRefs == 2
MCMaxWire == 3
MCMaxOut == 2
=============================================================================
