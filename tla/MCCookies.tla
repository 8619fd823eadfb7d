----------------------------- MODULE MCCookies -----------------------------
(* Cookies for TLC: two names, so a header can hold the other name, the    *)
(* same name twice with different values, and a name without '='.           *)
EXTENDS Cookies

MCNames == {"a", "b"}
MCValues == {"", "1", "3"}
=============================================================================
