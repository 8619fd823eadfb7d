------------------------------ MODULE Cookies ------------------------------
(***************************************************************************)
(* The Cookie lookups of Request (src/unnamed/part_000): hasCookie()       *)
(* (465-475), findCookie() (478-493), getCookie() (496-499) and            *)
(* getSessionID() (184-186), one loop iteration per step.                   *)
(*                                                                          *)
(* The Cookie header, split on "; \t\n\r", is a sequence of tokens.  A     *)
(* token is what precedes its first '=' (all of it when there is none),    *)
(* whether there is a '=', and what follows it.                            *)
(***************************************************************************)
EXTENDS Naturals, Sequences

CONSTANTS
    Names,      \* cookie names
    Values,     \* cookie values; "" is the empty string
    MaxTokens,  \* bound on the tokens of one Cookie header
    Absent      \* model value: the request has no such header

(* The empty std::string.                                                   *)
Empty == ""

ASSUME CookiesAssumption ==
    /\ MaxTokens \in Nat
    /\ Empty \in Values
    /\ Values \cap {"true", "false", "throw", "none"} = {}
    /\ Absent \notin Values

Tokens == [name : Names, eq : BOOLEAN, val : Values]
CookieHeaders == {Absent} \cup UNION {[1..n -> Tokens] : n \in 0..MaxTokens}
(* The session header: absent, or present with some value.                 *)
SessionHeaders == {Absent} \cup Values

VARIABLES
    cookie,   \* the request's Cookie header
    session,  \* the request's session header (getSessionID's `header`)
    call,     \* the call in progress: [op, name]
    phase,    \* "idle", "has" or "find": the loop running
    i,        \* tokens scanned by that loop
    result    \* the value returned, "throw", or "none" while running

vars == <<cookie, session, call, phase, i, result>>

Ops == {"hasCookie", "findCookie", "getCookie", "getSessionID"}
(* hasCookie's bool, kept apart from the string results.                   *)
Bool(b) == IF b THEN "true" ELSE "false"
Bools == {"true", "false"}

TypeOK ==
    /\ cookie \in CookieHeaders
    /\ session \in SessionHeaders
    /\ call \in [op : Ops, name : Names]
    /\ phase \in {"idle", "has", "find", "done"}
    /\ i \in 0..MaxTokens
    /\ result \in Values \cup Bools \cup {"throw", "none"}

Init ==
    /\ cookie \in CookieHeaders
    /\ session \in SessionHeaders
    /\ call \in [op : Ops, name : Names]
    /\ phase = "idle"
    /\ i = 0
    /\ result = "none"

-----------------------------------------------------------------------------
(* hasCookie returning r; within getCookie, a throw when r is false and    *)
(* findCookie's loop from the start when it is true.                       *)
HasReturned(r) ==
    IF call.op = "getCookie"
      THEN IF r THEN phase' = "find" /\ result' = "none"
                ELSE phase' = "done" /\ result' = "throw"
      ELSE phase' = "done" /\ result' = Bool(r)

(* A faulty getCookie() that skips its hasCookie() check.                  *)
StartNoHasCheck ==
    /\ phase = "idle"
    /\ CASE call.op = "getSessionID" /\ session # Absent ->
                 phase' = "done" /\ result' = session
         [] \/ call.op \in {"findCookie", "getCookie"}
            \/ call.op = "getSessionID" /\ session = Absent ->
                 IF cookie = Absent THEN phase' = "done" /\ result' = Empty
                                    ELSE phase' = "find" /\ result' = "none"
         [] call.op = "hasCookie" ->
                 IF cookie = Absent THEN HasReturned(FALSE)
                                    ELSE phase' = "has" /\ result' = "none"
    /\ UNCHANGED <<cookie, session, call, i>>

(* Entering the call: getSessionID returns the header when it is there;   *)
(* hasCookie and findCookie return at once without a Cookie header.         *)
Start ==
    /\ phase = "idle"
    /\ CASE call.op = "getSessionID" /\ session # Absent ->
                 phase' = "done" /\ result' = session
         [] \/ call.op = "findCookie"
            \/ call.op = "getSessionID" /\ session = Absent ->
                 IF cookie = Absent THEN phase' = "done" /\ result' = Empty
                                    ELSE phase' = "find" /\ result' = "none"
         [] call.op \in {"hasCookie", "getCookie"} ->
                 IF cookie = Absent THEN HasReturned(FALSE)
                                    ELSE phase' = "has" /\ result' = "none"
    /\ UNCHANGED <<cookie, session, call, i>>

(* One iteration of hasCookie's loop (lines 471-472), and its end (474).   *)
HasStep ==
    /\ phase = "has"
    /\ IF i < Len(cookie)
         THEN IF cookie[i + 1].name = call.name
                THEN HasReturned(TRUE) /\ i' = 0
                ELSE i' = i + 1 /\ UNCHANGED <<phase, result>>
         ELSE HasReturned(FALSE) /\ UNCHANGED i
    /\ UNCHANGED <<cookie, session, call>>

(* A faulty findCookie() without the `pos == npos` test: substr(npos + 1) *)
(* is the whole token, its name.                                            *)
FindStepWholeToken ==
    /\ phase = "find"
    /\ IF i < Len(cookie)
         THEN IF cookie[i + 1].name = call.name
                THEN /\ phase' = "done"
                     /\ result' = IF cookie[i + 1].eq THEN cookie[i + 1].val
                                                       ELSE cookie[i + 1].name
                     /\ UNCHANGED i
                ELSE i' = i + 1 /\ UNCHANGED <<phase, result>>
         ELSE phase' = "done" /\ result' = Empty /\ UNCHANGED i
    /\ UNCHANGED <<cookie, session, call>>

(* One iteration of findCookie's loop (lines 484-489), and its end (492).  *)
FindStep ==
    /\ phase = "find"
    /\ IF i < Len(cookie)
         THEN IF cookie[i + 1].name = call.name
                THEN /\ phase' = "done"
                     /\ result' = IF cookie[i + 1].eq THEN cookie[i + 1].val
                                                       ELSE Empty
                     /\ UNCHANGED i
                ELSE i' = i + 1 /\ UNCHANGED <<phase, result>>
         ELSE phase' = "done" /\ result' = Empty /\ UNCHANGED i
    /\ UNCHANGED <<cookie, session, call>>

(* The application's next lookup on the same request.                      *)
NextCall ==
    /\ phase = "done"
    /\ phase' = "idle"
    /\ call' \in [op : Ops, name : Names]
    /\ result' = "none"
    /\ i' = 0
    /\ UNCHANGED <<cookie, session>>

Next == Start \/ HasStep \/ FindStep \/ NextCall

Spec == Init /\ [][Next]_vars

-----------------------------------------------------------------------------
(* The lookups stated without loops: the first token of that name decides.*)
Positions(h, n) == {k \in 1..Len(h) : h[k].name = n}

Has(h, n) == h # Absent /\ Positions(h, n) # {}

Find(h, n) ==
    IF ~Has(h, n) THEN Empty
    ELSE LET k == CHOOSE k \in Positions(h, n) :
                    \A j \in Positions(h, n) : k <= j
         IN  IF h[k].eq THEN h[k].val ELSE Empty

Expected ==
    CASE call.op = "hasCookie"    -> Bool(Has(cookie, call.name))
      [] call.op = "findCookie"   -> Find(cookie, call.name)
      [] call.op = "getCookie"    ->
            IF Has(cookie, call.name) THEN Find(cookie, call.name) ELSE "throw"
      [] call.op = "getSessionID" ->
            IF session # Absent THEN session ELSE Find(cookie, call.name)

(* Every lookup returns what the first matching cookie says (spec.md       *)
(* section 3: first match wins), getCookie throws exactly when hasCookie    *)
(* is false, and getSessionID prefers the header over the cookie.           *)
LookupMatchesReference ==
    phase = "done" => result = Expected

=============================================================================
