--------------------------- MODULE CookiesProofs ---------------------------
(***************************************************************************)
(* Proofs about the Cookie lookups for every set of names and values and   *)
(* every bound on the tokens: type correctness, and that each lookup       *)
(* returns what the first token of its name says.                          *)
(***************************************************************************)
EXTENDS Cookies, SequenceTheorems, TLAPS

(* No token among the first n of the header is named as the call asks.    *)
Missed(n) == \A k \in 1..n : cookie[k].name # call.name

(* LookupMatchesReference strengthened into a loop invariant: while        *)
(* hasCookie's loop runs, the tokens it passed do not match; while          *)
(* findCookie's loop runs the same holds, and the call is one whose answer *)
(* is findCookie's (getCookie only once hasCookie said yes, getSessionID    *)
(* only without the session header).                                        *)
LookupInv ==
    /\ phase = "idle" => i = 0
    /\ phase \in {"has", "find"} =>
          /\ cookie # Absent
          /\ i <= Len(cookie)
          /\ Missed(i)
          /\ result = "none"
    /\ phase = "has" => call.op \in {"hasCookie", "getCookie"}
    /\ phase = "find" =>
          \/ call.op = "findCookie"
          \/ call.op = "getSessionID" /\ session = Absent
          \/ call.op = "getCookie" /\ Has(cookie, call.name)
    /\ LookupMatchesReference

IInv == TypeOK /\ LookupInv

-----------------------------------------------------------------------------
(* A Cookie header that is there is a sequence of at most MaxTokens tokens. *)
LEMMA HeaderSeq ==
    ASSUME NEW h \in CookieHeaders, h # Absent
    PROVE  h \in Seq(Tokens) /\ Len(h) \in 0..MaxTokens
<1>1. PICK n \in 0..MaxTokens : h \in [1..n -> Tokens]
  BY DEF CookieHeaders
<1>2. h \in Seq(Tokens)
  <2>0. n \in Nat
    BY <1>1, CookiesAssumption
  <2>1. h \in UNION {[1..k -> Tokens] : k \in Nat}
    BY <1>1, <2>0, Zenon
  <2>2. QED
    BY <2>1, SeqDef
<1>3. DOMAIN h = 1..Len(h) /\ Len(h) \in Nat
  BY <1>2, LenProperties
<1>4. Len(h) = n
  <2>1. DOMAIN h = 1..n
    BY <1>1
  <2>2. CASE n = 0
    BY <1>3, <2>1, <2>2
  <2>3. CASE n # 0
    <3>0. n \in Nat
      BY <1>1, CookiesAssumption
    <3>1. n \in 1..Len(h)
      BY <1>3, <2>1, <2>3, <3>0
    <3>2. Len(h) \in 1..n
      <4>1. Len(h) \in 1..Len(h)
        BY <1>3, <3>1
      <4>2. Len(h) \in DOMAIN h
        BY <1>3, <4>1, Zenon
      <4>3. QED
        BY <2>1, <4>2, Zenon
    <3>3. Len(h) \in Nat
      BY <1>3
    <3>4. QED
      BY <3>0, <3>1, <3>2, <3>3
  <2>4. QED
    BY <2>2, <2>3
<1>5. QED
  BY <1>1, <1>2, <1>4

(* The first token named n is the one after m tokens that are not.         *)
LEMMA FirstMatch ==
    ASSUME NEW h \in Seq(Tokens), h # Absent, NEW n, NEW m \in Nat,
           m < Len(h), \A k \in 1..m : h[k].name # n, h[m + 1].name = n
    PROVE  /\ Has(h, n)
           /\ Find(h, n) = IF h[m + 1].eq THEN h[m + 1].val ELSE Empty
<1>1. m + 1 \in Positions(h, n)
  BY DEF Positions
<1>2. \A j \in Positions(h, n) : m + 1 <= j
  BY DEF Positions
<1>3. Has(h, n)
  BY <1>1 DEF Has
<1> DEFINE first == CHOOSE k \in Positions(h, n) :
                       \A j \in Positions(h, n) : k <= j
<1>4. first \in Positions(h, n) /\ \A j \in Positions(h, n) : first <= j
  BY <1>1, <1>2
<1>5. first = m + 1
  BY <1>1, <1>2, <1>4 DEF Positions
<1>6. Find(h, n) = IF h[first].eq THEN h[first].val ELSE Empty
  BY <1>3 DEF Find
<1>7. QED
  BY <1>3, <1>5, <1>6

(* A header none of whose tokens is named n has no cookie n.               *)
LEMMA NoMatch ==
    ASSUME NEW h, NEW n,
           h # Absent => h \in Seq(Tokens) /\ \A k \in 1..Len(h) : h[k].name # n
    PROVE  ~Has(h, n) /\ Find(h, n) = Empty
<1>1. ~Has(h, n)
  BY DEF Has, Positions
<1>2. QED
  BY <1>1 DEF Find

(* The empty string is a cookie value, and no result marker is one.       *)
LEMMA ValuesFacts ==
    /\ Empty \in Values
    /\ Values \cap {"true", "false", "throw", "none"} = {}
    /\ MaxTokens \in Nat
BY CookiesAssumption, Zenon

(* What each call should return, one call at a time.                       *)
LEMMA ExpectedCases ==
    ASSUME call \in [op : Ops, name : Names]
    PROVE  /\ call.op = "hasCookie" =>
                 Expected = Bool(Has(cookie, call.name))
           /\ call.op = "findCookie" => Expected = Find(cookie, call.name)
           /\ call.op = "getCookie" =>
                 Expected = IF Has(cookie, call.name)
                              THEN Find(cookie, call.name) ELSE "throw"
           /\ call.op = "getSessionID" =>
                 Expected = IF session # Absent THEN session
                                                ELSE Find(cookie, call.name)
BY DEF Expected, Ops

-----------------------------------------------------------------------------
LEMMA InitIInv == Init => IInv
<1> SUFFICES ASSUME Init PROVE IInv
  OBVIOUS
<1>1. TypeOK
  BY ValuesFacts DEF Init, TypeOK
<1>2. LookupInv
  BY DEF Init, LookupInv, LookupMatchesReference
<1>3. QED
  BY <1>1, <1>2 DEF IInv

(* The answer expected depends on the header, the session and the call.  *)
LEMMA ExpectedFrame ==
    ASSUME UNCHANGED <<cookie, session, call>>
    PROVE  Expected' = Expected
BY DEF Expected

(* Entering a lookup.                                                       *)
LEMMA StartStep ==
    ASSUME IInv, Start
    PROVE  IInv'
<1>0. /\ TypeOK /\ phase = "idle" /\ i = 0
      /\ UNCHANGED <<cookie, session, call, i>>
  BY DEF IInv, LookupInv, Start
<1>1. Expected' = Expected
  BY <1>0, ExpectedFrame
<1>2. call \in [op : Ops, name : Names] /\ session \in SessionHeaders
  BY <1>0 DEF TypeOK
<1>3. CASE call.op = "getSessionID" /\ session # Absent
  <2>1. phase' = "done" /\ result' = session
    BY <1>3 DEF Start
  <2>2. result' = Expected'
    BY <1>1, <1>2, <1>3, <2>1, ExpectedCases
  <2>3. session \in Values
    BY <1>2, <1>3 DEF SessionHeaders
  <2>4. QED
    BY <1>0, <2>1, <2>2, <2>3 DEF IInv, TypeOK, LookupInv, LookupMatchesReference
<1>4. CASE call.op = "findCookie" \/ (call.op = "getSessionID" /\ session = Absent)
  <2>1. CASE cookie = Absent
    <3>1. phase' = "done" /\ result' = Empty
      BY <1>4, <2>1 DEF Start
    <3>2. Find(cookie, call.name) = Empty
      BY <2>1, NoMatch
    <3>3. result' = Expected'
      BY <1>1, <1>2, <1>4, <3>1, <3>2, ExpectedCases
    <3>4. QED
      BY <1>0, <3>1, <3>3, ValuesFacts
         DEF IInv, TypeOK, LookupInv, LookupMatchesReference
  <2>2. CASE cookie # Absent
    <3>1. phase' = "find" /\ result' = "none"
      BY <1>4, <2>2 DEF Start
    <3>2. Len(cookie) \in Nat
      BY <1>0, <2>2, HeaderSeq DEF TypeOK
    <3>3. QED
      BY <1>0, <1>4, <2>2, <3>1, <3>2
         DEF IInv, TypeOK, LookupInv, LookupMatchesReference, Missed
  <2>3. QED
    BY <2>1, <2>2
<1>5. CASE call.op \in {"hasCookie", "getCookie"}
  <2>1. CASE cookie = Absent
    <3>1. ~Has(cookie, call.name)
      BY <2>1 DEF Has
    <3>2. HasReturned(FALSE)
      BY <1>5, <2>1 DEF Start
    <3>3. CASE call.op = "hasCookie"
      <4>1. phase' = "done" /\ result' = "false"
        BY <3>2, <3>3 DEF HasReturned, Bool
      <4>2. result' = Expected'
        BY <1>1, <1>2, <3>1, <3>3, <4>1, ExpectedCases DEF Bool
      <4>3. QED
        BY <1>0, <4>1, <4>2 DEF IInv, TypeOK, LookupInv, LookupMatchesReference,
                                Bools
    <3>4. CASE call.op = "getCookie"
      <4>1. phase' = "done" /\ result' = "throw"
        BY <3>2, <3>4 DEF HasReturned
      <4>2. result' = Expected'
        BY <1>1, <1>2, <3>1, <3>4, <4>1, ExpectedCases
      <4>3. QED
        BY <1>0, <4>1, <4>2 DEF IInv, TypeOK, LookupInv, LookupMatchesReference
    <3>5. QED
      BY <1>5, <3>3, <3>4
  <2>2. CASE cookie # Absent
    <3>1. phase' = "has" /\ result' = "none"
      BY <1>5, <2>2 DEF Start
    <3>2. Len(cookie) \in Nat
      BY <1>0, <2>2, HeaderSeq DEF TypeOK
    <3>3. QED
      BY <1>0, <1>5, <2>2, <3>1, <3>2
         DEF IInv, TypeOK, LookupInv, LookupMatchesReference, Missed
  <2>3. QED
    BY <2>1, <2>2
<1>6. call.op \in Ops
  BY <1>2
<1>7. QED
  BY <1>3, <1>4, <1>5, <1>6, Zenon DEF Ops

(* Facts every loop step starts from.                                       *)
LEMMA LoopFacts ==
    ASSUME IInv, phase \in {"has", "find"}
    PROVE  /\ cookie # Absent
           /\ cookie \in Seq(Tokens)
           /\ Len(cookie) \in 0..MaxTokens
           /\ i \in Nat /\ i <= Len(cookie)
           /\ Missed(i)
           /\ result = "none"
           /\ call \in [op : Ops, name : Names]
<1>1. cookie # Absent /\ cookie \in CookieHeaders
  BY DEF IInv, LookupInv, TypeOK
<1>2. cookie \in Seq(Tokens) /\ Len(cookie) \in 0..MaxTokens
  BY <1>1, HeaderSeq
<1>3. QED
  BY <1>1, <1>2, ValuesFacts DEF IInv, LookupInv, TypeOK

(* One iteration of hasCookie's loop, or its end.                           *)
LEMMA HasStepStep ==
    ASSUME IInv, HasStep
    PROVE  IInv'
<1>0. /\ phase = "has"
      /\ call.op \in {"hasCookie", "getCookie"}
      /\ UNCHANGED <<cookie, session, call>>
  BY DEF IInv, LookupInv, HasStep
<1>1. /\ cookie # Absent
      /\ cookie \in Seq(Tokens)
      /\ Len(cookie) \in 0..MaxTokens
      /\ i \in Nat /\ i <= Len(cookie)
      /\ Missed(i)
      /\ result = "none"
      /\ call \in [op : Ops, name : Names]
  BY <1>0, LoopFacts
<1>2. Expected' = Expected
  BY <1>0, ExpectedFrame
<1>3. TypeOK
  BY DEF IInv
<1>4. CASE i < Len(cookie) /\ cookie[i + 1].name = call.name
  <2>1. Has(cookie, call.name)
        /\ Find(cookie, call.name) =
             IF cookie[i + 1].eq THEN cookie[i + 1].val ELSE Empty
    BY <1>1, <1>4, FirstMatch DEF Missed
  <2>2. HasReturned(TRUE) /\ i' = 0
    BY <1>4 DEF HasStep
  <2>3. CASE call.op = "hasCookie"
    <3>1. phase' = "done" /\ result' = "true"
      BY <2>2, <2>3 DEF HasReturned, Bool
    <3>2. result' = Expected'
      BY <1>1, <1>2, <2>1, <2>3, <3>1, ExpectedCases DEF Bool
    <3>3. QED
      BY <1>0, <1>3, <2>2, <3>1, <3>2, ValuesFacts
         DEF IInv, TypeOK, LookupInv, LookupMatchesReference, Bools
  <2>4. CASE call.op = "getCookie"
    <3>1. phase' = "find" /\ result' = "none"
      BY <2>2, <2>4 DEF HasReturned
    <3>2. QED
      BY <1>0, <1>1, <1>3, <2>1, <2>2, <2>4, <3>1, ValuesFacts
         DEF IInv, TypeOK, LookupInv, LookupMatchesReference, Missed
  <2>5. QED
    BY <1>0, <2>3, <2>4
<1>5. CASE i < Len(cookie) /\ cookie[i + 1].name # call.name
  <2>1. i' = i + 1 /\ UNCHANGED <<phase, result>>
    BY <1>5 DEF HasStep
  <2>2. Missed(i + 1)
    BY <1>1, <1>5 DEF Missed
  <2>3. i + 1 \in 0..MaxTokens /\ i + 1 <= Len(cookie)
    BY <1>1, <1>5, ValuesFacts
  <2>4. QED
    BY <1>0, <1>1, <1>3, <2>1, <2>2, <2>3
       DEF IInv, TypeOK, LookupInv, LookupMatchesReference, Missed
<1>6. CASE ~(i < Len(cookie))
  <2>1. HasReturned(FALSE) /\ i' = i
    BY <1>6 DEF HasStep
  <2>2. ~Has(cookie, call.name)
    <3>1. i = Len(cookie)
      BY <1>1, <1>6
    <3>2. \A k \in 1..Len(cookie) : cookie[k].name # call.name
      BY <1>1, <3>1 DEF Missed
    <3>3. QED
      BY <1>1, <3>2, NoMatch
  <2>3. CASE call.op = "hasCookie"
    <3>1. phase' = "done" /\ result' = "false"
      BY <2>1, <2>3 DEF HasReturned, Bool
    <3>2. result' = Expected'
      BY <1>1, <1>2, <2>2, <2>3, <3>1, ExpectedCases DEF Bool
    <3>3. QED
      BY <1>0, <1>3, <2>1, <3>1, <3>2
         DEF IInv, TypeOK, LookupInv, LookupMatchesReference, Bools
  <2>4. CASE call.op = "getCookie"
    <3>1. phase' = "done" /\ result' = "throw"
      BY <2>1, <2>4 DEF HasReturned
    <3>2. result' = Expected'
      BY <1>1, <1>2, <2>2, <2>4, <3>1, ExpectedCases
    <3>3. QED
      BY <1>0, <1>3, <2>1, <3>1, <3>2
         DEF IInv, TypeOK, LookupInv, LookupMatchesReference
  <2>5. QED
    BY <1>0, <2>3, <2>4
<1>7. QED
  BY <1>4, <1>5, <1>6

(* Within findCookie's loop, the answer expected is findCookie's.          *)
LEMMA FindExpected ==
    ASSUME IInv, phase = "find"
    PROVE  Expected = Find(cookie, call.name)
<1>1. call \in [op : Ops, name : Names]
  BY DEF IInv, TypeOK
<1>2. \/ call.op = "findCookie"
      \/ call.op = "getSessionID" /\ session = Absent
      \/ call.op = "getCookie" /\ Has(cookie, call.name)
  BY DEF IInv, LookupInv
<1>3. QED
  BY <1>1, <1>2, ExpectedCases

(* One iteration of findCookie's loop, or its end.                          *)
LEMMA FindStepStep ==
    ASSUME IInv, FindStep
    PROVE  IInv'
<1>0. /\ phase = "find"
      /\ UNCHANGED <<cookie, session, call>>
  BY DEF FindStep
<1>1. /\ cookie # Absent
      /\ cookie \in Seq(Tokens)
      /\ Len(cookie) \in 0..MaxTokens
      /\ i \in Nat /\ i <= Len(cookie)
      /\ Missed(i)
      /\ result = "none"
      /\ call \in [op : Ops, name : Names]
  BY <1>0, LoopFacts
<1>2. Expected' = Find(cookie, call.name)
  <2>1. Expected' = Expected
    BY <1>0, ExpectedFrame
  <2>2. QED
    BY <1>0, <2>1, FindExpected
<1>3. TypeOK
  BY DEF IInv
<1>4. CASE i < Len(cookie) /\ cookie[i + 1].name = call.name
  <2>1. Find(cookie, call.name) =
          IF cookie[i + 1].eq THEN cookie[i + 1].val ELSE Empty
    BY <1>1, <1>4, FirstMatch DEF Missed
  <2>2. /\ phase' = "done"
        /\ result' = IF cookie[i + 1].eq THEN cookie[i + 1].val ELSE Empty
        /\ i' = i
    BY <1>4 DEF FindStep
  <2>3. result' \in Values
    <3>1. cookie[i + 1] \in Tokens
      BY <1>1, <1>4
    <3>2. QED
      BY <2>2, <3>1, ValuesFacts DEF Tokens
  <2>4. QED
    BY <1>0, <1>2, <1>3, <2>1, <2>2, <2>3
       DEF IInv, TypeOK, LookupInv, LookupMatchesReference
<1>5. CASE i < Len(cookie) /\ cookie[i + 1].name # call.name
  <2>1. i' = i + 1 /\ UNCHANGED <<phase, result>>
    BY <1>5 DEF FindStep
  <2>2. Missed(i + 1)
    BY <1>1, <1>5 DEF Missed
  <2>3. i + 1 \in 0..MaxTokens /\ i + 1 <= Len(cookie)
    BY <1>1, <1>5, ValuesFacts
  <2>4. Has(cookie, call.name)' = Has(cookie, call.name)
    BY <1>0
  <2>5. QED
    BY <1>0, <1>1, <1>3, <2>1, <2>2, <2>3, <2>4
       DEF IInv, TypeOK, LookupInv, LookupMatchesReference, Missed
<1>6. CASE ~(i < Len(cookie))
  <2>1. phase' = "done" /\ result' = Empty /\ i' = i
    BY <1>6 DEF FindStep
  <2>2. Find(cookie, call.name) = Empty
    <3>1. i = Len(cookie)
      BY <1>1, <1>6
    <3>2. \A k \in 1..Len(cookie) : cookie[k].name # call.name
      BY <1>1, <3>1 DEF Missed
    <3>3. QED
      BY <1>1, <3>2, NoMatch
  <2>3. QED
    BY <1>0, <1>2, <1>3, <2>1, <2>2, ValuesFacts
       DEF IInv, TypeOK, LookupInv, LookupMatchesReference
<1>7. QED
  BY <1>4, <1>5, <1>6

(* The application's next lookup.                                           *)
LEMMA NextCallStep ==
    ASSUME IInv, NextCall
    PROVE  IInv'
<1>1. TypeOK'
  BY ValuesFacts DEF IInv, TypeOK, NextCall
<1>2. LookupInv'
  BY DEF NextCall, LookupInv, LookupMatchesReference
<1>3. QED
  BY <1>1, <1>2 DEF IInv

(* A step that changes nothing.                                             *)
LEMMA StutterStep ==
    ASSUME IInv, UNCHANGED vars
    PROVE  IInv'
<1>1. UNCHANGED <<cookie, session, call, phase, i, result>>
  BY DEF vars
<1>2. Expected' = Expected
  BY <1>1, ExpectedFrame
<1>3. TypeOK'
  BY <1>1 DEF IInv, TypeOK
<1>4. Has(cookie, call.name)' = Has(cookie, call.name)
  BY <1>1
<1>5. LookupInv'
  BY <1>1, <1>2, <1>4 DEF IInv, LookupInv, LookupMatchesReference, Missed
<1>6. QED
  BY <1>3, <1>5 DEF IInv

LEMMA NextStep ==
    ASSUME IInv, [Next]_vars
    PROVE  IInv'
<1>1. CASE Start
  BY <1>1, StartStep
<1>2. CASE HasStep
  BY <1>2, HasStepStep
<1>3. CASE FindStep
  BY <1>3, FindStepStep
<1>4. CASE NextCall
  BY <1>4, NextCallStep
<1>5. CASE UNCHANGED vars
  BY <1>5, StutterStep
<1>6. QED
  BY <1>1, <1>2, <1>3, <1>4, <1>5 DEF Next

LEMMA IInvariant == Spec => []IInv
BY InitIInv, NextStep, PTL DEF Spec

(* Every state of the lookups is well typed: the loops' counters stay     *)
(* within the header's tokens and every result is a value, a bool, or a     *)
(* throw (hasCookie, findCookie, getCookie, getSessionID).                   *)
THEOREM TypeCorrect == Spec => []TypeOK
BY IInvariant, PTL DEF IInv

(* For every set of names and values and every bound on the tokens, every *)
(* lookup that returns returns what the first token of its name says:       *)
(* hasCookie's and findCookie's loops, getCookie's throw, getSessionID's    *)
(* preference of the header.                                                *)
THEOREM LookupCorrect == Spec => []LookupMatchesReference
BY IInvariant, PTL DEF IInv, LookupInv

=============================================================================
