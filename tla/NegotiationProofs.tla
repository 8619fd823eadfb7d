------------------------- MODULE NegotiationProofs -------------------------
(***************************************************************************)
(* Proofs about getRequestedCompression()'s loop for every bound on the    *)
(* tokens and every set of qualities: type correctness, and that the value *)
(* returned is the reference selection of Negotiation.Selected.            *)
(***************************************************************************)
EXTENDS Negotiation, SequenceTheorems, TLAPS

(* The quality of the k-th token, in tenths.                               *)
Q(k) == QualityOf(accept[k])

(* The tokens among the first n with a recognised name and a positive      *)
(* quality, and those among them that are "*" with a q= parameter.          *)
Cand(n) == {k \in 1..n : accept[k].name \in DOMAIN CodecOf /\ Q(k) > 0}
Stars(n) == {k \in 1..n : accept[k].name = "*" /\ accept[k].q # NoQ}

(* After n tokens, mq is their highest recognised quality (0 for none) and *)
(* comp the codec of the first token of that quality ("none" for none).    *)
MaxInv(n, mq, comp) ==
    /\ \A k \in Cand(n) : Q(k) <= mq
    /\ Cand(n) = {} => mq = 0 /\ comp = "none"
    /\ Cand(n) # {} =>
          \E f \in Cand(n) :
             /\ Q(f) = mq
             /\ \A k \in Cand(n) : k < f => Q(k) < mq
             /\ comp = CodecOf[accept[f].name]

(* After n tokens, oq is the q of the last "*" that carried one (0 for     *)
(* none).                                                                   *)
StarInv(n, oq) ==
    /\ Stars(n) = {} => oq = 0
    /\ Stars(n) # {} =>
          \E s \in Stars(n) :
             /\ \A k \in Stars(n) : k <= s
             /\ oq = accept[s].q

(* ResultMatchesReference strengthened into a loop invariant: after i      *)
(* tokens, named holds their names, maxQ and compression are the highest    *)
(* recognised quality and the codec of its first token, and otherQ is the   *)
(* q of the last "*" that carried one.                                       *)
ScanInv ==
    accept # Absent =>
      /\ i <= Len(accept)
      /\ named = {accept[k].name : k \in 1..i}
      /\ MaxInv(i, maxQ, compression)
      /\ StarInv(i, otherQ)

IInv == TypeOK /\ ScanInv /\ ResultMatchesReference

-----------------------------------------------------------------------------
LEMMA AssumptionFacts ==
    MaxTokens \in Nat /\ QValues \subseteq Nat /\ NoQ \notin QValues
BY NegotiationAssumption

(* An Accept-Encoding header that is there is a sequence of at most        *)
(* MaxTokens tokens.                                                        *)
LEMMA HeaderSeq ==
    ASSUME NEW h \in Headers, h # Absent
    PROVE  h \in Seq(Tokens) /\ Len(h) \in 0..MaxTokens
<1>1. PICK n \in 0..MaxTokens : h \in [1..n -> Tokens]
  BY DEF Headers
<1>0. n \in Nat
  BY <1>1, AssumptionFacts
<1>2. h \in Seq(Tokens)
  <2>1. h \in UNION {[1..k -> Tokens] : k \in Nat}
    BY <1>1, <1>0, Zenon
  <2>2. QED
    BY <2>1, SeqDef
<1>3. DOMAIN h = 1..Len(h) /\ Len(h) \in Nat
  BY <1>2, LenProperties
<1>4. Len(h) = n
  <2>1. DOMAIN h = 1..n
    BY <1>1
  <2>2. CASE n = 0
    BY <1>3, <2>1, <2>2
  <2>3. CASE n # 0
    <3>1. n \in 1..Len(h)
      BY <1>0, <1>3, <2>1, <2>3
    <3>2. Len(h) \in 1..n
      <4>1. Len(h) \in 1..Len(h)
        BY <1>3, <3>1
      <4>2. Len(h) \in DOMAIN h
        BY <1>3, <4>1, Zenon
      <4>3. QED
        BY <2>1, <4>2, Zenon
    <3>3. Len(h) \in Nat
      BY <1>3
    <3>4. QED
      BY <1>0, <3>1, <3>2, <3>3
  <2>4. QED
    BY <2>2, <2>3
<1>5. QED
  BY <1>1, <1>2, <1>4

(* The qualities the loop keeps are natural numbers of tenths.            *)
LEMMA QualitiesNat ==
    ASSUME TypeOK
    PROVE  maxQ \in Nat /\ otherQ \in Nat
<1>1. maxQ \in QValues \cup {0, One} /\ otherQ \in QValues \cup {0}
  BY DEF TypeOK
<1>2. QED
  BY <1>1, AssumptionFacts DEF One

(* A token's quality is a natural number of tenths.                        *)
LEMMA QualityNat ==
    ASSUME NEW tok \in Tokens
    PROVE  QualityOf(tok) \in Nat /\ (tok.q # NoQ => tok.q \in QValues)
BY AssumptionFacts DEF Tokens, QualityOf, One

(* The CHOOSEs of the reference: an upper bound that is a member is the    *)
(* greatest, a lower bound that is a member the least.                      *)
LEMMA GreatestIs ==
    ASSUME NEW S \in SUBSET Int, NEW m \in S, \A x \in S : x <= m
    PROVE  Greatest(S) = m
<1>1. \A x \in S : x <= Greatest(S) /\ Greatest(S) \in S
  BY DEF Greatest
<1>2. Greatest(S) \in Int
  BY <1>1
<1>3. Greatest(S) <= m /\ m <= Greatest(S)
  BY <1>1 
<1>4. QED
  BY <1>2, <1>3

LEMMA LeastIs ==
    ASSUME NEW S \in SUBSET Int, NEW m \in S, \A x \in S : m <= x
    PROVE  Least(S) = m
<1>1. \A x \in S : Least(S) <= x /\ Least(S) \in S
  BY DEF Least
<1>2. Least(S) \in Int
  BY <1>1
<1>3. Least(S) <= m /\ m <= Least(S)
  BY <1>1 
<1>4. QED
  BY <1>2, <1>3

-----------------------------------------------------------------------------
LEMMA InitIInv == Init => IInv
<1> SUFFICES ASSUME Init PROVE IInv
  OBVIOUS
<1>1. TypeOK
  BY AssumptionFacts DEF Init, TypeOK, Codecs
<1>2. Cand(0) = {} /\ Stars(0) = {}
  BY DEF Cand, Stars
<1>3. ScanInv
  BY <1>2 DEF Init, ScanInv, MaxInv, StarInv
<1>4. QED
  BY <1>1, <1>3 DEF Init, IInv, ResultMatchesReference

(* No Accept-Encoding header: COMPRESS_NONE.                                *)
LEMMA NoHeaderStep ==
    ASSUME IInv, NoHeader
    PROVE  IInv'
<1>1. accept' = Absent /\ result' = "none"
  BY DEF NoHeader
<1>2. Selected(accept') = "none"
  BY <1>1 DEF Selected
<1>3. QED
  BY <1>1, <1>2 DEF IInv, TypeOK, Codecs, ScanInv, ResultMatchesReference,
                    NoHeader

(* After the loop, the wildcard test picks what the reference selects.     *)
LEMMA FinishSelects ==
    ASSUME IInv, accept # Absent, i = Len(accept)
    PROVE  Selected(accept) =
             IF maxQ < otherQ /\ "gzip" \notin named THEN "gzip" ELSE compression
<1>0. accept \in Seq(Tokens) /\ Len(accept) \in 0..MaxTokens
  BY HeaderSeq DEF IInv, TypeOK
<1>1. \A k \in 1..Len(accept) : accept[k] \in Tokens /\ Q(k) \in Nat
  BY <1>0, QualityNat DEF Q
<1> DEFINE h     == accept
           cand  == {k \in 1..Len(h) : /\ h[k].name \in DOMAIN CodecOf
                                       /\ QualityOf(h[k]) > 0}
           top   == Greatest({QualityOf(h[k]) : k \in cand})
           first == Least({k \in cand : QualityOf(h[k]) = top})
           best  == IF cand = {} THEN 0 ELSE top
           stars == {k \in 1..Len(h) : h[k].name = "*" /\ h[k].q # NoQ}
           wild  == IF stars = {} THEN 0 ELSE h[Greatest(stars)].q
           base  == IF cand = {} THEN "none" ELSE CodecOf[h[first].name]
<1>2. Selected(accept) =
        IF best < wild /\ \A k \in 1..Len(h) : h[k].name # "gzip"
          THEN "gzip" ELSE base
  BY DEF Selected
<1>3. cand = Cand(i) /\ stars = Stars(i)
  BY DEF Cand, Stars, Q
<1>4. named = {accept[k].name : k \in 1..i}
  BY DEF IInv, ScanInv, MaxInv, StarInv
<1>5. ("gzip" \notin named) <=> \A k \in 1..Len(h) : h[k].name # "gzip"
  BY <1>4
<1>6. best = maxQ /\ base = compression
  <2>1. CASE cand = {}
    BY <1>3, <2>1 DEF IInv, ScanInv, MaxInv, StarInv
  <2>2. CASE cand # {}
    <3>1. PICK f \in Cand(i) :
             /\ Q(f) = maxQ
             /\ \A k \in Cand(i) : k < f => Q(k) < maxQ
             /\ compression = CodecOf[accept[f].name]
      BY <1>3, <2>2 DEF IInv, ScanInv, MaxInv, StarInv
    <3>2. \A k \in Cand(i) : Q(k) <= maxQ
      BY DEF IInv, ScanInv, MaxInv, StarInv
    <3>3. top = maxQ
      <4>1. {QualityOf(h[k]) : k \in cand} \in SUBSET Int
        BY <1>1 DEF Q
      <4>2. maxQ \in {QualityOf(h[k]) : k \in cand}
        BY <1>3, <3>1 DEF Q
      <4>3. \A x \in {QualityOf(h[k]) : k \in cand} : x <= maxQ
        BY <1>3, <3>2 DEF Q
      <4>4. QED
        BY <4>1, <4>2, <4>3, GreatestIs
    <3>4. first = f
      <4>1. {k \in cand : QualityOf(h[k]) = top} \in SUBSET Int
        OBVIOUS
      <4>2. f \in {k \in cand : QualityOf(h[k]) = top}
        BY <1>3, <3>1, <3>3 DEF Q
      <4>3. \A x \in {k \in cand : QualityOf(h[k]) = top} : f <= x
        <5>1. TAKE x \in {k \in cand : QualityOf(h[k]) = top}
        <5>2. x \in Cand(i) /\ Q(x) = maxQ
          BY <1>3, <3>3 DEF Q
        <5>3. x \in Int /\ f \in Int
          BY <5>2 DEF Cand
        <5>4. maxQ \in Int
          BY QualitiesNat DEF IInv
        <5>5. QED
          BY <3>1, <5>2, <5>3, <5>4
      <4>4. QED
        BY <4>1, <4>2, <4>3, LeastIs
    <3>5. QED
      BY <2>2, <3>1, <3>3, <3>4
  <2>3. QED
    BY <2>1, <2>2
<1>7. wild = otherQ
  <2>1. CASE stars = {}
    BY <1>3, <2>1 DEF IInv, ScanInv, MaxInv, StarInv
  <2>2. CASE stars # {}
    <3>1. PICK s \in Stars(i) :
             /\ \A k \in Stars(i) : k <= s
             /\ otherQ = accept[s].q
      BY <1>3, <2>2 DEF IInv, ScanInv, MaxInv, StarInv
    <3>2. Greatest(stars) = s
      <4>1. stars \in SUBSET Int
        OBVIOUS
      <4>2. s \in stars /\ \A k \in stars : k <= s
        BY <1>3, <3>1
      <4>3. QED
        BY <4>1, <4>2, GreatestIs
    <3>3. QED
      BY <2>2, <3>1, <3>2
  <2>3. QED
    BY <2>1, <2>2
<1>8. QED
  BY <1>2, <1>5, <1>6, <1>7

(* The end of the loop and the wildcard test.                               *)
LEMMA FinishStep ==
    ASSUME IInv, Finish
    PROVE  IInv'
<1>1. /\ accept # Absent /\ i = Len(accept)
      /\ UNCHANGED <<accept, i, maxQ, otherQ, named, compression>>
      /\ result' = IF maxQ < otherQ /\ "gzip" \notin named THEN "gzip"
                                                          ELSE compression
  BY DEF Finish
<1>2. result' = Selected(accept')
  BY <1>1, FinishSelects
<1>3. result' \in Codecs
  BY <1>1 DEF IInv, TypeOK, Codecs
<1>4. TypeOK'
  BY <1>1, <1>3 DEF IInv, TypeOK
<1>5. ScanInv'
  BY <1>1 DEF IInv, ScanInv, MaxInv, StarInv, Cand, Stars, Q
<1>6. QED
  BY <1>2, <1>4, <1>5 DEF IInv, ResultMatchesReference

(* The token a ScanToken step reads, and what it does with it.             *)
TokQ == QualityOf(accept[i + 1])
Recognised == accept[i + 1].name \in DOMAIN CodecOf

(* What one iteration of the loop body reads and writes.                   *)
LEMMA ScanFacts ==
    ASSUME IInv, ScanToken
    PROVE  /\ accept # Absent /\ result = "pending"
           /\ accept \in Seq(Tokens) /\ Len(accept) \in 0..MaxTokens
           /\ i \in Nat /\ i < Len(accept)
           /\ accept[i + 1] \in Tokens
           /\ TokQ \in Nat
           /\ maxQ \in Nat /\ otherQ \in Nat
           /\ \A k \in 1..Len(accept) : Q(k) \in Nat
           /\ otherQ' = IF accept[i + 1].q # NoQ /\ accept[i + 1].name = "*"
                          THEN accept[i + 1].q ELSE otherQ
           /\ named' = named \cup {accept[i + 1].name}
           /\ compression' = IF maxQ < TokQ /\ Recognised
                               THEN CodecOf[accept[i + 1].name]
                               ELSE compression
           /\ maxQ' = IF Recognised /\ maxQ < TokQ THEN TokQ ELSE maxQ
           /\ i' = i + 1
           /\ UNCHANGED <<accept, result>>
<1>1. accept # Absent /\ result = "pending" /\ i < Len(accept)
  BY DEF ScanToken
<1>2. accept \in Seq(Tokens) /\ Len(accept) \in 0..MaxTokens
  BY <1>1, HeaderSeq DEF IInv, TypeOK
<1>3. i \in Nat
  BY AssumptionFacts DEF IInv, TypeOK
<1>4. accept[i + 1] \in Tokens
  BY <1>1, <1>2, <1>3
<1>5. TokQ \in Nat
  BY <1>4, QualityNat DEF TokQ
<1>6. maxQ \in Nat /\ otherQ \in Nat
  BY QualitiesNat DEF IInv
<1>7. \A k \in 1..Len(accept) : Q(k) \in Nat
  BY <1>2, QualityNat DEF Q
<1>8. /\ otherQ' = IF accept[i + 1].q # NoQ /\ accept[i + 1].name = "*"
                     THEN accept[i + 1].q ELSE otherQ
      /\ named' = named \cup {accept[i + 1].name}
      /\ compression' = IF maxQ < TokQ /\ Recognised
                          THEN CodecOf[accept[i + 1].name]
                          ELSE compression
      /\ maxQ' = IF maxQ < (IF maxQ < TokQ /\ ~Recognised THEN 0 ELSE TokQ)
                   THEN (IF maxQ < TokQ /\ ~Recognised THEN 0 ELSE TokQ)
                   ELSE maxQ
      /\ i' = i + 1
      /\ UNCHANGED <<accept, result>>
  BY DEF ScanToken, TokQ, Recognised, QualityOf
<1>9. maxQ' = IF Recognised /\ maxQ < TokQ THEN TokQ ELSE maxQ
  BY <1>5, <1>6, <1>8
<1>10. QED
  BY <1>1, <1>2, <1>3, <1>4, <1>5, <1>6, <1>7, <1>8, <1>9

(* The loop body keeps the state well typed.                                *)
LEMMA ScanTypeOK ==
    ASSUME IInv, ScanToken
    PROVE  TypeOK'
<1>1. i' \in 0..MaxTokens
  BY ScanFacts, AssumptionFacts
<1>2. maxQ' \in QValues \cup {0, One}
  <2>1. TokQ \in QValues \cup {One}
    BY ScanFacts, QualityNat DEF TokQ, QualityOf
  <2>2. QED
    BY <2>1, ScanFacts DEF IInv, TypeOK
<1>3. otherQ' \in QValues \cup {0}
  BY ScanFacts, QualityNat DEF IInv, TypeOK
<1>4. named' \subseteq Names
  BY ScanFacts DEF IInv, TypeOK, Tokens
<1>5. compression' \in Codecs
  BY ScanFacts DEF IInv, TypeOK, Recognised, CodecOf, Codecs
<1>6. accept' \in Headers /\ result' \in Codecs \cup {"pending"}
  BY ScanFacts DEF IInv, TypeOK
<1>7. QED
  BY <1>1, <1>2, <1>3, <1>4, <1>5, <1>6 DEF TypeOK

(* The tokens among the first i + 1 that count: those among the first i,   *)
(* and token i + 1 when its name is recognised and its quality positive.   *)
LEMMA CandNext ==
    ASSUME NEW n \in Nat
    PROVE  Cand(n + 1) =
             Cand(n) \cup {k \in {n + 1} : /\ accept[k].name \in DOMAIN CodecOf
                                          /\ Q(k) > 0}
BY DEF Cand

(* A token that raises no quality leaves maxQ and compression right.       *)
LEMMA MaxKeep ==
    ASSUME NEW n \in Nat, NEW mq \in Nat, NEW comp,
           \A k \in 1..n + 1 : Q(k) \in Nat,
           MaxInv(n, mq, comp),
           n + 1 \in Cand(n + 1) => Q(n + 1) <= mq
    PROVE  MaxInv(n + 1, mq, comp)
<1>1. \A k \in Cand(n + 1) : k \in Cand(n) \/ k = n + 1
  BY CandNext
<1>2. \A k \in Cand(n + 1) : Q(k) <= mq
  BY <1>1 DEF MaxInv
<1>3. CASE Cand(n) = {}
  <2>1. mq = 0 /\ comp = "none"
    BY <1>3 DEF MaxInv
  <2>2. Cand(n + 1) = {}
    <3>1. \A k \in Cand(n + 1) : Q(k) > 0 /\ Q(k) \in Nat
      BY DEF Cand
    <3>2. QED
      BY <1>1, <1>2, <1>3, <2>1, <3>1
  <2>3. QED
    BY <2>1, <2>2 DEF MaxInv
<1>4. CASE Cand(n) # {}
  <2>1. PICK f \in Cand(n) :
           /\ Q(f) = mq
           /\ \A k \in Cand(n) : k < f => Q(k) < mq
           /\ comp = CodecOf[accept[f].name]
    BY <1>4 DEF MaxInv
  <2>2. f \in Cand(n + 1) /\ f <= n
    BY CandNext DEF Cand
  <2>3. \A k \in Cand(n + 1) : k < f => Q(k) < mq
    <3>1. TAKE k \in Cand(n + 1)
    <3>2. HAVE k < f
    <3>3. k \in 1..n + 1
      BY DEF Cand
    <3>4. k \in Cand(n)
      BY <1>1, <2>2, <3>2, <3>3
    <3>5. QED
      BY <2>1, <3>2, <3>4, Zenon
  <2>4. QED
    BY <1>2, <2>1, <2>2, <2>3 DEF MaxInv
<1>5. QED
  BY <1>3, <1>4

(* A recognised token of a quality above maxQ becomes the selection.       *)
LEMMA MaxRaise ==
    ASSUME NEW n \in Nat, NEW mq \in Nat, NEW comp,
           \A k \in 1..n + 1 : Q(k) \in Nat,
           MaxInv(n, mq, comp),
           accept[n + 1].name \in DOMAIN CodecOf,
           mq < Q(n + 1)
    PROVE  MaxInv(n + 1, Q(n + 1), CodecOf[accept[n + 1].name])
<1>1. Cand(n + 1) = Cand(n) \cup {n + 1}
  BY CandNext
<1>0. \A k \in Cand(n + 1) : Q(k) \in Nat
  BY DEF Cand
<1>2. \A k \in Cand(n) : Q(k) < Q(n + 1)
  BY <1>0, <1>1 DEF MaxInv
<1>3. \A k \in Cand(n + 1) : k < n + 1 => Q(k) < Q(n + 1)
  BY <1>0, <1>1, <1>2
<1>4. \A k \in Cand(n + 1) : Q(k) <= Q(n + 1)
  BY <1>0, <1>1, <1>2
<1>5. n + 1 \in Cand(n + 1)
  BY <1>1
<1>6. QED
  BY <1>3, <1>4, <1>5 DEF MaxInv

(* Token n + 1 becomes the last "*" with a q when it is one.               *)
LEMMA StarStep ==
    ASSUME NEW n \in Nat, NEW oq, StarInv(n, oq)
    PROVE  StarInv(n + 1, IF accept[n + 1].q # NoQ /\ accept[n + 1].name = "*"
                            THEN accept[n + 1].q ELSE oq)
<1>1. CASE accept[n + 1].q # NoQ /\ accept[n + 1].name = "*"
  <2>1. Stars(n + 1) = Stars(n) \cup {n + 1}
    BY <1>1 DEF Stars
  <2>2. \A k \in Stars(n + 1) : k <= n + 1
    BY DEF Stars
  <2>3. QED
    BY <1>1, <2>1, <2>2 DEF StarInv
<1>2. CASE ~(accept[n + 1].q # NoQ /\ accept[n + 1].name = "*")
  <2>1. Stars(n + 1) = Stars(n)
    BY <1>2 DEF Stars
  <2>2. QED
    BY <1>2, <2>1 DEF StarInv
<1>3. QED
  BY <1>1, <1>2

(* The loop body keeps the prefix invariant.                                *)
LEMMA ScanInvStep ==
    ASSUME IInv, ScanToken
    PROVE  ScanInv'
<1>1. /\ accept # Absent
      /\ i \in Nat /\ i < Len(accept)
      /\ maxQ \in Nat
      /\ \A k \in 1..Len(accept) : Q(k) \in Nat
      /\ i' = i + 1
      /\ UNCHANGED accept
  BY ScanFacts
<1>2. \A k \in 1..i + 1 : Q(k) \in Nat
  BY <1>1
<1>3. /\ named = {accept[k].name : k \in 1..i}
      /\ MaxInv(i, maxQ, compression)
      /\ StarInv(i, otherQ)
  BY <1>1 DEF IInv, ScanInv
<1>4. named' = {accept[k].name : k \in 1..i + 1}
  <2>1. 1..i + 1 = (1..i) \cup {i + 1}
    BY <1>1
  <2>2. QED
    BY <1>3, <2>1, ScanFacts
<1>5. MaxInv(i + 1, maxQ', compression')
  <2>1. CASE Recognised /\ maxQ < TokQ
    <3>1. maxQ' = Q(i + 1) /\ compression' = CodecOf[accept[i + 1].name]
      BY <2>1, ScanFacts DEF TokQ, Q
    <3>2. QED
      BY <1>1, <1>2, <1>3, <2>1, <3>1, MaxRaise DEF Recognised, TokQ, Q
  <2>2. CASE ~(Recognised /\ maxQ < TokQ)
    <3>1. maxQ' = maxQ /\ compression' = compression
      BY <2>2, ScanFacts
    <3>2. i + 1 \in Cand(i + 1) => Q(i + 1) <= maxQ
      BY <1>1, <1>2, <2>2, ScanFacts DEF Cand, Recognised, TokQ, Q
    <3>3. QED
      BY <1>1, <1>2, <1>3, <3>1, <3>2, MaxKeep
  <2>3. QED
    BY <2>1, <2>2
<1>6. StarInv(i + 1, otherQ')
  BY <1>1, <1>3, StarStep, ScanFacts
<1>7. i' <= Len(accept')
  BY <1>1
<1>8. QED
  BY <1>1, <1>4, <1>5, <1>6, <1>7
     DEF ScanInv, MaxInv, StarInv, Cand, Stars, Q

LEMMA ScanTokenStep ==
    ASSUME IInv, ScanToken
    PROVE  IInv'
<1>1. result' = "pending"
  BY ScanFacts
<1>2. QED
  BY <1>1, ScanTypeOK, ScanInvStep DEF IInv, ResultMatchesReference

(* A step that changes nothing.                                             *)
LEMMA StutterStep ==
    ASSUME IInv, UNCHANGED vars
    PROVE  IInv'
<1>1. UNCHANGED <<accept, i, maxQ, otherQ, named, compression, result>>
  BY DEF vars
<1>2. TypeOK' /\ ResultMatchesReference'
  BY <1>1 DEF IInv, TypeOK, ResultMatchesReference
<1>3. ScanInv'
  BY <1>1 DEF IInv, ScanInv, MaxInv, StarInv, Cand, Stars, Q
<1>4. QED
  BY <1>2, <1>3 DEF IInv

LEMMA NextStep ==
    ASSUME IInv, [Next]_vars
    PROVE  IInv'
<1>1. CASE NoHeader
  BY <1>1, NoHeaderStep
<1>2. CASE ScanToken
  BY <1>2, ScanTokenStep
<1>3. CASE Finish
  BY <1>3, FinishStep
<1>4. CASE UNCHANGED vars
  BY <1>4, StutterStep
<1>5. QED
  BY <1>1, <1>2, <1>3, <1>4 DEF Next

LEMMA IInvariant == Spec => []IInv
BY InitIInv, NextStep, PTL DEF Spec

(* For every bound on the tokens and every set of qualities, the value     *)
(* getRequestedCompression() returns is the reference selection: the first *)
(* recognised token of highest positive quality, or gzip when the last     *)
(* "*" with a q beats it and no token is named gzip.                         *)
THEOREM SelectionCorrect == Spec => []ResultMatchesReference
BY IInvariant, PTL DEF IInv

=============================================================================
