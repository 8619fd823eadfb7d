---------------------------- MODULE Negotiation ----------------------------
(***************************************************************************)
(* Request::getRequestedCompression() (src/unnamed/part_000 415-462): the *)
(* Accept-Encoding header, already split on ", \t" and lower-cased, is     *)
(* scanned one token at a time, as the code's loop does.                   *)
(*                                                                          *)
(* A token is its name and what follows its first ';': NoQ when that is    *)
(* not "q=<number>" (or there is no ';'), else the quality in tenths.      *)
(* The header itself is Absent or a sequence of tokens.                    *)
(***************************************************************************)
EXTENDS Naturals, Sequences

CONSTANTS
    MaxTokens,  \* bound on the tokens of one header
    QValues,    \* the qualities that occur, in tenths
    NoQ,        \* model value: no parsable "q=" parameter
    Absent      \* model value: the request has no Accept-Encoding header

ASSUME NegotiationAssumption ==
    /\ MaxTokens \in Nat
    /\ QValues \subseteq Nat
    /\ NoQ \notin QValues

(* A quality given as "q=1" (and the default of 1.0), in tenths.           *)
One == 10

(* The names the switch at lines 445-449 recognises, and the codec each   *)
(* selects; "deflate" stands for every other name.                          *)
CodecOf == [identity |-> "none", gzip |-> "gzip", zlib |-> "zlib",
            bzip2 |-> "bzip2"]
Names == DOMAIN CodecOf \cup {"*", "deflate"}

Tokens == [name : Names, q : QValues \cup {NoQ}]
Headers == {Absent} \cup
           UNION {[1..n -> Tokens] : n \in 0..MaxTokens}

VARIABLES
    accept,       \* the request's Accept-Encoding header
    i,            \* tokens scanned so far
    maxQ,         \* double maxQ
    otherQ,       \* double otherQ: the q given to "*"
    named,        \* set<string> named
    compression,  \* compression_t compression
    result        \* the value returned, or "pending"

vars == <<accept, i, maxQ, otherQ, named, compression, result>>

Codecs == {"none", "zlib", "gzip", "bzip2"}

TypeOK ==
    /\ accept \in Headers
    /\ i \in 0..MaxTokens
    /\ maxQ \in QValues \cup {0, One}
    /\ otherQ \in QValues \cup {0}
    /\ named \subseteq Names
    /\ compression \in Codecs
    /\ result \in Codecs \cup {"pending"}

Init ==
    /\ accept \in Headers
    /\ i = 0
    /\ maxQ = 0
    /\ otherQ = 0
    /\ named = {}
    /\ compression = "none"
    /\ result = "pending"

(* if (!inHas("Accept-Encoding")) return COMPRESS_NONE;                    *)
NoHeader ==
    /\ result = "pending"
    /\ accept = Absent
    /\ result' = "none"
    /\ UNCHANGED <<accept, i, maxQ, otherQ, named, compression>>

(* A faulty loop body letting a later token of equal quality win         *)
(* (maxQ <= q).                                                             *)
ScanTokenLastWins ==
    /\ result = "pending"
    /\ accept # Absent
    /\ i < Len(accept)
    /\ LET tok == accept[i + 1]
           q   == IF tok.q = NoQ THEN One ELSE tok.q
           won == maxQ <= q
           rec == tok.name \in DOMAIN CodecOf
           q2  == IF won /\ ~rec THEN 0 ELSE q
       IN  /\ otherQ' = IF tok.q # NoQ /\ tok.name = "*" THEN tok.q ELSE otherQ
           /\ named' = named \cup {tok.name}
           /\ compression' = IF won /\ rec THEN CodecOf[tok.name]
                                           ELSE compression
           /\ maxQ' = IF maxQ < q2 THEN q2 ELSE maxQ
    /\ i' = i + 1
    /\ UNCHANGED <<accept, result>>

(* One iteration of the for loop (lines 426-453).                           *)
ScanToken ==
    /\ result = "pending"
    /\ accept # Absent
    /\ i < Len(accept)
    /\ LET tok == accept[i + 1]
           q   == IF tok.q = NoQ THEN One ELSE tok.q
           won == maxQ < q
           rec == tok.name \in DOMAIN CodecOf
           \* an unrecognised name that would have won has q = 0
           q2  == IF won /\ ~rec THEN 0 ELSE q
       IN  /\ otherQ' = IF tok.q # NoQ /\ tok.name = "*" THEN tok.q ELSE otherQ
           /\ named' = named \cup {tok.name}
           /\ compression' = IF won /\ rec THEN CodecOf[tok.name]
                                           ELSE compression
           /\ maxQ' = IF maxQ < q2 THEN q2 ELSE maxQ
    /\ i' = i + 1
    /\ UNCHANGED <<accept, result>>

(* After the loop: the wildcard fallback to gzip (lines 458-461).          *)
Finish ==
    /\ result = "pending"
    /\ accept # Absent
    /\ i = Len(accept)
    /\ result' = IF maxQ < otherQ /\ "gzip" \notin named THEN "gzip"
                                                       ELSE compression
    /\ UNCHANGED <<accept, i, maxQ, otherQ, named, compression>>

Next == NoHeader \/ ScanToken \/ Finish

Spec == Init /\ [][Next]_vars

-----------------------------------------------------------------------------
(* What the scan is meant to compute, stated without the loop: among the  *)
(* tokens with a recognised name and a positive quality, the first one of  *)
(* highest quality selects the codec (none if there is none); the quality *)
(* of the last "*" carrying a q, when it beats that highest quality and no *)
(* token is named gzip, selects gzip instead.                               *)
QualityOf(tok) == IF tok.q = NoQ THEN One ELSE tok.q

Greatest(S) == CHOOSE m \in S : \A x \in S : x <= m
Least(S) == CHOOSE m \in S : \A x \in S : m <= x

Selected(h) ==
    IF h = Absent THEN "none"
    ELSE LET cand  == {k \in 1..Len(h) : /\ h[k].name \in DOMAIN CodecOf
                                         /\ QualityOf(h[k]) > 0}
             top   == Greatest({QualityOf(h[k]) : k \in cand})
             first == Least({k \in cand : QualityOf(h[k]) = top})
             best  == IF cand = {} THEN 0 ELSE top
             stars == {k \in 1..Len(h) : h[k].name = "*" /\ h[k].q # NoQ}
             wild  == IF stars = {} THEN 0 ELSE h[Greatest(stars)].q
             base  == IF cand = {} THEN "none" ELSE CodecOf[h[first].name]
         IN  IF best < wild /\ \A k \in 1..Len(h) : h[k].name # "gzip"
               THEN "gzip"
               ELSE base

(* getRequestedCompression returns the reference selection for every       *)
(* header: the strict "maxQ < q" keeps the first of equal qualities, the   *)
(* q = 0 of an unrecognised name never raises maxQ, and the wildcard        *)
(* fallback sees every name the loop met.                                   *)
ResultMatchesReference ==
    result # "pending" => result = Selected(accept)

(* spec.md section 8: "gzip;q=0.1, *;q=0.9" is not forced to gzip because  *)
(* gzip was named explicitly although it lost the quality race: a header   *)
(* naming gzip only with a quality below the wildcard's does not yield gzip.*)
GzipLosingToWildcardNotSelected ==
    LET h     == accept
        stars == {s \in 1..Len(h) : h[s].name = "*" /\ h[s].q # NoQ}
        gzips == {g \in 1..Len(h) : h[g].name = "gzip"}
    IN  (/\ result # "pending"
         /\ h # Absent
         /\ stars # {}
         /\ gzips # {}
         /\ \A g \in gzips, s \in stars : QualityOf(h[g]) < h[s].q)
        => result # "gzip"

=============================================================================
