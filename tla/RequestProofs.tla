--------------------------- MODULE RequestProofs ---------------------------
(***************************************************************************)
(* Proofs about Request for every value of the bounds: type correctness,   *)
(* the lifetime coupling between a Request and its exchange, and the      *)
(* one-shot response.                                                       *)
(***************************************************************************)
EXTENDS Request, TLAPS

(* The actions that leave the lifetime variables alone.                    *)
LifetimeNeutral ==
    \/ Send
    \/ ResetOutput
    \/ \E c \in CompressionArgs : GetOutputStream(c)
    \/ \E c \in CompressionArgs : GetJSONWriter(c)
    \/ ReplyCode
    \/ ReplyString
    \/ ReplyBuffer
    \/ Redirect
    \/ SendError
    \/ SendErrorMessage
    \/ SendJSONError
    \/ StartChunked
    \/ SendChunk
    \/ EndChunked

LEMMA NeutralKeepsLifetime ==
    LifetimeNeutral => UNCHANGED lifetimeVars
BY DEF LifetimeNeutral, Send, ResetOutput, GetOutputStream, GetJSONWriter,
       ReplyCode, ReplyString, ReplyBuffer, Redirect, SendError,
       SendErrorMessage, SendJSONError, StartChunked, SendChunk, EndChunked,
       lifetimeVars

(* The shapes a step gives the two sequences: unchanged, emptied, one    *)
(* element appended, or replaced by a one-element sequence.                *)
WireShape == wire' = wire \/ \E p \in Prims : wire' = Append(wire, p)
OutShape ==
    \/ out' = out
    \/ out' = <<>>
    \/ \E c \in Codecs : out' = Append(out, c) \/ out' = <<c>>

(* Those shapes keep the sequences' types.                                 *)
LEMMA EmptySeq == ASSUME NEW S PROVE <<>> \in Seq(S)
  OBVIOUS

LEMMA OneSeq == ASSUME NEW S, NEW e \in S PROVE <<e>> \in Seq(S)
  OBVIOUS

LEMMA AppendSeq ==
    ASSUME NEW S, NEW s \in Seq(S), NEW e \in S PROVE Append(s, e) \in Seq(S)
  OBVIOUS

LEMMA ShapeType ==
    ASSUME wire \in Seq(Prims), out \in Seq(Codecs), WireShape, OutShape
    PROVE  wire' \in Seq(Prims) /\ out' \in Seq(Codecs)
<1>1. wire' \in Seq(Prims)
  BY AppendSeq DEF WireShape
<1>2. out' \in Seq(Codecs)
  <2>1. CASE out' = out
    BY <2>1
  <2>2. CASE out' = <<>>
    BY <2>2, EmptySeq
  <2>3. CASE \E c \in Codecs : out' = Append(out, c)
    BY <2>3, AppendSeq
  <2>4. CASE \E c \in Codecs : out' = <<c>>
    BY <2>4, OneSeq
  <2>5. QED
    BY <2>1, <2>2, <2>3, <2>4 DEF OutShape
<1>3. QED
  BY <1>1, <1>2

-----------------------------------------------------------------------------
(* TypeOK is an invariant of Spec.  Each step is split into the counter and *)
(* alive' (arithmetic, for SMT), the shapes of the two sequences, the       *)
(* encoding and error, and the flags (for Zenon).                           *)
THEOREM TypeCorrect == Spec => []TypeOK
<1>1. Init => TypeOK
  <2> SUFFICES ASSUME Init PROVE TypeOK
    OBVIOUS
  <2>1. appRefs \in 0..MaxRefs /\ wire \in Seq(Prims) /\ out \in Seq(Codecs)
    BY BoundsAssumption DEF Init
  <2>2. QED
    BY <2>1, Zenon DEF Init, TypeOK, Codecs, Errors
<1>2. TypeOK /\ [Next]_vars => TypeOK'
  <2> SUFFICES ASSUME TypeOK, [Next]_vars PROVE TypeOK'
    OBVIOUS
  <2>0. CASE UNCHANGED vars
    BY <2>0 DEF vars, TypeOK
  <2> SUFFICES ASSUME Next PROVE TypeOK'
    BY <2>0
  <2> USE BoundsAssumption
  <2>1. CASE Send
    <3>1. appRefs' \in 0..MaxRefs /\ alive' \in BOOLEAN
      BY <2>1 DEF TypeOK, Send, AddSegment, Caller, Freed, lifetimeVars
    <3>2. WireShape /\ OutShape
      BY <2>1 DEF TypeOK, Send, AddSegment, WireShape, OutShape, Prims, Codecs, lifetimeVars
    <3>3. enc' \in Codecs /\ err' \in Errors
      BY <2>1 DEF TypeOK, Send, AddSegment, Compressors, Codecs, Errors, lifetimeVars
    <3>4. QED
      BY <2>1, <3>1, <3>2, <3>3, ShapeType, Zenon DEF TypeOK, Send, AddSegment, lifetimeVars
  <2>2. CASE ResetOutput
    <3>1. appRefs' \in 0..MaxRefs /\ alive' \in BOOLEAN
      BY <2>2 DEF TypeOK, ResetOutput, Caller, Freed, lifetimeVars
    <3>2. WireShape /\ OutShape
      BY <2>2 DEF TypeOK, ResetOutput, WireShape, OutShape, Prims, Codecs, lifetimeVars
    <3>3. enc' \in Codecs /\ err' \in Errors
      BY <2>2 DEF TypeOK, ResetOutput, Compressors, Codecs, Errors, lifetimeVars
    <3>4. QED
      BY <2>2, <3>1, <3>2, <3>3, ShapeType, Zenon DEF TypeOK, ResetOutput, lifetimeVars
  <2>3. CASE ReplyCode
    <3>1. appRefs' \in 0..MaxRefs /\ alive' \in BOOLEAN
      BY <2>3 DEF TypeOK, ReplyCode, Finalize, Issue, Caller, Freed, lifetimeVars
    <3>2. WireShape /\ OutShape
      BY <2>3 DEF TypeOK, ReplyCode, Finalize, Issue, WireShape, OutShape, Prims, Codecs, lifetimeVars
    <3>3. enc' \in Codecs /\ err' \in Errors
      BY <2>3 DEF TypeOK, ReplyCode, Finalize, Issue, Compressors, Codecs, Errors, lifetimeVars
    <3>4. QED
      BY <2>3, <3>1, <3>2, <3>3, ShapeType, Zenon DEF TypeOK, ReplyCode, Finalize, Issue, lifetimeVars
  <2>4. CASE ReplyString
    <3>1. appRefs' \in 0..MaxRefs /\ alive' \in BOOLEAN
      BY <2>4 DEF TypeOK, ReplyString, Finalize, Issue, Caller, Freed, lifetimeVars
    <3>2. WireShape /\ OutShape
      BY <2>4 DEF TypeOK, ReplyString, Finalize, Issue, WireShape, OutShape, Prims, Codecs, lifetimeVars
    <3>3. enc' \in Codecs /\ err' \in Errors
      BY <2>4 DEF TypeOK, ReplyString, Finalize, Issue, Compressors, Codecs, Errors, lifetimeVars
    <3>4. QED
      BY <2>4, <3>1, <3>2, <3>3, ShapeType, Zenon DEF TypeOK, ReplyString, Finalize, Issue, lifetimeVars
  <2>5. CASE ReplyBuffer
    <3>1. appRefs' \in 0..MaxRefs /\ alive' \in BOOLEAN
      BY <2>5 DEF TypeOK, ReplyBuffer, Finalize, Issue, Caller, Freed, lifetimeVars
    <3>2. WireShape /\ OutShape
      BY <2>5 DEF TypeOK, ReplyBuffer, Finalize, Issue, WireShape, OutShape, Prims, Codecs, lifetimeVars
    <3>3. enc' \in Codecs /\ err' \in Errors
      BY <2>5 DEF TypeOK, ReplyBuffer, Finalize, Issue, Compressors, Codecs, Errors, lifetimeVars
    <3>4. QED
      BY <2>5, <3>1, <3>2, <3>3, ShapeType, Zenon DEF TypeOK, ReplyBuffer, Finalize, Issue, lifetimeVars
  <2>6. CASE Redirect
    <3>1. appRefs' \in 0..MaxRefs /\ alive' \in BOOLEAN
      BY <2>6 DEF TypeOK, Redirect, Finalize, Issue, Caller, Freed, lifetimeVars
    <3>2. WireShape /\ OutShape
      BY <2>6 DEF TypeOK, Redirect, Finalize, Issue, WireShape, OutShape, Prims, Codecs, lifetimeVars
    <3>3. enc' \in Codecs /\ err' \in Errors
      BY <2>6 DEF TypeOK, Redirect, Finalize, Issue, Compressors, Codecs, Errors, lifetimeVars
    <3>4. QED
      BY <2>6, <3>1, <3>2, <3>3, ShapeType, Zenon DEF TypeOK, Redirect, Finalize, Issue, lifetimeVars
  <2>7. CASE SendError
    <3>1. appRefs' \in 0..MaxRefs /\ alive' \in BOOLEAN
      BY <2>7 DEF TypeOK, SendError, Finalize, Issue, Caller, Freed, lifetimeVars
    <3>2. WireShape /\ OutShape
      BY <2>7 DEF TypeOK, SendError, Finalize, Issue, WireShape, OutShape, Prims, Codecs, lifetimeVars
    <3>3. enc' \in Codecs /\ err' \in Errors
      BY <2>7 DEF TypeOK, SendError, Finalize, Issue, Compressors, Codecs, Errors, lifetimeVars
    <3>4. QED
      BY <2>7, <3>1, <3>2, <3>3, ShapeType, Zenon DEF TypeOK, SendError, Finalize, Issue, lifetimeVars
  <2>8. CASE SendErrorMessage
    <3>1. appRefs' \in 0..MaxRefs /\ alive' \in BOOLEAN
      BY <2>8 DEF TypeOK, SendErrorMessage, Finalize, Issue, Caller, Freed, lifetimeVars
    <3>2. WireShape /\ OutShape
      BY <2>8 DEF TypeOK, SendErrorMessage, Finalize, Issue, WireShape, OutShape, Prims, Codecs, lifetimeVars
    <3>3. enc' \in Codecs /\ err' \in Errors
      BY <2>8 DEF TypeOK, SendErrorMessage, Finalize, Issue, Compressors, Codecs, Errors, lifetimeVars
    <3>4. QED
      BY <2>8, <3>1, <3>2, <3>3, ShapeType, Zenon DEF TypeOK, SendErrorMessage, Finalize, Issue, lifetimeVars
  <2>9. CASE SendJSONError
    <3>1. appRefs' \in 0..MaxRefs /\ alive' \in BOOLEAN
      BY <2>9 DEF TypeOK, SendJSONError, Finalize, Issue, Caller, Freed, lifetimeVars
    <3>2. WireShape /\ OutShape
      BY <2>9 DEF TypeOK, SendJSONError, Finalize, Issue, WireShape, OutShape, Prims, Codecs, lifetimeVars
    <3>3. enc' \in Codecs /\ err' \in Errors
      BY <2>9 DEF TypeOK, SendJSONError, Finalize, Issue, Compressors, Codecs, Errors, lifetimeVars
    <3>4. QED
      BY <2>9, <3>1, <3>2, <3>3, ShapeType, Zenon DEF TypeOK, SendJSONError, Finalize, Issue, lifetimeVars
  <2>10. CASE StartChunked
    <3>1. appRefs' \in 0..MaxRefs /\ alive' \in BOOLEAN
      BY <2>10 DEF TypeOK, StartChunked, Issue, Caller, Freed, lifetimeVars
    <3>2. WireShape /\ OutShape
      BY <2>10 DEF TypeOK, StartChunked, Issue, WireShape, OutShape, Prims, Codecs, lifetimeVars
    <3>3. enc' \in Codecs /\ err' \in Errors
      BY <2>10 DEF TypeOK, StartChunked, Issue, Compressors, Codecs, Errors, lifetimeVars
    <3>4. QED
      BY <2>10, <3>1, <3>2, <3>3, ShapeType, Zenon DEF TypeOK, StartChunked, Issue, lifetimeVars
  <2>11. CASE SendChunk
    <3>1. appRefs' \in 0..MaxRefs /\ alive' \in BOOLEAN
      BY <2>11 DEF TypeOK, SendChunk, Issue, Caller, Freed, lifetimeVars
    <3>2. WireShape /\ OutShape
      BY <2>11 DEF TypeOK, SendChunk, Issue, WireShape, OutShape, Prims, Codecs, lifetimeVars
    <3>3. enc' \in Codecs /\ err' \in Errors
      BY <2>11 DEF TypeOK, SendChunk, Issue, Compressors, Codecs, Errors, lifetimeVars
    <3>4. QED
      BY <2>11, <3>1, <3>2, <3>3, ShapeType, Zenon DEF TypeOK, SendChunk, Issue, lifetimeVars
  <2>12. CASE EndChunked
    <3>1. appRefs' \in 0..MaxRefs /\ alive' \in BOOLEAN
      BY <2>12 DEF TypeOK, EndChunked, Finalize, Issue, Caller, Freed, lifetimeVars
    <3>2. WireShape /\ OutShape
      BY <2>12 DEF TypeOK, EndChunked, Finalize, Issue, WireShape, OutShape, Prims, Codecs, lifetimeVars
    <3>3. enc' \in Codecs /\ err' \in Errors
      BY <2>12 DEF TypeOK, EndChunked, Finalize, Issue, Compressors, Codecs, Errors, lifetimeVars
    <3>4. QED
      BY <2>12, <3>1, <3>2, <3>3, ShapeType, Zenon DEF TypeOK, EndChunked, Finalize, Issue, lifetimeVars
  <2>13. CASE Cancel
    <3>1. appRefs' \in 0..MaxRefs /\ alive' \in BOOLEAN
      BY <2>13 DEF TypeOK, Cancel, Freed, Caller, Freed, lifetimeVars
    <3>2. WireShape /\ OutShape
      BY <2>13 DEF TypeOK, Cancel, Freed, WireShape, OutShape, Prims, Codecs, lifetimeVars
    <3>3. enc' \in Codecs /\ err' \in Errors
      BY <2>13 DEF TypeOK, Cancel, Freed, Compressors, Codecs, Errors, lifetimeVars
    <3>4. QED
      BY <2>13, <3>1, <3>2, <3>3, ShapeType, Zenon DEF TypeOK, Cancel, Freed, lifetimeVars
  <2>14. CASE AcquireRef
    <3>1. appRefs' \in 0..MaxRefs /\ alive' \in BOOLEAN
      BY <2>14 DEF TypeOK, AcquireRef, Caller, Freed, lifetimeVars
    <3>2. WireShape /\ OutShape
      BY <2>14 DEF TypeOK, AcquireRef, WireShape, OutShape, Prims, Codecs, lifetimeVars
    <3>3. enc' \in Codecs /\ err' \in Errors
      BY <2>14 DEF TypeOK, AcquireRef, Compressors, Codecs, Errors, lifetimeVars
    <3>4. QED
      BY <2>14, <3>1, <3>2, <3>3, ShapeType, Zenon DEF TypeOK, AcquireRef, lifetimeVars
  <2>15. CASE DropRef
    <3>1. appRefs' \in 0..MaxRefs /\ alive' \in BOOLEAN
      <4>1. appRefs' \in 0..MaxRefs
        BY <2>15 DEF TypeOK, DropRef, Caller
      <4>2. alive' \in BOOLEAN
        BY <2>15, Zenon DEF TypeOK, DropRef, Destroy
      <4>3. QED
        BY <4>1, <4>2
    <3>2. WireShape /\ OutShape
      BY <2>15 DEF TypeOK, DropRef, Destroy, WireShape, OutShape, Prims, Codecs, lifetimeVars
    <3>3. enc' \in Codecs /\ err' \in Errors
      BY <2>15 DEF TypeOK, DropRef, Destroy, Compressors, Codecs, Errors, lifetimeVars
    <3>4. QED
      BY <2>15, <3>1, <3>2, <3>3, ShapeType, Zenon DEF TypeOK, DropRef, Destroy, lifetimeVars
  <2>16. CASE TransportFree
    <3>1. appRefs' \in 0..MaxRefs /\ alive' \in BOOLEAN
      <4>1. appRefs' \in 0..MaxRefs
        BY <2>16 DEF TypeOK, TransportFree
      <4>2. alive' \in BOOLEAN
        <5>1. CASE cbReg
          BY <2>16, <5>1 DEF TransportFree, Freed
        <5>2. CASE ~cbReg
          BY <2>16, <5>2 DEF TypeOK, TransportFree
        <5>3. QED
          BY <5>1, <5>2
      <4>3. QED
        BY <4>1, <4>2
    <3>2. WireShape /\ OutShape
      BY <2>16 DEF TypeOK, TransportFree, Freed, WireShape, OutShape, Prims, Codecs, lifetimeVars
    <3>3. enc' \in Codecs /\ err' \in Errors
      BY <2>16 DEF TypeOK, TransportFree, Freed, Compressors, Codecs, Errors, lifetimeVars
    <3>4. QED
      <4>1. handle' \in BOOLEAN /\ selfRef' \in BOOLEAN /\ xlive' \in BOOLEAN /\ cbReg' \in BOOLEAN
        BY <2>16, Zenon DEF TypeOK, TransportFree, Freed
      <4>2. QED
        BY <2>16, <3>1, <3>2, <3>3, <4>1, ShapeType, Zenon DEF TypeOK, TransportFree
  <2>17. ASSUME NEW c \in CompressionArgs, GetOutputStream(c) PROVE TypeOK'
    <3>1. appRefs' \in 0..MaxRefs /\ alive' \in BOOLEAN
      BY <2>17 DEF TypeOK, GetOutputStream, SetEncoding, AddSegment, CompressionArgs, Caller, Freed, lifetimeVars
    <3>2. WireShape /\ OutShape
      BY <2>17 DEF TypeOK, GetOutputStream, SetEncoding, AddSegment, CompressionArgs, WireShape, OutShape, Prims, Codecs, lifetimeVars
    <3>3. enc' \in Codecs /\ err' \in Errors
      BY <2>17 DEF TypeOK, GetOutputStream, SetEncoding, AddSegment, CompressionArgs, Compressors, Codecs, Errors, lifetimeVars
    <3>4. QED
      BY <2>17, <3>1, <3>2, <3>3, ShapeType, Zenon DEF TypeOK, GetOutputStream, SetEncoding, AddSegment, CompressionArgs, lifetimeVars
  <2>18. ASSUME NEW c \in CompressionArgs, GetJSONWriter(c) PROVE TypeOK'
    <3>1. appRefs' \in 0..MaxRefs /\ alive' \in BOOLEAN
      BY <2>18 DEF TypeOK, GetJSONWriter, SetEncoding, WriterCodec, CompressionArgs, Caller, Freed, lifetimeVars
    <3>2. WireShape /\ OutShape
      <4>1. WriterCodec(c) \in Codecs
        BY DEF WriterCodec, Compressors, Codecs
      <4>2. QED
        BY <2>18, <4>1, Zenon DEF GetJSONWriter, WireShape, OutShape
    <3>3. enc' \in Codecs /\ err' \in Errors
      BY <2>18, Zenon DEF TypeOK, GetJSONWriter, SetEncoding, CompressionArgs, Compressors, Codecs, Errors
    <3>4. QED
      BY <2>18, <3>1, <3>2, <3>3, ShapeType, Zenon DEF TypeOK, GetJSONWriter, SetEncoding, WriterCodec, CompressionArgs, lifetimeVars
  <2>19. QED
    BY <2>1, <2>2, <2>3, <2>4, <2>5, <2>6, <2>7, <2>8, <2>9, <2>10, <2>11, <2>12, <2>13, <2>14, <2>15, <2>16, <2>17, <2>18 DEF Next
<1>3. QED
  BY <1>1, <1>2, PTL DEF Spec

-----------------------------------------------------------------------------
(* LifetimeSafety is inductive given TypeOK: only cancel(), dropping the last *)
(* reference and the transport's free touch the lifetime variables, and    *)
(* each keeps req set exactly while free_cb is registered.  ~Request, when  *)
(* reached from DropRef, finds req unset because the self reference is      *)
(* dropped only by freed(), which unsets req first.                          *)
THEOREM LifetimeSafe == Spec => []LifetimeSafety
<1>1. Init => LifetimeSafety
  BY DEF Init, LifetimeSafety
<1>2. TypeOK /\ LifetimeSafety /\ [Next]_vars => LifetimeSafety'
  <2> SUFFICES ASSUME TypeOK, LifetimeSafety, [Next]_vars
               PROVE  LifetimeSafety'
    OBVIOUS
  <2>1. CASE UNCHANGED vars
    BY <2>1 DEF vars, LifetimeSafety
  <2>2. CASE LifetimeNeutral
    BY <2>2, NeutralKeepsLifetime DEF lifetimeVars, LifetimeSafety
  <2>3. CASE Cancel
    <3>1. CASE handle
      BY <2>3, <3>1 DEF Cancel, Freed, LifetimeSafety
    <3>2. CASE ~handle
      BY <2>3, <3>2 DEF Cancel, LifetimeSafety
    <3>3. QED
      BY <3>1, <3>2
  <2>4. CASE AcquireRef
    BY <2>4 DEF AcquireRef, LifetimeSafety
  <2>5. CASE DropRef
    <3>1. CASE appRefs = 1 /\ ~selfRef
      <4>1. ~handle /\ ~cbReg
        BY <3>1 DEF LifetimeSafety
      <4>2. QED
        BY <2>5, <3>1, <4>1 DEF TypeOK, DropRef, Destroy, LifetimeSafety
    <3>2. CASE ~(appRefs = 1 /\ ~selfRef)
      BY <2>5, <3>2 DEF DropRef, LifetimeSafety
    <3>3. QED
      BY <3>1, <3>2
  <2>6. CASE TransportFree
    <3>1. CASE cbReg
      BY <2>6, <3>1 DEF TransportFree, Freed, LifetimeSafety
    <3>2. CASE ~cbReg
      BY <2>6, <3>2 DEF TypeOK, TransportFree, LifetimeSafety
    <3>3. QED
      BY <3>1, <3>2
  <2>7. QED
    BY <2>1, <2>2, <2>3, <2>4, <2>5, <2>6 DEF Next, LifetimeNeutral
<1>3. QED
  BY <1>1, <1>2, TypeCorrect, PTL DEF Spec
-----------------------------------------------------------------------------
(* The one-shot response, clause by clause, over any sequence of            *)
(* primitives.                                                              *)
OneTerminal(w) ==
    \A i, j \in 1..Len(w) : w[i] \in Terminals /\ w[j] \in Terminals => i = j
CancelLast(w) == \A i \in 1..Len(w) : w[i] = "cancel" => i = Len(w)
HasTerminal(w) == \E i \in 1..Len(w) : w[i] \in Terminals
HasCancel(w) == \E i \in 1..Len(w) : w[i] = "cancel"

(* OneShotResponse strengthened: once cancel() is on the wire req is      *)
(* unset, so neither startChunked() nor sendChunk() can follow it.          *)
OneShotInv ==
    /\ OneTerminal(wire)
    /\ CancelLast(wire)
    /\ HasTerminal(wire) => finalized
    /\ HasCancel(wire) => ~handle

LEMMA InvImpliesOneShot == OneShotInv => OneShotResponse
BY DEF OneShotInv, OneShotResponse, OneTerminal, CancelLast, HasTerminal,
       Replied

(* What appending one primitive does to the four clauses.                  *)
LEMMA AppendTerminal ==
    ASSUME NEW w \in Seq(Prims), NEW p \in Prims
    PROVE  HasTerminal(Append(w, p)) <=> HasTerminal(w) \/ p \in Terminals
BY DEF HasTerminal

LEMMA AppendCancel ==
    ASSUME NEW w \in Seq(Prims), NEW p \in Prims
    PROVE  HasCancel(Append(w, p)) <=> HasCancel(w) \/ p = "cancel"
BY DEF HasCancel

LEMMA AppendOneTerminal ==
    ASSUME NEW w \in Seq(Prims), NEW p \in Prims, OneTerminal(w),
           p \in Terminals => ~HasTerminal(w)
    PROVE  OneTerminal(Append(w, p))
BY DEF OneTerminal, HasTerminal

LEMMA AppendCancelLast ==
    ASSUME NEW w \in Seq(Prims), NEW p \in Prims, CancelLast(w), ~HasCancel(w)
    PROVE  CancelLast(Append(w, p))
BY DEF CancelLast, HasCancel

(* A step that leaves the wire alone, keeps `finalized` set and never sets *)
(* req again keeps OneShotInv.                                              *)
LEMMA KeepStep ==
    ASSUME OneShotInv, wire' = wire, finalized => finalized',
           handle' => handle
    PROVE  OneShotInv'
BY DEF OneShotInv, OneTerminal, CancelLast, HasTerminal, HasCancel

(* So does appending primitive p while req is set, provided a terminal is *)
(* issued only by a step that finds `finalized` unset and sets it, and     *)
(* cancel unsets req.                                                       *)
LEMMA AppendStep ==
    ASSUME TypeOK, OneShotInv, handle, NEW p \in Prims,
           wire' = Append(wire, p),
           p \in Terminals => ~finalized /\ finalized',
           p \notin Terminals => (finalized => finalized'),
           p = "cancel" => ~handle'
    PROVE  OneShotInv'
<1>1. wire \in Seq(Prims) /\ ~HasCancel(wire)
  BY DEF TypeOK, OneShotInv
<1>2. p \in Terminals => ~HasTerminal(wire)
  BY DEF OneShotInv
<1>3. OneTerminal(wire') /\ CancelLast(wire')
  BY <1>1, <1>2, AppendOneTerminal, AppendCancelLast DEF OneShotInv
<1>4. HasTerminal(wire') => finalized'
  BY <1>1, AppendTerminal DEF OneShotInv
<1>5. HasCancel(wire') => ~handle'
  BY <1>1, AppendCancel
<1>6. QED
  BY <1>3, <1>4, <1>5 DEF OneShotInv

(* finalize() followed by a terminal primitive, req left as it is.          *)
LEMMA FinalizeStep ==
    ASSUME TypeOK, OneShotInv, NEW p \in Terminals, Finalize(p),
           handle' = handle
    PROVE  OneShotInv'
<1>1. CASE wire' = wire
  BY <1>1, KeepStep DEF Finalize, TypeOK
<1>2. CASE wire' # wire
  BY <1>2, AppendStep DEF Finalize, Issue, Terminals, Prims
<1>3. QED
  BY <1>1, <1>2

(* A chunk primitive issued straight through req.                          *)
LEMMA IssueStep ==
    ASSUME TypeOK, OneShotInv, NEW p \in {"start", "chunk"}, Issue(p),
           handle' = handle, finalized' = finalized
    PROVE  OneShotInv'
<1>1. CASE wire' = wire
  BY <1>1, KeepStep
<1>2. CASE wire' # wire
  BY <1>2, AppendStep DEF Issue, Terminals, Prims
<1>3. QED
  BY <1>1, <1>2

-----------------------------------------------------------------------------
(* The Request asks the transport for at most one complete response, only  *)
(* once finalize() has run, and nothing after cancel(), for every bound:    *)
(* the finalize() check guards the three terminals, and the chunk calls,   *)
(* which do not check `finalized`, cannot follow cancel() because cancel() *)
(* unsets req first (OneShotInv).                                           *)
LEMMA OneShotInvariant == Spec => []OneShotInv
<1>1. Init => OneShotInv
  BY DEF Init, OneShotInv, OneTerminal, CancelLast, HasTerminal, HasCancel
<1>2. TypeOK /\ OneShotInv /\ [Next]_vars => OneShotInv'
  <2> SUFFICES ASSUME TypeOK, OneShotInv, [Next]_vars
               PROVE  OneShotInv'
    OBVIOUS
  <2>1. CASE UNCHANGED vars
    BY <2>1, KeepStep DEF vars
  <2>2. CASE \/ Send \/ ResetOutput
             \/ \E c \in CompressionArgs : GetOutputStream(c)
             \/ \E c \in CompressionArgs : GetJSONWriter(c)
             \/ AcquireRef
    BY <2>2, KeepStep DEF Send, ResetOutput, GetOutputStream, GetJSONWriter,
                          AcquireRef, lifetimeVars
  <2>3. CASE ReplyCode \/ SendError \/ EndChunked \/ ReplyBuffer
    BY <2>3, FinalizeStep DEF ReplyCode, SendError, EndChunked, ReplyBuffer,
                              lifetimeVars, Terminals
  <2>4. CASE ReplyString \/ Redirect \/ SendErrorMessage \/ SendJSONError
    <3>1. CASE ~handle \/ finalized
      BY <2>4, <3>1, KeepStep DEF ReplyString, Redirect, SendErrorMessage,
                                  SendJSONError, Finalize, lifetimeVars
    <3>2. CASE handle /\ ~finalized
      BY <2>4, <3>2, FinalizeStep DEF ReplyString, Redirect, SendErrorMessage,
                                      SendJSONError, lifetimeVars, Terminals
    <3>3. QED
      BY <3>1, <3>2
  <2>5. CASE StartChunked \/ SendChunk
    BY <2>5, IssueStep DEF StartChunked, SendChunk, lifetimeVars
  <2>6. CASE Cancel
    <3>1. CASE handle
      BY <2>6, <3>1, AppendStep DEF Cancel, Freed, Prims, Terminals
    <3>2. CASE ~handle
      BY <2>6, <3>2, KeepStep DEF Cancel
    <3>3. QED
      BY <3>1, <3>2
  <2>7. CASE DropRef
    BY <2>7, KeepStep DEF DropRef, Destroy
  <2>8. CASE TransportFree
    BY <2>8, KeepStep DEF TransportFree, Freed
  <2>9. QED
    BY <2>1, <2>2, <2>3, <2>4, <2>5, <2>6, <2>7, <2>8 DEF Next
<1>3. QED
  BY <1>1, <1>2, TypeCorrect, PTL DEF Spec

(* The one-shot response, for every value of the bounds.                   *)
THEOREM OneShot == Spec => []OneShotResponse
BY OneShotInvariant, InvImpliesOneShot, PTL

-----------------------------------------------------------------------------
(* Refinement of the Response contract.  A finalize() followed by a        *)
(* terminal primitive is Respond when req is set, Seal when it is not and  *)
(* a stutter when the Request was already finalized.                        *)
LEMMA FinalizeRefines ==
    ASSUME NEW p \in Terminals, Finalize(p)
    PROVE  [Contract!Next]_Contract!vars
<1>1. CASE finalized
  BY <1>1 DEF Finalize, Contract!vars
<1>2. CASE ~finalized /\ handle
  <2>1. Contract!Respond(p)
    BY <1>2 DEF Finalize, Issue, Contract!Respond
  <2>2. QED
    BY <2>1 DEF Contract!Next, Terminals, Contract!Terminals
<1>3. CASE ~finalized /\ ~handle
  BY <1>3 DEF Finalize, Issue, Contract!Next, Contract!Seal
<1>4. QED
  BY <1>1, <1>2, <1>3

(* A chunk primitive is Stream: OneShotInv says req is unset once cancel   *)
(* is on the wire.                                                          *)
LEMMA IssueRefines ==
    ASSUME OneShotInv, NEW p \in {"start", "chunk"}, Issue(p),
           finalized' = finalized
    PROVE  [Contract!Next]_Contract!vars
<1>1. CASE handle
  <2>1. ~Contract!Cancelled
    BY <1>1 DEF OneShotInv, HasCancel, Contract!Cancelled
  <2>2. Contract!Stream(p)
    BY <1>1, <2>1 DEF Issue, Contract!Stream
  <2>3. QED
    BY <2>2 DEF Contract!Next, Contract!Chunks
<1>2. CASE ~handle
  BY <1>2 DEF Issue, Contract!vars
<1>3. QED
  BY <1>1, <1>2

(* A step that leaves the wire alone and at most sets `finalized` is Seal  *)
(* or a stutter.                                                            *)
LEMMA SealRefines ==
    ASSUME wire' = wire, finalized' \in {finalized, TRUE}
    PROVE  [Contract!Next]_Contract!vars
BY DEF Contract!Next, Contract!Seal, Contract!vars

(* Request implements the Response contract under the mapping final <-    *)
(* finalized, for every value of the bounds: each step of the application, *)
(* of the Request's lifetime machinery and of the transport is a step of   *)
(* the contract or leaves wire and finalized alone.                        *)
THEOREM Refinement == Spec => ImplementsResponse
<1>1. Init => Contract!Init
  BY DEF Init, Contract!Init
<1>2. OneShotInv /\ [Next]_vars => [Contract!Next]_Contract!vars
  <2> SUFFICES ASSUME OneShotInv, [Next]_vars
               PROVE  [Contract!Next]_Contract!vars
    OBVIOUS
  <2>1. CASE UNCHANGED vars
    BY <2>1, SealRefines DEF vars
  <2>2. CASE \/ Send \/ ResetOutput
             \/ \E c \in CompressionArgs : GetOutputStream(c)
             \/ \E c \in CompressionArgs : GetJSONWriter(c)
             \/ AcquireRef \/ DropRef \/ TransportFree
    BY <2>2, SealRefines DEF Send, ResetOutput, GetOutputStream, GetJSONWriter,
                             AcquireRef, DropRef, TransportFree
  <2>3. CASE ReplyCode \/ SendError \/ EndChunked \/ ReplyBuffer
    BY <2>3, FinalizeRefines DEF ReplyCode, SendError, EndChunked, ReplyBuffer,
                                 Terminals
  <2>4. CASE ReplyString \/ Redirect \/ SendErrorMessage \/ SendJSONError
    <3>1. CASE ~handle \/ finalized
      BY <2>4, <3>1, SealRefines DEF ReplyString, Redirect, SendErrorMessage,
                                     SendJSONError, Finalize
    <3>2. CASE handle /\ ~finalized
      BY <2>4, <3>2, FinalizeRefines DEF ReplyString, Redirect,
                                         SendErrorMessage, SendJSONError,
                                         Terminals
    <3>3. QED
      BY <3>1, <3>2
  <2>5. CASE StartChunked \/ SendChunk
    BY <2>5, IssueRefines DEF StartChunked, SendChunk
  <2>6. CASE Cancel
    <3>1. CASE handle
      <4>1. ~Contract!Cancelled
        BY <3>1 DEF OneShotInv, HasCancel, Contract!Cancelled
      <4>2. Contract!Cancel
        BY <2>6, <3>1, <4>1 DEF Cancel, Contract!Cancel
      <4>3. QED
        BY <4>2 DEF Contract!Next
    <3>2. CASE ~handle
      BY <2>6, <3>2, SealRefines DEF Cancel
    <3>3. QED
      BY <3>1, <3>2
  <2>7. QED
    BY <2>1, <2>2, <2>3, <2>4, <2>5, <2>6 DEF Next
<1>3. QED
  BY <1>1, <1>2, OneShotInvariant, PTL DEF Spec, ImplementsResponse,
                                        Contract!Spec

=============================================================================
