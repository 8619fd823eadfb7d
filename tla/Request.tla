------------------------------ MODULE Request ------------------------------
(***************************************************************************)
(* cb::Event::Request (src/unnamed/part_000, Request.cpp): one Request      *)
(* wrapping one libevent exchange (evhttp_request).                         *)
(*                                                                          *)
(* Three actors share the state:                                            *)
(*  - the application, which holds SmartPointers to the Request and calls   *)
(*    its operations (send, reply, sendError, chunks, writers, cancel);     *)
(*  - the Request's own lifetime machinery: init() registers free_cb on the *)
(*    exchange and takes a self reference, freed() drops both, ~Request     *)
(*    deregisters and, when it owns the exchange, cancels it;               *)
(*  - the transport, which frees the exchange asynchronously (after the     *)
(*    reply is written, or at any time for an outbound request) and then   *)
(*    calls free_cb.                                                        *)
(*                                                                          *)
(* Data is abstracted: the output body is the sequence of segments written  *)
(* into the output buffer, each labelled with the codec that produced it;   *)
(* what the Request hands to the transport is the sequence `wire` of        *)
(* primitives it issued on the exchange.                                   *)
(***************************************************************************)
EXTENDS Naturals, Sequences

CONSTANTS
    MaxRefs,    \* bound on the application's SmartPointers to the Request
    MaxWire,    \* bound on the primitives issued on one exchange
    MaxOut      \* bound on the segments in the output buffer

ASSUME BoundsAssumption ==
    /\ MaxRefs \in Nat \ {0}
    /\ MaxWire \in Nat
    /\ MaxOut \in Nat

VARIABLES
    alive,      \* the Request object exists (its destructor has not run)
    appRefs,    \* SmartPointers the application holds to it
    selfRef,    \* the self reference taken by init() (SelfRef::selfRef)
    handle,     \* req.isSet(): the Request still refers to the exchange
    deallocate, \* the constructor's `deallocate` flag
    outbound,   \* the exchange is an outbound request the transport may free at any time
    xlive,     \* the transport has not freed the exchange
    cbReg,      \* the exchange's on_free_cb is free_cb with this Request
    finalized,  \* Request::finalized
    wire,       \* primitives issued on the exchange, in order
    out,        \* the output buffer: one codec label per segment written
    enc,        \* the Content-Encoding output header ("none" when absent)
    requested,  \* what getRequestedCompression() returns for this request
    err         \* the exception the last application call raised, or "ok"

lifetimeVars == <<alive, appRefs, selfRef, handle, xlive, cbReg>>
vars == <<alive, appRefs, selfRef, handle, deallocate, outbound, xlive, cbReg,
          finalized, wire, out, enc, requested, err>>

(* compression_t without COMPRESS_AUTO; "none" is COMPRESS_NONE.           *)
Codecs == {"none", "zlib", "gzip", "bzip2"}
Compressors == Codecs \ {"none"}
(* The argument an application may pass where a compression_t is taken.   *)
CompressionArgs == Codecs \cup {"auto"}
Prims == {"reply", "error", "start", "chunk", "end", "cancel"}
Terminals == {"reply", "error", "end"}
Errors == {"ok", "AlreadyFinalized", "NullHandle", "ResetAfterFinalize"}

(* The transport has been asked for a complete response.                    *)
Replied == \E i \in 1..Len(wire) : wire[i] \in Terminals

TypeOK ==
    /\ alive \in BOOLEAN
    /\ appRefs \in 0..MaxRefs
    /\ selfRef \in BOOLEAN
    /\ handle \in BOOLEAN
    /\ deallocate \in BOOLEAN
    /\ outbound \in BOOLEAN
    /\ xlive \in BOOLEAN
    /\ cbReg \in BOOLEAN
    /\ finalized \in BOOLEAN
    /\ wire \in Seq(Prims)
    /\ out \in Seq(Codecs)
    /\ enc \in Codecs
    /\ requested \in Codecs
    /\ err \in Errors

(* Request(req, deallocate) with req non-null: init() registers free_cb and *)
(* takes the self reference; the creator holds one SmartPointer.  A null   *)
(* req throws before init(), so no Request xlive in that case.            *)
Init ==
    /\ alive = TRUE
    /\ appRefs = 1
    /\ selfRef = TRUE
    /\ handle = TRUE
    /\ deallocate \in BOOLEAN
    /\ outbound \in BOOLEAN
    /\ xlive = TRUE
    /\ cbReg = TRUE
    /\ finalized = FALSE
    /\ wire = <<>>
    /\ out = <<>>
    /\ enc = "none"
    /\ requested \in Codecs
    /\ err = "ok"

-----------------------------------------------------------------------------
(* Building blocks                                                          *)

(* The application can only call into a Request it holds a reference to.  *)
Caller == alive /\ appRefs > 0

(* Issue transport primitive p through req.access(); it throws when req is *)
(* unset.                                                                   *)
Issue(p) ==
    \/ /\ handle
       /\ Len(wire) < MaxWire
       /\ wire' = Append(wire, p)
       /\ err' = "ok"
    \/ /\ ~handle
       /\ err' = "NullHandle"
       /\ UNCHANGED wire

(* A faulty finalize() without its `if (finalized) THROW` check.            *)
FinalizeUnchecked(p) ==
    /\ finalized' = TRUE
    /\ Issue(p)

(* finalize() followed by primitive p: the flag is set before the output   *)
(* headers are touched, so a released req throws with finalized already    *)
(* TRUE.                                                                     *)
Finalize(p) ==
    \/ /\ finalized
       /\ err' = "AlreadyFinalized"
       /\ UNCHANGED <<finalized, wire>>
    \/ /\ ~finalized
       /\ finalized' = TRUE
       /\ Issue(p)

(* Faulty variants of freed(): one forgetting req.release(), one          *)
(* forgetting selfDeref().                                                  *)
FreedKeepsHandle ==
    /\ UNCHANGED handle
    /\ selfRef' = FALSE
    /\ alive' = (appRefs > 0)

FreedKeepsSelfRef ==
    /\ handle' = FALSE
    /\ UNCHANGED <<selfRef, alive>>

(* freed(): req.release() then selfDeref(); when that was the last         *)
(* reference ~Request runs, and finds req unset.                           *)
Freed ==
    /\ handle' = FALSE
    /\ selfRef' = FALSE
    /\ alive' = (appRefs > 0)

(* ~Request: deregister free_cb and, when it owns the exchange, cancel it *)
(* (evhttp_cancel_request also frees it; free_cb is already cleared).     *)
Destroy ==
    /\ alive' = FALSE
    /\ handle' = FALSE
    /\ IF handle
         THEN /\ cbReg' = FALSE
              /\ xlive' = IF deallocate THEN FALSE ELSE xlive
         ELSE UNCHANGED <<cbReg, xlive>>

(* Appending one segment to the output buffer through getOutputBuffer().  *)
AddSegment(c) ==
    \/ /\ handle
       /\ Len(out) < MaxOut
       /\ out' = Append(out, c)
       /\ err' = "ok"
    \/ /\ ~handle
       /\ err' = "NullHandle"
       /\ UNCHANGED out

(* The codec a JSONWriter's stream applies: compressBufferStream leaves     *)
(* COMPRESS_AUTO (and NONE) uncompressed.                                   *)
WriterCodec(c) == IF c \in Compressors THEN c ELSE "none"

(* outSetContentEncoding(c): sets the header only for a real compressor.   *)
SetEncoding(c) == enc' = IF c \in Compressors THEN c ELSE enc

-----------------------------------------------------------------------------
(* Application operations                                                   *)

(* send(buf | data | s): append plain bytes to the output buffer.          *)
Send ==
    /\ Caller
    /\ AddSegment("none")
    /\ UNCHANGED <<lifetimeVars, deallocate, outbound, finalized, wire, enc,
                   requested>>

(* resetOutput(): refused once finalized, else empties the buffer.          *)
ResetOutput ==
    /\ Caller
    /\ \/ /\ finalized
          /\ err' = "ResetAfterFinalize"
          /\ UNCHANGED out
       \/ /\ ~finalized
          /\ handle
          /\ out' = <<>>
          /\ err' = "ok"
       \/ /\ ~finalized
          /\ ~handle
          /\ err' = "NullHandle"
          /\ UNCHANGED out
    /\ UNCHANGED <<lifetimeVars, deallocate, outbound, finalized, wire, enc,
                   requested>>

(* getOutputStream(c): COMPRESS_AUTO is resolved by getRequestedCompression *)
(* (which reads the input headers through req), Content-Encoding is set,    *)
(* and the stream compresses into the output buffer; what is written through*)
(* it is one segment, flushed when the stream is released.                  *)
GetOutputStream(c) ==
    LET codec == IF c = "auto" THEN requested ELSE c
    IN  /\ Caller
        /\ \/ /\ handle
              /\ SetEncoding(codec)
              /\ AddSegment(codec)
           \/ /\ ~handle
              /\ err' = "NullHandle"
              /\ UNCHANGED <<out, enc>>
        /\ UNCHANGED <<lifetimeVars, deallocate, outbound, finalized, wire,
                       requested>>

(* getJSONWriter(c), a document written, then close(): resetOutput() and   *)
(* setContentType(), the writer's stream over its own buffer, Content-     *)
(* Encoding set by the JSONWriter constructor, and close() handing the      *)
(* buffer to req.send().                                                    *)
GetJSONWriter(c) ==
    /\ Caller
    /\ \/ /\ finalized
          /\ err' = "ResetAfterFinalize"
          /\ UNCHANGED <<out, enc>>
       \/ /\ ~finalized
          /\ handle
          /\ out' = <<WriterCodec(c)>>
          /\ SetEncoding(c)
          /\ err' = "ok"
       \/ /\ ~finalized
          /\ ~handle
          /\ err' = "NullHandle"
          /\ UNCHANGED <<out, enc>>
    /\ UNCHANGED <<lifetimeVars, deallocate, outbound, finalized, wire,
                   requested>>

(* reply(code): finalize and send the output buffer.                       *)
ReplyCode ==
    /\ Caller
    /\ Finalize("reply")
    /\ UNCHANGED <<lifetimeVars, deallocate, outbound, out, enc, requested>>

(* reply(code, s): send(s) first, then reply(code): the string is appended *)
(* even when finalize() then throws.                                        *)
ReplyString ==
    /\ Caller
    /\ \/ /\ handle
          /\ Len(out) < MaxOut
          /\ out' = Append(out, "none")
          /\ Finalize("reply")
       \/ /\ ~handle
          /\ err' = "NullHandle"
          /\ UNCHANGED <<out, finalized, wire>>
    /\ UNCHANGED <<lifetimeVars, deallocate, outbound, enc, requested>>

(* reply(code, buf): finalize first; evhttp_send_reply appends buf to the  *)
(* output buffer it sends.                                                  *)
ReplyBuffer ==
    /\ Caller
    /\ Finalize("reply")
    /\ wire' # wire => Len(out) < MaxOut
    /\ out' = IF wire' # wire THEN Append(out, "none") ELSE out
    /\ UNCHANGED <<lifetimeVars, deallocate, outbound, enc, requested>>

(* redirect(uri, code): two outSet() calls through req, then               *)
(* reply(code, "", 0), whose empty buffer adds nothing to the body.         *)
Redirect ==
    /\ Caller
    /\ \/ /\ handle
          /\ Finalize("reply")
       \/ /\ ~handle
          /\ err' = "NullHandle"
          /\ UNCHANGED <<finalized, wire>>
    /\ UNCHANGED <<lifetimeVars, deallocate, outbound, out, enc, requested>>

(* sendError(code): finalize, then evhttp_send_error.                      *)
SendError ==
    /\ Caller
    /\ Finalize("error")
    /\ UNCHANGED <<lifetimeVars, deallocate, outbound, out, enc, requested>>

(* sendError(code, message): resetOutput(), setContentType(), send(message),*)
(* sendError(code).                                                         *)
SendErrorMessage ==
    /\ Caller
    /\ \/ /\ finalized
          /\ err' = "ResetAfterFinalize"
          /\ UNCHANGED <<out, finalized, wire>>
       \/ /\ ~finalized
          /\ handle
          /\ out' = <<"none">>
          /\ Finalize("error")
       \/ /\ ~finalized
          /\ ~handle
          /\ err' = "NullHandle"
          /\ UNCHANGED <<out, finalized, wire>>
    /\ UNCHANGED <<lifetimeVars, deallocate, outbound, enc, requested>>

(* sendJSONError(code, message): getJSONWriter() with its default           *)
(* compression (NONE; AUTO would act the same, it is not resolved there),   *)
(* the ["error", message] list, close(), reply(code).                        *)
SendJSONError ==
    /\ Caller
    /\ \/ /\ finalized
          /\ err' = "ResetAfterFinalize"
          /\ UNCHANGED <<out, finalized, wire>>
       \/ /\ ~finalized
          /\ handle
          /\ out' = <<"none">>
          /\ Finalize("reply")
       \/ /\ ~finalized
          /\ ~handle
          /\ err' = "NullHandle"
          /\ UNCHANGED <<out, finalized, wire>>
    /\ UNCHANGED <<lifetimeVars, deallocate, outbound, enc, requested>>

(* startChunked(code) and sendChunk(buf): straight to the transport; they *)
(* do not look at `finalized`.                                              *)
StartChunked ==
    /\ Caller
    /\ Issue("start")
    /\ UNCHANGED <<lifetimeVars, deallocate, outbound, finalized, out, enc,
                   requested>>

SendChunk ==
    /\ Caller
    /\ Issue("chunk")
    /\ UNCHANGED <<lifetimeVars, deallocate, outbound, finalized, out, enc,
                   requested>>

(* endChunked(): finalize, then evhttp_send_reply_end.                     *)
EndChunked ==
    /\ Caller
    /\ Finalize("end")
    /\ UNCHANGED <<lifetimeVars, deallocate, outbound, out, enc, requested>>

(* A faulty cancel() that deregisters free_cb first, as ~Request does, so  *)
(* freed() never runs and req stays set on the cancelled exchange.          *)
CancelDeregistered ==
    /\ Caller
    /\ \/ /\ handle
          /\ Len(wire) < MaxWire
          /\ wire' = Append(wire, "cancel")
          /\ xlive' = FALSE
          /\ cbReg' = FALSE
          /\ err' = "ok"
          /\ finalized' = TRUE
          /\ UNCHANGED <<handle, selfRef, alive>>
       \/ /\ ~handle
          /\ err' = "NullHandle"
          /\ UNCHANGED <<wire, xlive, cbReg, handle, selfRef, alive,
                         finalized>>
    /\ UNCHANGED <<appRefs, deallocate, outbound, out, enc, requested>>

(* cancel(): evhttp_cancel_request(req.access()) frees the exchange at      *)
(* once, which runs free_cb (still registered) and so freed(); then         *)
(* finalized = true.  With req unset, req.access() throws first and        *)
(* finalized is left alone.  The caller's reference keeps the object alive.*)
Cancel ==
    /\ Caller
    /\ \/ /\ handle
          /\ Len(wire) < MaxWire
          /\ wire' = Append(wire, "cancel")
          /\ xlive' = FALSE
          /\ cbReg' = FALSE
          /\ Freed
          /\ err' = "ok"
          /\ finalized' = TRUE
       \/ /\ ~handle
          /\ err' = "NullHandle"
          /\ UNCHANGED <<wire, xlive, cbReg, handle, selfRef, alive,
                         finalized>>
    /\ UNCHANGED <<appRefs, deallocate, outbound, out, enc, requested>>

(* Copying a SmartPointer<Request>.                                         *)
AcquireRef ==
    /\ Caller
    /\ appRefs < MaxRefs
    /\ appRefs' = appRefs + 1
    /\ UNCHANGED <<alive, selfRef, handle, deallocate, outbound, xlive, cbReg,
                   finalized, wire, out, enc, requested, err>>

(* A faulty release that does not require a reference to be held.         *)
DropRefUnheld ==
    /\ alive
    /\ appRefs' = appRefs - 1
    /\ IF appRefs = 1 /\ ~selfRef
         THEN Destroy
         ELSE UNCHANGED <<alive, handle, xlive, cbReg>>
    /\ UNCHANGED <<selfRef, deallocate, outbound, finalized, wire, out, enc,
                   requested, err>>

(* Dropping one: the last reference overall runs ~Request.                 *)
DropRef ==
    /\ Caller
    /\ appRefs' = appRefs - 1
    /\ IF appRefs = 1 /\ ~selfRef
         THEN Destroy
         ELSE UNCHANGED <<alive, handle, xlive, cbReg>>
    /\ UNCHANGED <<selfRef, deallocate, outbound, finalized, wire, out, enc,
                   requested, err>>

-----------------------------------------------------------------------------
(* Transport                                                                *)

(* libevent frees the exchange once the response is written, or, for an   *)
(* outbound request, when it completes or fails; evhttp_request_free calls *)
(* the registered on_free_cb, free_cb, which calls freed().                 *)
TransportFree ==
    /\ xlive
    /\ outbound \/ Replied
    /\ xlive' = FALSE
    /\ cbReg' = FALSE
    /\ IF cbReg THEN Freed ELSE UNCHANGED <<handle, selfRef, alive>>
    /\ UNCHANGED <<appRefs, deallocate, outbound, finalized, wire, out, enc,
                   requested, err>>

-----------------------------------------------------------------------------
Next ==
    \/ Send
    \/ ResetOutput
    \/ \E c \in CompressionArgs : GetOutputStream(c)
    \/ \E c \in CompressionArgs : GetJSONWriter(c)
    \/ ReplyCode
    \/ ReplyString
    \/ ReplyBuffer
    \/ Redirect
    \/ SendError
    \/ SendErrorMessage
    \/ SendJSONError
    \/ StartChunked
    \/ SendChunk
    \/ EndChunked
    \/ Cancel
    \/ AcquireRef
    \/ DropRef
    \/ TransportFree

(* libevent finishes writing a queued response and completes or fails an   *)
(* outbound request on its own: the free is weakly fair.                    *)
Spec == Init /\ [][Next]_vars /\ WF_vars(TransportFree)

-----------------------------------------------------------------------------
(* Properties                                                               *)

(* Lifetime coupling (init/freed/~Request): the Request refers to the     *)
(* exchange exactly while free_cb is registered on it, and then the         *)
(* exchange has not been freed, the self reference is held and the Request *)
(* is alive.  So req.access() never reaches a freed exchange, free_cb never *)
(* reaches a destroyed Request, and ~Request can only run once req is unset.*)
LifetimeSafety ==
    /\ handle = cbReg
    /\ cbReg => xlive /\ selfRef /\ alive

(* The one-shot response: whatever the application calls, and whenever the *)
(* transport frees the exchange, the Request asks for at most one complete *)
(* response (reply, error or end of chunks), only once it is finalized, and *)
(* issues nothing on the exchange after cancel().                           *)
OneShotResponse ==
    /\ \A i, j \in 1..Len(wire) :
          wire[i] \in Terminals /\ wire[j] \in Terminals => i = j
    /\ \A i \in 1..Len(wire) : wire[i] = "cancel" => i = Len(wire)
    /\ Replied => finalized

(* Reclamation: once the application has dropped every reference and the  *)
(* transport has a complete response to write (or the exchange is an        *)
(* outbound one), both the Request and the exchange are eventually freed:   *)
(* the self reference of init() does not leak.                              *)
Reclaimed ==
    (appRefs = 0 /\ (outbound \/ Replied)) ~> (~alive /\ ~xlive)

(* The one-shot response contract of module Response, with `finalized` as *)
(* its `final`: every step of the Request, of the application and of the  *)
(* transport is a step of the contract or leaves wire and finalized alone. *)
Contract == INSTANCE Response WITH final <- finalized

(* Request implements the Response contract: each reply, sendError and     *)
(* endChunked is issued by the call that finalizes, startChunked() and     *)
(* sendChunk() never follow cancel(), and cancel() is issued once.          *)
ImplementsResponse == Contract!Spec

(* spec.md section 3: once finalized, no header or body mutation is        *)
(* permitted.  send(), reply(code, s)'s send, startChunked() and           *)
(* sendChunk() do not check `finalized`.                                    *)
FrozenAfterFinalize ==
    [][finalized =>
         /\ out' = out
         /\ Len(wire') > Len(wire) => wire'[Len(wire')] \notin {"start", "chunk"}
      ]_vars

(* spec.md section 3: dropping the application's last reference while it *)
(* owns the exchange (deallocate) runs ~Request, which cancels and frees   *)
(* the exchange.                                                            *)
DropOwnedCancels ==
    [][appRefs = 1 /\ appRefs' = 0 /\ deallocate /\ handle => ~xlive']_vars

(* A body written by one stream or writer (all segments with one codec) is *)
(* sent with the Content-Encoding of that codec, and with none when it is  *)
(* uncompressed (spec.md 4.4: "omitted entirely for None").                 *)
UniformBodyMatches(o, e) ==
    (\A i, j \in 1..Len(o) : o[i] = o[j]) => \A i \in 1..Len(o) : o[i] = e

ReplyEncodingMatches ==
    [][Len(wire') > Len(wire) /\ wire'[Len(wire')] = "reply"
         => UniformBodyMatches(out', enc')]_vars

=============================================================================
