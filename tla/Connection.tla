----------------------------- MODULE Connection -----------------------------
(***************************************************************************)
(* cb::Event::Connection (src/src/cbang/event/Connection.cpp): a wrapper   *)
(* over an evhttp_connection that frees it on destruction only when it    *)
(* owns it (`deallocate`), and that computes the peer address.             *)
(*                                                                          *)
(* Transport connections are the numbers 1..MaxConns.  An inbound one is   *)
(* owned by libevent, which closes it; an outbound one is created by a     *)
(* Connection constructor and owned by that Connection.  The application  *)
(* keeps its Connections in Slots.  The non-owning views Request makes     *)
(* (its constructor's client address, getConnection()) live for one call  *)
(* and are one step each; the view getConnection() returns is kept by the  *)
(* application in a slot like any Connection, without owning it.            *)
(***************************************************************************)
EXTENDS Integers

CONSTANTS
    Slots,             \* the application's Connection objects
    MaxConns,          \* bound on the transport connections
    Ports,             \* peer port numbers, in host byte order
    Methods,           \* the method codes an application may pass
    HostLittleEndian,  \* the build's host byte order
    Knobs,             \* the settings forwarded as they are: "maxBody", ...
    KnobValues,        \* values an application gives them
    RetryArgs,         \* setRetries() arguments (unsigned)
    LocalIPs,          \* IPv4 addresses as numbers; 0 is "no address"
    LocalPorts,        \* local ports; 0 is "no port"
    IntMax             \* INT_MAX (2^31 - 1 on the targets)

(* unsigned, two's complement, as wide as int.                              *)
UIntMax == 2 * IntMax + 1
UInts == 0..UIntMax
(* uint16_t port numbers.                                                   *)
PortNumbers == {n \in Int : 0 <= n /\ n <= 65535}

ASSUME ConnectionAssumption ==
    /\ MaxConns \in Nat
    /\ Ports \subseteq PortNumbers
    /\ HostLittleEndian \in BOOLEAN
    /\ Knobs \subseteq {"maxBody", "maxHeaders", "retryDelay", "timeout"}
    /\ "unset" \notin KnobValues
    /\ IntMax \in Nat
    /\ RetryArgs \subseteq UInts
    /\ LocalIPs \subseteq UInts
    /\ LocalPorts \subseteq PortNumbers

Conns == 1..MaxConns
(* RequestMethod values convert_method() knows (lines 58-71).               *)
KnownMethods == {"GET", "POST", "HEAD", "PUT", "DELETE", "OPTIONS", "TRACE",
                 "CONNECT", "PATCH"}
(* What libevent reports for a connection: evhttp_connection_get_peer's   *)
(* address (or NULL), whether evhttp_connection_get_addr is an AF_INET      *)
(* sockaddr, the peer's port, and whether evhttp_connection_get_bufferevent *)
(* gives a bufferevent.                                                     *)
PeerInfos == [reported : BOOLEAN, inet : BOOLEAN, port : Ports, bev : BOOLEAN]
NoPeer == [port |-> 0, known |-> FALSE]

VARIABLES
    conState,  \* transport connection: "unused", "live" or "freed"
    owner,     \* who must free it: "transport" or "app"
    frees,     \* evhttp_connection_free calls made on it
    peerInfo,  \* what libevent reports about its peer
    wr,        \* slot -> [con, deallocate]; con = 0: no Connection there
    got,       \* the IPAddress the last getPeer() returned
    gotFor,    \* the connection it was computed for
    requests,  \* requests evhttp_make_request accepted, per connection
    closed,    \* the inbound connections libevent has closed
    err,       \* the exception the last call raised, or "ok"
    openssl,   \* the build defines HAVE_OPENSSL
    setting,   \* what libevent holds for each connection's settings
    asked      \* the last value the application passed for each setting

knobVars == <<setting, asked>>
vars == <<conState, owner, frees, peerInfo, wr, got, gotFor, requests, closed,
          err, openssl, knobVars>>

Errors == {"ok", "NullHandle", "NullConnection", "CreateFailed", "NeedSSLContext",
           "NoOpenSSL", "UnknownMethod", "RequestFailed", "NoBufferEvent",
           "NoConnection"}
MaxRequests == 1
(* libevent's int, and the unsigned-to-int conversion of a two's          *)
(* complement build.                                                        *)
Ints == -(IntMax + 1)..IntMax
ToInt(n) == IF n > IntMax THEN n - (UIntMax + 1) ELSE n
(* A connection's settings: the knobs, the retry limit, the local address. *)
KnobRange == KnobValues \cup {"unset"}
Settings(Retries) ==
    [maxBody : KnobRange, maxHeaders : KnobRange, retryDelay : KnobRange,
     timeout : KnobRange, retries : Retries, ip : LocalIPs \cup {0},
     port : LocalPorts \cup {0}]
Defaults ==
    [maxBody |-> "unset", maxHeaders |-> "unset", retryDelay |-> "unset",
     timeout |-> "unset", retries |-> 0, ip |-> 0, port |-> 0]

TypeOK ==
    /\ conState \in [Conns -> {"unused", "live", "freed"}]
    /\ owner \in [Conns -> {"transport", "app"}]
    /\ frees \in [Conns -> 0..2]
    /\ peerInfo \in [Conns -> PeerInfos]
    /\ wr \in [Slots -> [con : 0..MaxConns, deallocate : BOOLEAN]]
    /\ got \in [port : PortNumbers, known : BOOLEAN]
    /\ gotFor \in 0..MaxConns
    /\ requests \in [Conns -> 0..MaxRequests]
    /\ closed \subseteq Conns
    /\ err \in Errors
    /\ openssl \in BOOLEAN
    /\ setting \in [Conns -> Settings(Ints)]
    /\ asked \in [Conns -> Settings(UInts)]

Init ==
    /\ conState = [c \in Conns |-> "unused"]
    /\ owner = [c \in Conns |-> "transport"]
    /\ frees = [c \in Conns |-> 0]
    /\ peerInfo \in [Conns -> PeerInfos]
    /\ wr = [s \in Slots |-> [con |-> 0, deallocate |-> FALSE]]
    /\ got = NoPeer
    /\ gotFor = 0
    /\ requests = [c \in Conns |-> 0]
    /\ closed = {}
    /\ err = "ok"
    /\ openssl \in BOOLEAN
    /\ setting = [c \in Conns |-> Defaults]
    /\ asked = [c \in Conns |-> Defaults]

-----------------------------------------------------------------------------
(* sin_port holds the port in network byte order; read as a host integer  *)
(* it is the byte-swapped port on a little-endian host.                     *)
Swap16(p) == (p % 256) * 256 + p \div 256
SinPort(p) == IF HostLittleEndian THEN Swap16(p) ELSE p

(* A faulty getPeer() converting sin_port with ntohl instead of ntohs.     *)
GetPeerOfNtohl(info) ==
    LET fromPeer == IF info.reported THEN [port |-> info.port, known |-> TRUE]
                                     ELSE NoPeer
    IN  IF info.inet THEN [port |-> info.port * 65536, known |-> TRUE]
                     ELSE fromPeer

(* getPeer() (lines 136-151): the reported address and port if there is    *)
(* one, then the AF_INET sockaddr's port and address over it.              *)
GetPeerOf(info) ==
    LET fromPeer == IF info.reported THEN [port |-> info.port, known |-> TRUE]
                                     ELSE NoPeer
    IN  IF info.inet THEN [port |-> SinPort(info.port), known |-> TRUE]
                     ELSE fromPeer

(* ~Connection (line 126): frees the handle when it has one and owns it.   *)
Release(c, d) ==
    IF c # 0 /\ d
      THEN /\ frees' = [frees EXCEPT ![c] = @ + 1]
           /\ conState' = [conState EXCEPT ![c] = "freed"]
      ELSE UNCHANGED <<frees, conState>>

(* The Connection in slot s has a connection libevent has not freed.       *)
Live(s) == wr[s].con # 0 /\ conState[wr[s].con] = "live"

(* A new outbound connection c, owned by the Connection in slot s.         *)
Created(s, c) ==
    /\ conState' = [conState EXCEPT ![c] = "live"]
    /\ owner' = [owner EXCEPT ![c] = "app"]
    /\ wr' = [wr EXCEPT ![s] = [con |-> c, deallocate |-> TRUE]]
    /\ err' = "ok"

-----------------------------------------------------------------------------
(* libevent accepts an inbound connection; it owns it.                     *)
Accept(c) ==
    /\ conState[c] = "unused"
    /\ conState' = [conState EXCEPT ![c] = "live"]
    /\ UNCHANGED <<owner, frees, peerInfo, wr, got, gotFor, requests, closed,
                   err, openssl, knobVars>>

(* libevent closes an inbound connection it accepted, and frees it.       *)
TransportClose(c) ==
    /\ conState[c] # "unused"
    /\ owner[c] = "transport"
    /\ c \notin closed
    /\ closed' = closed \cup {c}
    /\ conState' = [conState EXCEPT ![c] = "freed"]
    /\ frees' = [frees EXCEPT ![c] = @ + 1]
    /\ UNCHANGED <<owner, peerInfo, wr, got, gotFor, requests, err, openssl,
                   knobVars>>

(* A faulty client-address lookup whose view owns the connection.          *)
ClientAddressOwning(c) ==
    /\ conState[c] = "live"
    /\ c \notin closed
    /\ got' = GetPeerOf(peerInfo[c])
    /\ gotFor' = c
    /\ Release(c, TRUE)
    /\ UNCHANGED <<owner, peerInfo, wr, requests, closed, err, openssl,
                   knobVars>>

(* Request's constructor (part_000 lines 138-142): a Connection(_con,      *)
(* false) view of the exchange's connection, getPeer(), and the view's     *)
(* destruction.                                                             *)
ClientAddress(c) ==
    /\ conState[c] = "live"
    /\ c \notin closed
    /\ got' = GetPeerOf(peerInfo[c])
    /\ gotFor' = c
    /\ Release(c, FALSE)
    /\ UNCHANGED <<owner, peerInfo, wr, requests, closed, err, openssl,
                   knobVars>>

(* Connection(base, dns, peer) and Connection(base, dns, bev, peer): the   *)
(* evhttp_connection_base_* call either fails (THROW, no object) or gives *)
(* a new connection the Connection owns.                                   *)
CreateOutbound(s, c) ==
    /\ wr[s].con = 0
    /\ conState[c] = "unused"
    /\ \/ Created(s, c)
       \/ /\ err' = "CreateFailed"
          /\ UNCHANGED <<conState, owner, wr>>
    /\ UNCHANGED <<frees, peerInfo, got, gotFor, requests, closed, openssl,
                   knobVars>>

(* Connection(base, dns, uri, sslCtx): https needs OpenSSL and an SSL      *)
(* context; then as above.                                                  *)
CreateFromURI(s, c, https, sslCtx) ==
    /\ wr[s].con = 0
    /\ conState[c] = "unused"
    /\ \/ /\ openssl /\ https /\ ~sslCtx
          /\ err' = "NeedSSLContext"
          /\ UNCHANGED <<conState, owner, wr>>
       \/ /\ ~openssl /\ https
          /\ err' = "NoOpenSSL"
          /\ UNCHANGED <<conState, owner, wr>>
       \/ /\ https => openssl /\ sslCtx
          /\ \/ Created(s, c)
             \/ /\ err' = "CreateFailed"
                /\ UNCHANGED <<conState, owner, wr>>
    /\ UNCHANGED <<frees, peerInfo, got, gotFor, requests, closed, openssl,
                   knobVars>>

(* Connection(con, deallocate) with a null con throws.                     *)
WrapNull(s) ==
    /\ wr[s].con = 0
    /\ err' = "NullConnection"
    /\ UNCHANGED <<conState, owner, frees, peerInfo, wr, got, gotFor, requests,
                   closed, openssl,
                   knobVars>>

(* getPeer() on an application Connection.                                 *)
GetPeer(s) ==
    /\ Live(s)
    /\ got' = GetPeerOf(peerInfo[wr[s].con])
    /\ gotFor' = wr[s].con
    /\ UNCHANGED <<conState, owner, frees, peerInfo, wr, requests, closed,
                   err, openssl, knobVars>>

(* makeRequest(req, method, uri): convert_method throws on an unknown      *)
(* method; evhttp_make_request's failure throws.                            *)
MakeRequest(s, m) ==
    LET c == wr[s].con
    IN  /\ Live(s)
        /\ \/ /\ m \notin KnownMethods
              /\ err' = "UnknownMethod"
              /\ UNCHANGED requests
           \/ /\ m \in KnownMethods
              /\ requests[c] < MaxRequests
              /\ requests' = [requests EXCEPT ![c] = @ + 1]
              /\ err' = "ok"
           \/ /\ m \in KnownMethods
              /\ err' = "RequestFailed"
              /\ UNCHANGED requests
        /\ UNCHANGED <<conState, owner, frees, peerInfo, wr, got, gotFor,
                       closed, openssl, knobVars>>

(* getBufferEvent() (lines 129-133): a non-owning BufferEvent, or a throw  *)
(* when the connection has none.                                            *)
GetBufferEvent(s) ==
    /\ Live(s)
    /\ err' = IF peerInfo[wr[s].con].bev THEN "ok" ELSE "NoBufferEvent"
    /\ UNCHANGED <<conState, owner, frees, peerInfo, wr, got, gotFor, requests,
                   closed, openssl, knobVars>>

(* The value libevent receives for setting k: setRetries() passes its     *)
(* unsigned argument to evhttp_connection_set_retries's int.                *)
Forwarded(k, v) == IF k = "retries" THEN ToInt(v) ELSE v

(* setMaxBodySize, setMaxHeaderSize, setInitialRetryDelay, setRetries and  *)
(* setTimeout (lines 154-178) hand their argument to libevent; the two     *)
(* delays go through Timer::toTimeVal, which keeps the duration.            *)
SetKnob(s, k, v) ==
    LET c == wr[s].con
    IN  /\ Live(s)
        /\ setting' = [setting EXCEPT ![c][k] = Forwarded(k, v)]
        /\ asked' = [asked EXCEPT ![c][k] = v]
        /\ UNCHANGED <<conState, owner, frees, peerInfo, wr, got, gotFor,
                       requests, closed, err, openssl>>

(* setLocalAddress(addr) (lines 181-188): the address, printed and parsed  *)
(* back by libevent, only when it is not 0; the port only when it is not 0. *)
SetLocalAddress(s, ip, port) ==
    LET c == wr[s].con
    IN  /\ Live(s)
        /\ setting' = [setting EXCEPT ![c].ip = IF ip # 0 THEN ip ELSE @,
                                      ![c].port = IF port # 0 THEN port ELSE @]
        /\ asked' = [asked EXCEPT ![c].ip = ip, ![c].port = port]
        /\ UNCHANGED <<conState, owner, frees, peerInfo, wr, got, gotFor,
                       requests, closed, err, openssl>>

(* Request::getConnection() (part_000 lines 172-176) for an exchange on    *)
(* connection c (0: none): req.access() throwing once freed() released     *)
(* req (the Request's lifetime is Request's model), the throw for no       *)
(* connection, or a non-owning Connection the application keeps in slot s. *)
GetConnection(s, c) ==
    /\ wr[s].con = 0
    /\ \/ /\ err' = "NullHandle"
          /\ UNCHANGED wr
       \/ /\ c = 0
          /\ err' = "NoConnection"
          /\ UNCHANGED wr
       \/ /\ c # 0
          /\ conState[c] = "live"
          /\ wr' = [wr EXCEPT ![s] = [con |-> c, deallocate |-> FALSE]]
          /\ err' = "ok"
    /\ UNCHANGED <<conState, owner, frees, peerInfo, got, gotFor, requests,
                   closed, openssl, knobVars>>

(* Destroying the application's Connection in slot s.                      *)
Destroy(s) ==
    /\ wr[s].con # 0
    /\ Release(wr[s].con, wr[s].deallocate)
    /\ wr' = [wr EXCEPT ![s] = [con |-> 0, deallocate |-> FALSE]]
    /\ UNCHANGED <<owner, peerInfo, got, gotFor, requests, closed, err,
                   openssl, knobVars>>

Next ==
    \/ \E c \in Conns : Accept(c) \/ TransportClose(c) \/ ClientAddress(c)
    \/ \E s \in Slots, c \in Conns :
          \/ CreateOutbound(s, c)
          \/ \E https, sslCtx \in BOOLEAN : CreateFromURI(s, c, https, sslCtx)
    \/ \E s \in Slots :
          \/ WrapNull(s)
          \/ GetPeer(s)
          \/ Destroy(s)
          \/ \E m \in Methods : MakeRequest(s, m)
          \/ GetBufferEvent(s)
          \/ \E k \in Knobs, v \in KnobValues : SetKnob(s, k, v)
          \/ \E n \in RetryArgs : SetKnob(s, "retries", n)
          \/ \E ip \in LocalIPs, p \in LocalPorts : SetLocalAddress(s, ip, p)
          \/ \E c \in 0..MaxConns : GetConnection(s, c)

Spec == Init /\ [][Next]_vars

-----------------------------------------------------------------------------
(* Properties                                                               *)

(* Ownership: every transport connection is freed at most once, a         *)
(* connection libevent owns is never freed by a Connection, and the        *)
(* connection of every owning Connection stays live while that Connection  *)
(* exists and is freed when it goes: ~Connection, the non-owning views of  *)
(* Request and the constructors' failure paths never free what they do not *)
(* own.                                                                     *)
OwnershipSafety ==
    /\ \A c \in Conns : frees[c] <= 1
    /\ \A s \in Slots : wr[s].con # 0 /\ wr[s].deallocate =>
          /\ conState[wr[s].con] = "live"
          /\ owner[wr[s].con] = "app"
    /\ \A c \in Conns : owner[c] = "app" =>
          (conState[c] = "live" <=>
              \E s \in Slots : wr[s].con = c /\ wr[s].deallocate)

SettingsAsAsked == \A c \in Conns : setting[c] = asked[c]

(* spec.md 4.7: the peer address is the one the transport reports, with   *)
(* the raw IPv4 socket address as a fallback: the port getPeer() returns   *)
(* is the peer's port.                                                      *)
PeerPortIsPeers ==
    got.known => got.port = peerInfo[gotFor].port

=============================================================================
