------------------------- MODULE ConnectionProofs -------------------------
(***************************************************************************)
(* Proofs about Connection for every number of connections and slots and  *)
(* every width of int: type correctness and ownership.                     *)
(***************************************************************************)
EXTENDS Connection, TLAPS

(* The Connection in slot s owns its connection.                           *)
Owning(w, s) == w[s].con # 0 /\ w[s].deallocate

(* OwnershipSafety strengthened.  A connection has been freed exactly when *)
(* its count is 1; one libevent owns is freed exactly when libevent has    *)
(* closed it; an unused one belongs to libevent; and no two owning         *)
(* Connections share a connection.                                          *)
OwnInv ==
    /\ \A c \in Conns : frees[c] = IF conState[c] = "freed" THEN 1 ELSE 0
    /\ \A c \in Conns :
          owner[c] = "transport" => (conState[c] = "freed" <=> c \in closed)
    /\ \A c \in Conns : conState[c] = "unused" => owner[c] = "transport"
    /\ \A s, t \in Slots :
          Owning(wr, s) /\ Owning(wr, t) /\ wr[s].con = wr[t].con => s = t
    /\ OwnershipSafety

IInv == TypeOK /\ OwnInv

ownVars == <<conState, owner, frees, wr, closed>>

-----------------------------------------------------------------------------
(* setRetries()'s unsigned-to-int conversion lands in int.                 *)
LEMMA ToIntRange ==
    ASSUME NEW n \in UInts
    PROVE  ToInt(n) \in Ints
BY ConnectionAssumption DEF ToInt, Ints, UInts, UIntMax

(* What getPeer() computes is an IPAddress of the type of `got`: the      *)
(* byte swap of a port is a port.                                          *)
LEMMA GetPeerType ==
    ASSUME NEW info \in PeerInfos
    PROVE  GetPeerOf(info) \in [port : PortNumbers, known : BOOLEAN]
<1> DEFINE p == info.port
<1>0. p \in PortNumbers
  BY ConnectionAssumption DEF PeerInfos
<1>1. p \in Int /\ 0 <= p /\ p <= 65535
  BY <1>0 DEF PortNumbers
<1>2. p \div 256 \in Int /\ 0 <= p \div 256 /\ p \div 256 <= 255
  BY <1>1
<1>3. p % 256 \in Int /\ 0 <= p % 256 /\ p % 256 <= 255
  BY <1>1
<1>4. SinPort(p) \in PortNumbers
  BY <1>1, <1>2, <1>3 DEF SinPort, Swap16, PortNumbers
<1>5. QED
  BY <1>1, <1>4 DEF GetPeerOf, NoPeer, PortNumbers

(* A step that leaves the ownership variables alone keeps OwnInv.          *)
LEMMA OwnershipFrame ==
    ASSUME OwnInv, UNCHANGED ownVars
    PROVE  OwnInv'
BY DEF OwnInv, OwnershipSafety, Owning, ownVars

LEMMA InitIInv == Init => IInv
<1> SUFFICES ASSUME Init PROVE IInv
  OBVIOUS
<1>1. TypeOK
  <2>1. NoPeer \in [port : PortNumbers, known : BOOLEAN]
    BY DEF NoPeer, PortNumbers
  <2>2. Defaults \in Settings(Ints) /\ Defaults \in Settings(UInts)
    BY ConnectionAssumption DEF Defaults, Settings, KnobRange, Ints, UInts,
                                UIntMax
  <2>3. wr \in [Slots -> [con : 0..MaxConns, deallocate : BOOLEAN]]
    BY ConnectionAssumption DEF Init
  <2>4. /\ conState \in [Conns -> {"unused", "live", "freed"}]
        /\ owner \in [Conns -> {"transport", "app"}]
        /\ frees \in [Conns -> 0..2]
        /\ requests \in [Conns -> 0..MaxRequests]
        /\ closed \subseteq Conns
    BY DEF Init, MaxRequests
  <2>5. /\ setting \in [Conns -> Settings(Ints)]
        /\ asked \in [Conns -> Settings(UInts)]
    BY <2>2 DEF Init
  <2>6. /\ got \in [port : PortNumbers, known : BOOLEAN]
        /\ gotFor \in 0..MaxConns
        /\ err \in Errors
    BY <2>1, ConnectionAssumption DEF Init, Errors
  <2>7. QED
    BY <2>3, <2>4, <2>5, <2>6 DEF Init, TypeOK
<1>2. OwnInv
  BY DEF Init, OwnInv, OwnershipSafety, Owning
<1>3. QED
  BY <1>1, <1>2 DEF IInv

-----------------------------------------------------------------------------
(* The Connection in a slot that passes Live holds a connection.           *)
LEMMA LiveCon ==
    ASSUME TypeOK, NEW s \in Slots, Live(s)
    PROVE  wr[s].con \in Conns
BY DEF TypeOK, Live, Conns

(* getPeer() changes only the address it returns.                          *)
LEMMA GetPeerStep ==
    ASSUME IInv, NEW s \in Slots, GetPeer(s)
    PROVE  IInv'
<1>1. wr[s].con \in Conns
  BY LiveCon DEF IInv, GetPeer
<1>2. GetPeerOf(peerInfo[wr[s].con]) \in [port : PortNumbers, known : BOOLEAN]
  BY <1>1, GetPeerType DEF IInv, TypeOK
<1>3. TypeOK'
  BY <1>1, <1>2, Zenon DEF IInv, TypeOK, knobVars, GetPeer
<1>4. OwnInv'
  BY OwnershipFrame DEF IInv, GetPeer, ownVars, knobVars
<1>5. QED
  BY <1>3, <1>4 DEF IInv

(* makeRequest() counts the requests libevent accepted, up to the bound.   *)
LEMMA MakeRequestStep ==
    ASSUME IInv, NEW s \in Slots, NEW m, MakeRequest(s, m)
    PROVE  IInv'
<1>1. wr[s].con \in Conns
  BY LiveCon DEF IInv, MakeRequest
<1>2. requests' \in [Conns -> 0..MaxRequests]
  <2>1. requests \in [Conns -> 0..MaxRequests]
    BY DEF IInv, TypeOK
  <2>2. QED
    BY <1>1, <2>1 DEF MakeRequest, MaxRequests
<1>3. err' \in Errors
  BY DEF MakeRequest, Errors, knobVars
<1>4. TypeOK'
  BY <1>2, <1>3, Zenon DEF IInv, TypeOK, knobVars, MakeRequest
<1>5. OwnInv'
  BY OwnershipFrame DEF IInv, MakeRequest, ownVars, knobVars
<1>6. QED
  BY <1>4, <1>5 DEF IInv

(* getBufferEvent() and Connection(NULL, ...) change neither ownership nor *)
(* any typed state but err.                                                 *)
LEMMA QuietStep ==
    ASSUME IInv, NEW s \in Slots,
           GetBufferEvent(s) \/ WrapNull(s)
    PROVE  IInv'
<1>0. err \in Errors
  BY DEF IInv, TypeOK
<1>1. err' \in Errors
  BY <1>0 DEF GetBufferEvent, WrapNull, Errors, knobVars
<1>2. TypeOK'
  BY <1>1, Zenon DEF IInv, TypeOK, knobVars, GetBufferEvent, WrapNull
<1>3. OwnInv'
  BY OwnershipFrame DEF IInv, GetBufferEvent, WrapNull, ownVars, knobVars
<1>4. QED
  BY <1>2, <1>3 DEF IInv

(* A step that changes no connection's state, owner, count or closing,    *)
(* and changes no owning Connection, keeps OwnInv.                          *)
LEMMA OwningFrame ==
    ASSUME OwnInv, UNCHANGED <<conState, owner, frees, closed>>,
           \A t \in Slots :
              (wr[t].con # 0 /\ wr[t].deallocate) \/
              (wr'[t].con # 0 /\ wr'[t].deallocate) => wr'[t] = wr[t]
    PROVE  OwnInv'
<1>0. \A t \in Slots : /\ Owning(wr', t) <=> Owning(wr, t)
                      /\ Owning(wr, t) => wr'[t] = wr[t]
  BY DEF Owning
<1>1. \A c \in Conns : frees'[c] = IF conState'[c] = "freed" THEN 1 ELSE 0
  BY DEF OwnInv
<1>2. \A c \in Conns :
         owner'[c] = "transport" => (conState'[c] = "freed" <=> c \in closed')
  BY DEF OwnInv
<1>3. \A c \in Conns : conState'[c] = "unused" => owner'[c] = "transport"
  BY DEF OwnInv
<1>4. \A s, t \in Slots :
         Owning(wr', s) /\ Owning(wr', t) /\ wr'[s].con = wr'[t].con => s = t
  <2> SUFFICES ASSUME NEW s \in Slots, NEW t \in Slots,
                      Owning(wr', s), Owning(wr', t), wr'[s].con = wr'[t].con
               PROVE  s = t
    OBVIOUS
  <2>1. Owning(wr, s) /\ Owning(wr, t) /\ wr[s].con = wr[t].con
    BY DEF Owning
  <2>2. QED
    BY <2>1 DEF OwnInv
<1>5. \A c \in Conns : frees'[c] <= 1
  BY DEF OwnInv, OwnershipSafety
<1>6. \A s \in Slots : Owning(wr', s) =>
         conState'[wr'[s].con] = "live" /\ owner'[wr'[s].con] = "app"
  BY <1>0 DEF OwnInv, OwnershipSafety, Owning
<1>7. \A c \in Conns : owner'[c] = "app" =>
         (conState'[c] = "live" <=> \E s \in Slots : Owning(wr', s) /\ wr'[s].con = c)
  <2> SUFFICES ASSUME NEW c \in Conns, owner'[c] = "app"
               PROVE  conState'[c] = "live" <=>
                         \E s \in Slots : Owning(wr', s) /\ wr'[s].con = c
    OBVIOUS
  <2>1. (\E s \in Slots : Owning(wr', s) /\ wr'[s].con = c) <=>
           \E s \in Slots : Owning(wr, s) /\ wr[s].con = c
    <3>1. ASSUME NEW s \in Slots
          PROVE  Owning(wr', s) /\ wr'[s].con = c <=> Owning(wr, s) /\ wr[s].con = c
      BY DEF Owning
    <3>2. QED
      BY <3>1
  <2>2. conState[c] = "live" <=> \E s \in Slots : Owning(wr, s) /\ wr[s].con = c
    BY DEF OwnInv, OwnershipSafety, Owning, Conns
  <2>3. QED
    BY <2>1, <2>2
<1>8. QED
  BY <1>1, <1>2, <1>3, <1>4, <1>5, <1>6, <1>7
     DEF OwnInv, OwnershipSafety, Owning, Conns

(* getConnection() makes a non-owning Connection, or throws.               *)
LEMMA GetConnectionStep ==
    ASSUME IInv, NEW s \in Slots, NEW c \in 0..MaxConns, GetConnection(s, c)
    PROVE  IInv'
<1> DEFINE view == [con |-> c, deallocate |-> FALSE]
<1>0. /\ wr[s].con = 0
      /\ wr' = wr \/ wr' = [wr EXCEPT ![s] = view]
  BY DEF GetConnection
<1>a. wr \in [Slots -> [con : 0..MaxConns, deallocate : BOOLEAN]]
  BY DEF IInv, TypeOK
<1>1. wr' \in [Slots -> [con : 0..MaxConns, deallocate : BOOLEAN]]
  <2>1. view \in [con : 0..MaxConns, deallocate : BOOLEAN]
    OBVIOUS
  <2>2. QED
    BY <1>0, <1>a, <2>1
<1>2. err' \in Errors
  BY DEF GetConnection, Errors
<1>3. TypeOK'
  BY <1>1, <1>2, Zenon DEF IInv, TypeOK, knobVars, GetConnection
<1>4. \A t \in Slots :
         (wr[t].con # 0 /\ wr[t].deallocate) \/
         (wr'[t].con # 0 /\ wr'[t].deallocate) => wr'[t] = wr[t]
  BY <1>0, <1>a
<1>5. UNCHANGED <<conState, owner, frees, closed>>
  BY DEF GetConnection
<1>6. OwnInv
  BY DEF IInv
<1>7. OwnInv'
  BY <1>4, <1>5, <1>6, OwningFrame
<1>8. QED
  BY <1>3, <1>7 DEF IInv

(* Request's client-address view reads the peer and frees nothing.        *)
LEMMA ClientAddressStep ==
    ASSUME IInv, NEW c \in Conns, ClientAddress(c)
    PROVE  IInv'
<1>1. GetPeerOf(peerInfo[c]) \in [port : PortNumbers, known : BOOLEAN]
  BY GetPeerType DEF IInv, TypeOK
<1>2. gotFor' \in 0..MaxConns
  BY DEF ClientAddress, Conns
<1>5. TypeOK'
  BY <1>1, <1>2, Zenon DEF IInv, TypeOK, knobVars, ClientAddress, Release
<1>3. OwnInv'
  BY OwnershipFrame DEF IInv, ClientAddress, Release, ownVars
<1>4. QED
  BY <1>5, <1>3 DEF IInv

(* A setter changes one setting of its Connection's connection: what      *)
(* libevent holds stays an int, what was asked an unsigned.                 *)
LEMMA SetKnobStep ==
    ASSUME IInv, NEW s \in Slots, NEW k, NEW v, SetKnob(s, k, v),
           \/ k \in Knobs /\ v \in KnobValues
           \/ k = "retries" /\ v \in RetryArgs
    PROVE  IInv'
<1> DEFINE c == wr[s].con
<1>1. c \in Conns
  BY LiveCon DEF IInv, SetKnob
<1>2. setting[c] \in Settings(Ints) /\ asked[c] \in Settings(UInts)
  BY <1>1 DEF IInv, TypeOK
<1>3. /\ [setting[c] EXCEPT ![k] = Forwarded(k, v)] \in Settings(Ints)
      /\ [asked[c] EXCEPT ![k] = v] \in Settings(UInts)
  <2>1. CASE k \in Knobs /\ v \in KnobValues
    <3>1. Forwarded(k, v) = v /\ v \in KnobRange
      BY <2>1, ConnectionAssumption DEF Forwarded, KnobRange
    <3>2. QED
      BY <1>2, <2>1, <3>1, ConnectionAssumption DEF Settings
  <2>2. CASE k = "retries" /\ v \in RetryArgs
    <3>1. v \in UInts /\ Forwarded(k, v) \in Ints
      BY <2>2, ToIntRange, ConnectionAssumption DEF Forwarded
    <3>2. QED
      BY <1>2, <2>2, <3>1 DEF Settings
  <2>3. QED
    BY <2>1, <2>2
<1>4. /\ setting' = [setting EXCEPT ![c] = [setting[c] EXCEPT ![k] = Forwarded(k, v)]]
      /\ asked' = [asked EXCEPT ![c] = [asked[c] EXCEPT ![k] = v]]
  BY DEF SetKnob
<1>5. setting' \in [Conns -> Settings(Ints)] /\ asked' \in [Conns -> Settings(UInts)]
  BY <1>1, <1>3, <1>4 DEF IInv, TypeOK
<1>6. TypeOK'
  BY <1>5, Zenon DEF IInv, TypeOK, SetKnob
<1>7. OwnInv'
  BY OwnershipFrame DEF IInv, SetKnob, ownVars
<1>8. QED
  BY <1>6, <1>7 DEF IInv

(* setLocalAddress() changes the local address of its Connection's         *)
(* connection.                                                              *)
LEMMA SetLocalAddressStep ==
    ASSUME IInv, NEW s \in Slots, NEW ip \in LocalIPs, NEW port \in LocalPorts,
           SetLocalAddress(s, ip, port)
    PROVE  IInv'
<1> DEFINE c == wr[s].con
<1>1. c \in Conns
  BY LiveCon DEF IInv, SetLocalAddress
<1>2. setting[c] \in Settings(Ints) /\ asked[c] \in Settings(UInts)
  BY <1>1 DEF IInv, TypeOK
<1>3. /\ setting' = [setting EXCEPT ![c] = [setting[c] EXCEPT
                        !.ip = IF ip # 0 THEN ip ELSE setting[c].ip,
                        !.port = IF port # 0 THEN port ELSE setting[c].port]]
      /\ asked' = [asked EXCEPT ![c] = [asked[c] EXCEPT !.ip = ip, !.port = port]]
  BY DEF SetLocalAddress
<1>4. setting' \in [Conns -> Settings(Ints)] /\ asked' \in [Conns -> Settings(UInts)]
  BY <1>1, <1>2, <1>3 DEF IInv, TypeOK, Settings
<1>5. TypeOK'
  BY <1>4, Zenon DEF IInv, TypeOK, SetLocalAddress
<1>6. OwnInv'
  BY OwnershipFrame DEF IInv, SetLocalAddress, ownVars
<1>7. QED
  BY <1>5, <1>6 DEF IInv

(* libevent accepting an inbound connection: an unused connection, which   *)
(* libevent owns and has not closed, becomes live.                          *)
LEMMA AcceptStep ==
    ASSUME IInv, NEW c \in Conns, Accept(c)
    PROVE  IInv'
<1>1. TypeOK'
  BY Zenon DEF IInv, TypeOK, Accept, knobVars
<1>2. owner[c] = "transport" /\ c \notin closed /\ frees[c] = 0
  BY DEF IInv, OwnInv, Accept
<1>3. \A s \in Slots : Owning(wr, s) => wr[s].con # c
  BY DEF IInv, OwnInv, OwnershipSafety, Owning, Accept
<1>4. OwnInv'
  BY <1>2, <1>3 DEF IInv, TypeOK, OwnInv, OwnershipSafety, Owning, Accept
<1>5. QED
  BY <1>1, <1>4 DEF IInv

(* libevent closing and freeing a connection it owns: it is freed once.    *)
LEMMA TransportCloseStep ==
    ASSUME IInv, NEW c \in Conns, TransportClose(c)
    PROVE  IInv'
<1>1. conState[c] = "live" /\ frees[c] = 0
  BY DEF IInv, TypeOK, OwnInv, TransportClose
<1>a. /\ conState' \in [Conns -> {"unused", "live", "freed"}]
      /\ frees' \in [Conns -> 0..2]
      /\ closed' \subseteq Conns
  BY <1>1 DEF IInv, TypeOK, TransportClose
<1>2. TypeOK'
  BY <1>a, Zenon DEF IInv, TypeOK, TransportClose, knobVars
<1>3. \A s \in Slots : Owning(wr, s) => wr[s].con # c
  BY DEF IInv, OwnInv, OwnershipSafety, Owning, TransportClose
<1>4. OwnInv'
  BY <1>1, <1>3 DEF IInv, TypeOK, OwnInv, OwnershipSafety, Owning,
                    TransportClose
<1>5. QED
  BY <1>2, <1>4 DEF IInv

(* A constructor's new connection c, owned by the Connection in the empty  *)
(* slot s: no other Connection holds c, since c was unused.                 *)
LEMMA CreatedStep ==
    ASSUME IInv, NEW s \in Slots, NEW c \in Conns,
           wr[s].con = 0, conState[c] = "unused", Created(s, c),
           UNCHANGED <<frees, peerInfo, got, gotFor, requests, closed, openssl,
                       knobVars>>
    PROVE  IInv'
<1>1. frees[c] = 0 /\ owner[c] = "transport"
  BY DEF IInv, OwnInv
<1>2. \A t \in Slots : Owning(wr, t) => wr[t].con # c
  BY DEF IInv, OwnInv, OwnershipSafety, Owning
<1>3. wr \in [Slots -> [con : 0..MaxConns, deallocate : BOOLEAN]]
  BY DEF IInv, TypeOK
<1>0. /\ conState \in [Conns -> {"unused", "live", "freed"}]
      /\ owner \in [Conns -> {"transport", "app"}]
  BY DEF IInv, TypeOK
<1>4. /\ wr'[s] = [con |-> c, deallocate |-> TRUE]
      /\ \A t \in Slots \ {s} : wr'[t] = wr[t]
      /\ Owning(wr', s) /\ ~Owning(wr, s)
  <2>1. wr' = [wr EXCEPT ![s] = [con |-> c, deallocate |-> TRUE]]
    BY DEF Created
  <2>2. wr'[s] = [con |-> c, deallocate |-> TRUE]
    BY <1>3, <2>1
  <2>3. \A t \in Slots \ {s} : wr'[t] = wr[t]
    BY <1>3, <2>1
  <2>4. Owning(wr', s) /\ ~Owning(wr, s)
    BY <2>2 DEF Owning, Conns
  <2>5. QED
    BY <2>2, <2>3, <2>4
<1>5. TypeOK'
  <2>1. /\ conState' \in [Conns -> {"unused", "live", "freed"}]
        /\ owner' \in [Conns -> {"transport", "app"}]
        /\ wr' \in [Slots -> [con : 0..MaxConns, deallocate : BOOLEAN]]
        /\ err' \in Errors
    BY <1>3 DEF IInv, TypeOK, Created, Conns, Errors
  <2>2. QED
    BY <2>1, Zenon DEF IInv, TypeOK, knobVars
<1>6. ASSUME NEW t \in Slots, Owning(wr', t), t # s
      PROVE  Owning(wr, t) /\ wr'[t] = wr[t] /\ wr[t].con # c
  BY <1>2, <1>4, <1>6 DEF Owning
<1>7. OwnInv'
  <2>1. \A d \in Conns : frees'[d] = IF conState'[d] = "freed" THEN 1 ELSE 0
    BY <1>1 DEF IInv, OwnInv, Created
  <2>2. \A d \in Conns : owner'[d] = "transport" =>
                           (conState'[d] = "freed" <=> d \in closed')
    BY DEF IInv, OwnInv, Created
  <2>3. \A d \in Conns : conState'[d] = "unused" => owner'[d] = "transport"
    BY <1>0 DEF IInv, OwnInv, Created
  <2>4. \A u, t \in Slots :
           Owning(wr', u) /\ Owning(wr', t) /\ wr'[u].con = wr'[t].con => u = t
    BY <1>4, <1>6 DEF IInv, OwnInv
  <2>5. \A d \in Conns : frees'[d] <= 1
    BY DEF IInv, OwnInv, OwnershipSafety
  <2>6. \A t \in Slots : Owning(wr', t) =>
           conState'[wr'[t].con] = "live" /\ owner'[wr'[t].con] = "app"
    BY <1>0, <1>4, <1>6 DEF IInv, OwnInv, OwnershipSafety, Owning, Created
  <2>7. \A d \in Conns : owner'[d] = "app" =>
           (conState'[d] = "live" <=>
               \E t \in Slots : Owning(wr', t) /\ wr'[t].con = d)
    <3> SUFFICES ASSUME NEW d \in Conns, owner'[d] = "app"
                 PROVE  conState'[d] = "live" <=>
                           \E t \in Slots : Owning(wr', t) /\ wr'[t].con = d
      OBVIOUS
    <3>1. CASE d = c
      BY <1>0, <1>4, <3>1 DEF Created
    <3>2. CASE d # c
      <4>1. owner[d] = "app" /\ conState'[d] = conState[d]
        BY <1>0, <3>2 DEF Created
      <4>2. conState[d] = "live" <=>
               \E t \in Slots : Owning(wr, t) /\ wr[t].con = d
        BY <4>1 DEF IInv, OwnInv, OwnershipSafety, Owning, Conns
      <4>3. (\E t \in Slots : Owning(wr', t) /\ wr'[t].con = d) <=>
               \E t \in Slots : Owning(wr, t) /\ wr[t].con = d
        BY <1>4, <1>6, <3>2 DEF Owning
      <4>4. QED
        BY <4>1, <4>2, <4>3
    <3>3. QED
      BY <3>1, <3>2
  <2>8. QED
    BY <2>1, <2>2, <2>3, <2>4, <2>5, <2>6, <2>7
       DEF OwnInv, OwnershipSafety, Owning, Conns
<1>8. QED
  BY <1>5, <1>7 DEF IInv

(* A call that only throws keeps IInv.                                      *)
LEMMA ThrowStep ==
    ASSUME IInv, err' \in Errors,
           UNCHANGED <<conState, owner, frees, peerInfo, wr, got, gotFor,
                       requests, closed, openssl, knobVars>>
    PROVE  IInv'
<1>1. TypeOK'
  BY Zenon DEF IInv, TypeOK, knobVars
<1>2. OwnInv'
  BY OwnershipFrame DEF IInv, ownVars
<1>3. QED
  BY <1>1, <1>2 DEF IInv

(* The constructors from a base: a new owned connection, or a throw.       *)
LEMMA CreateOutboundStep ==
    ASSUME IInv, NEW s \in Slots, NEW c \in Conns, CreateOutbound(s, c)
    PROVE  IInv'
<1>1. CASE Created(s, c)
  BY <1>1, CreatedStep DEF CreateOutbound
<1>2. CASE err' = "CreateFailed" /\ UNCHANGED <<conState, owner, wr>>
  BY <1>2, ThrowStep DEF CreateOutbound, Errors
<1>3. QED
  BY <1>1, <1>2 DEF CreateOutbound

(* The constructor from a URI: the https checks throw, or as above.        *)
LEMMA CreateFromURIStep ==
    ASSUME IInv, NEW s \in Slots, NEW c \in Conns, NEW https, NEW sslCtx,
           CreateFromURI(s, c, https, sslCtx)
    PROVE  IInv'
<1>1. CASE Created(s, c)
  BY <1>1, CreatedStep DEF CreateFromURI
<1>2. CASE ~Created(s, c)
  <2>1. err' \in Errors /\ UNCHANGED <<conState, owner, wr>>
    BY <1>2 DEF CreateFromURI, Errors
  <2>2. QED
    BY <2>1, ThrowStep DEF CreateFromURI
<1>3. QED
  BY <1>1, <1>2

(* ~Connection: an owning Connection frees its live connection, which no   *)
(* other Connection owns; a view frees nothing.                             *)
LEMMA DestroyStep ==
    ASSUME IInv, NEW s \in Slots, Destroy(s)
    PROVE  IInv'
<1> DEFINE d == wr[s].con
           empty == [con |-> 0, deallocate |-> FALSE]
<1>0. /\ wr \in [Slots -> [con : 0..MaxConns, deallocate : BOOLEAN]]
      /\ conState \in [Conns -> {"unused", "live", "freed"}]
      /\ frees \in [Conns -> 0..2]
  BY DEF IInv, TypeOK
<1>1. /\ d \in Conns
      /\ wr' = [wr EXCEPT ![s] = empty]
      /\ wr'[s] = empty
      /\ \A t \in Slots \ {s} : wr'[t] = wr[t]
  BY <1>0 DEF Destroy, Conns
<1>2. wr' \in [Slots -> [con : 0..MaxConns, deallocate : BOOLEAN]]
  BY <1>0, <1>1, ConnectionAssumption
<1>3. CASE wr[s].deallocate
  <2>1. Owning(wr, s) /\ conState[d] = "live" /\ owner[d] = "app" /\ frees[d] = 0
    BY <1>1, <1>3 DEF IInv, OwnInv, OwnershipSafety, Owning, Conns
  <2>2. /\ frees' = [frees EXCEPT ![d] = @ + 1]
        /\ conState' = [conState EXCEPT ![d] = "freed"]
        /\ UNCHANGED <<owner, closed>>
    BY <1>3 DEF Destroy, Release
  <2>3. \A t \in Slots \ {s} : Owning(wr, t) => wr[t].con # d
    BY <2>1 DEF IInv, OwnInv
  <2>4. TypeOK'
    <3>1. frees' \in [Conns -> 0..2] /\ conState' \in [Conns -> {"unused", "live", "freed"}]
      BY <1>0, <1>1, <2>1, <2>2
    <3>2. QED
      BY <1>2, <3>1, Zenon DEF IInv, TypeOK, Destroy, knobVars
  <2>5. ~Owning(wr', s) /\ \A t \in Slots \ {s} : Owning(wr', t) <=> Owning(wr, t)
    BY <1>1 DEF Owning
  <2>6. OwnInv'
    <3>1. \A c \in Conns : frees'[c] = IF conState'[c] = "freed" THEN 1 ELSE 0
      BY <1>0, <1>1, <2>1, <2>2 DEF IInv, OwnInv
    <3>2. \A c \in Conns : owner'[c] = "transport" =>
                             (conState'[c] = "freed" <=> c \in closed')
      BY <1>0, <1>1, <2>1, <2>2 DEF IInv, OwnInv
    <3>3. \A c \in Conns : conState'[c] = "unused" => owner'[c] = "transport"
      BY <1>0, <1>1, <2>2 DEF IInv, OwnInv
    <3>4. \A u, t \in Slots :
             Owning(wr', u) /\ Owning(wr', t) /\ wr'[u].con = wr'[t].con => u = t
      BY <1>1, <2>5 DEF IInv, OwnInv
    <3>5. \A c \in Conns : frees'[c] <= 1
      BY <1>0, <1>1, <2>1, <2>2 DEF IInv, OwnInv, OwnershipSafety
    <3>6. \A t \in Slots : Owning(wr', t) =>
             conState'[wr'[t].con] = "live" /\ owner'[wr'[t].con] = "app"
      BY <1>0, <1>1, <2>2, <2>3, <2>5 DEF IInv, OwnInv, OwnershipSafety, Owning
    <3>7. \A c \in Conns : owner'[c] = "app" =>
             (conState'[c] = "live" <=>
                 \E t \in Slots : Owning(wr', t) /\ wr'[t].con = c)
      <4> SUFFICES ASSUME NEW c \in Conns, owner'[c] = "app"
                   PROVE  conState'[c] = "live" <=>
                             \E t \in Slots : Owning(wr', t) /\ wr'[t].con = c
        OBVIOUS
      <4>1. CASE c = d
        BY <1>0, <1>1, <2>2, <2>3, <2>5, <4>1
      <4>2. CASE c # d
        <5>1. owner[c] = "app" /\ conState'[c] = conState[c]
          BY <1>0, <2>2, <4>2
        <5>2. conState[c] = "live" <=>
                 \E t \in Slots : Owning(wr, t) /\ wr[t].con = c
          BY <5>1 DEF IInv, OwnInv, OwnershipSafety, Owning, Conns
        <5>3. (\E t \in Slots : Owning(wr', t) /\ wr'[t].con = c) <=>
                 \E t \in Slots : Owning(wr, t) /\ wr[t].con = c
          BY <1>1, <2>5, <4>2
        <5>4. QED
          BY <5>1, <5>2, <5>3
      <4>3. QED
        BY <4>1, <4>2
    <3>8. QED
      BY <3>1, <3>2, <3>3, <3>4, <3>5, <3>6, <3>7
         DEF OwnInv, OwnershipSafety, Owning, Conns
  <2>7. QED
    BY <2>4, <2>6 DEF IInv
<1>4. CASE ~wr[s].deallocate
  <2>1. UNCHANGED <<conState, owner, frees, closed>>
    BY <1>4 DEF Destroy, Release
  <2>2. TypeOK'
    BY <1>2, <2>1, Zenon DEF IInv, TypeOK, Destroy, knobVars
  <2>3. \A t \in Slots :
           (wr[t].con # 0 /\ wr[t].deallocate) \/
           (wr'[t].con # 0 /\ wr'[t].deallocate) => wr'[t] = wr[t]
    BY <1>1, <1>4
  <2>4. OwnInv'
    BY <2>1, <2>3, OwningFrame DEF IInv
  <2>5. QED
    BY <2>2, <2>4 DEF IInv
<1>5. QED
  BY <1>3, <1>4

-----------------------------------------------------------------------------
(* Every step of Next, and every stutter, keeps IInv.                       *)
LEMMA NextStep ==
    ASSUME IInv, [Next]_vars
    PROVE  IInv'
<1>1. CASE \E c \in Conns : Accept(c) \/ TransportClose(c) \/ ClientAddress(c)
  BY <1>1, AcceptStep, TransportCloseStep, ClientAddressStep
<1>2. CASE \E s \in Slots, c \in Conns :
             \/ CreateOutbound(s, c)
             \/ \E https, sslCtx \in BOOLEAN : CreateFromURI(s, c, https, sslCtx)
  BY <1>2, CreateOutboundStep, CreateFromURIStep
<1>3. CASE \E s \in Slots :
             \/ WrapNull(s)
             \/ GetPeer(s)
             \/ Destroy(s)
             \/ \E m \in Methods : MakeRequest(s, m)
             \/ GetBufferEvent(s)
             \/ \E k \in Knobs, v \in KnobValues : SetKnob(s, k, v)
             \/ \E n \in RetryArgs : SetKnob(s, "retries", n)
             \/ \E ip \in LocalIPs, p \in LocalPorts : SetLocalAddress(s, ip, p)
             \/ \E c \in 0..MaxConns : GetConnection(s, c)
  BY <1>3, QuietStep, GetPeerStep, DestroyStep, MakeRequestStep, SetKnobStep,
     SetLocalAddressStep, GetConnectionStep
<1>4. CASE UNCHANGED vars
  <2>1. TypeOK'
    BY <1>4, Zenon DEF IInv, TypeOK, vars, knobVars
  <2>2. OwnInv'
    BY <1>4, OwnershipFrame DEF IInv, vars, ownVars
  <2>3. QED
    BY <2>1, <2>2 DEF IInv
<1>5. QED
  BY <1>1, <1>2, <1>3, <1>4 DEF Next

(* IInv holds in every reachable state.                                    *)
LEMMA IInvariant == Spec => []IInv
BY InitIInv, NextStep, PTL DEF Spec

(* Type correctness of Connection, for every number of connections and    *)
(* slots and every width of int: in particular the port getPeer() returns  *)
(* after the byte swap is a port, and a setRetries() value forwarded to     *)
(* libevent is an int.                                                      *)
THEOREM TypeCorrect == Spec => []TypeOK
BY IInvariant, PTL DEF IInv

(* OwnershipSafety for every number of connections and slots: no          *)
(* connection is freed twice, libevent's connections are never freed by a  *)
(* Connection, and an owning Connection's connection is live exactly while *)
(* that Connection exists (~Connection, Request's views, the constructors' *)
(* failure paths).                                                          *)
THEOREM OwnershipSafe == Spec => []OwnershipSafety
BY IInvariant, PTL DEF IInv, OwnInv

=============================================================================
