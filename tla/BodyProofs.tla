----------------------------- MODULE BodyProofs -----------------------------
(***************************************************************************)
(* Proofs about ProxyConn: nothing that is read of a body is missing from  *)
(* what its upstream was given, lone CRLF chunks apart.                    *)
(***************************************************************************)
EXTENDS StreamProofs

\* While a head is read, no upstream is connected for it.
HeadNotConnected == \A c \in Conns : state[c] = "s_head" => ~req[c].connected

\* While an upstream connects, its head is the last its client has read.
HeadIsLastRead ==
  \A u \in Ups : uio[u] = "connecting" => pos[ulink[u]] = from[u]

\* Only a request that is proxied is connected.
ProxyWhenConnected == \A c \in Conns : req[c].connected => req[c].proxy

\* The inductive invariant, next to TypeOK, Safe and StreamSafe.
BodySafe == HeadNotConnected /\ HeadIsLastRead /\ ProxyWhenConnected /\ BodyComplete

LEMMA InitBodySafe == Init => BodySafe
BY DEF Init, BodySafe, HeadNotConnected, HeadIsLastRead, ProxyWhenConnected, BodyComplete, Cleared

\* No write to an upstream in this state has failed.
Unfailed(s) == s \in {"open", "queued", "closing"}

\* An upstream of which a write failed, or that is closed, stays so.
StaysFailed == \A u \in Ups : Unfailed(uio'[u]) => Unfailed(uio[u])

-----------------------------------------------------------------------------
(* The upstream objects.                                                   *)

LEMMA HioCloseFailed == \A s : Unfailed(HioClose(s)) => Unfailed(s)
BY DEF HioClose, Unfailed

LEMMA CloseClientFailed ==
  ASSUME TypeOK, NEW c \in Conns, NEW s, NEW us \in [Ups -> IoStates],
         \A u \in Ups : Unfailed(us[u]) => Unfailed(uio[u]),
         CloseClient(c, s, us)
  PROVE  StaysFailed
<1>1. CASE s = "closed" /\ clink[c] \in Ups
  <2>1. uio' = [us EXCEPT ![clink[c]] = HioClose(us[clink[c]])]
    BY <1>1 DEF CloseClient
  <2>2. \A u \in Ups : uio'[u] = us[u] \/ uio'[u] = HioClose(us[u]) BY <2>1
  <2> QED BY <2>2, HioCloseFailed DEF StaysFailed
<1>2. CASE ~(s = "closed" /\ clink[c] \in Ups)
  <2>1. uio' = us BY <1>2 DEF CloseClient
  <2> QED BY <2>1 DEF StaysFailed
<1> QED BY <1>1, <1>2

LEMMA CloseFailed ==
  ASSUME TypeOK, NEW c \in Conns, NEW s, CloseClient(c, s, uio)
  PROVE  StaysFailed
<1>1. uio \in [Ups -> IoStates] BY DEF TypeOK
<1> QED BY <1>1, CloseClientFailed

LEMMA CloseUpstreamFailed ==
  ASSUME TypeOK, NEW u \in Ups, ulink[u] \in Conns, NEW s \in IoStates,
         Unfailed(s) => Unfailed(uio[u]), CloseUpstream(u, s)
  PROVE  StaysFailed
<1> DEFINE us == [uio EXCEPT ![u] = s]
<1>1. us \in [Ups -> IoStates] BY DEF TypeOK
<1>2. \A v \in Ups : Unfailed(us[v]) => Unfailed(uio[v]) BY DEF TypeOK
<1>3. uio' = us \/ CloseClient(ulink[u], HioClose(cio[ulink[u]]), us)
  BY DEF CloseUpstream
<1> HIDE DEF us
<1>4. CASE uio' = us BY <1>2, <1>4 DEF StaysFailed
<1> QED BY <1>1, <1>2, <1>3, <1>4, CloseClientFailed

LEMMA RefuseFailed ==
  ASSUME TypeOK, NEW c \in Conns, NEW r, Refuse(c, r)
  PROVE  StaysFailed
<1>1. UNCHANGED uio \/ \E s : CloseClient(c, s, uio) BY DEF Refuse
<1> QED BY <1>1, CloseFailed DEF StaysFailed

LEMMA ClientFailed ==
  ASSUME TypeOK, NEW c \in Conns, ClientNext(c), ~Asks(c), ~Gives(c)
  PROVE  StaysFailed
<1>1. CASE UNCHANGED uio BY <1>1 DEF StaysFailed
<1>2. CASE RecvFirstLine(c) \/ RecvHead(c)
  BY <1>1, <1>2, CloseFailed DEF RecvFirstLine, RecvHead, Reject
<1>3. CASE HeadEndFails(c) BY <1>3, CloseFailed DEF HeadEndFails
<1>4. CASE HeadEndSelf(c) BY <1>1, <1>4, RefuseFailed DEF HeadEndSelf
<1>5. CASE RecvRefusedBody(c) BY <1>5, RefuseFailed DEF RecvRefusedBody
<1>6. CASE Attach(c) \/ \E k \in 1..Len(stream[c]) : RecvAfterEnd(c, k)
  BY <1>1, <1>6 DEF Attach, RecvAfterEnd
<1>7. CASE ClientFlushed(c) \/ ClientEof(c) \/ ClientFails(c)
  BY <1>7, CloseFailed DEF ClientFlushed, ClientEof, ClientFails
<1> QED BY <1>2, <1>3, <1>4, <1>5, <1>6, <1>7 DEF ClientNext, OnRecv, Asks, Gives

LEMMA UpstreamFailed ==
  ASSUME TypeOK, Safe, NEW u \in Ups, UpstreamNext(u), ~OnUpstreamConnect(u)
  PROVE  StaysFailed
<1>1. ulink[u] \in Conns BY UpstreamHasClient
<1>2. CASE ConnectFails(u) \/ UpstreamError(u)
  BY <1>1, <1>2, CloseUpstreamFailed DEF ConnectFails, UpstreamError, Unfailed, IoStates
<1>3. CASE UpstreamData(u) BY <1>3 DEF UpstreamData, StaysFailed
<1>4. CASE UpstreamEof(u)
  <2>1. HioClose(uio[u]) \in IoStates BY HioCloseType DEF IoStates
  <2> QED BY <1>1, <1>4, <2>1, HioCloseFailed, CloseUpstreamFailed DEF UpstreamEof
<1>5. CASE UpstreamFlushed(u)
  BY <1>1, <1>5, CloseUpstreamFailed DEF UpstreamFlushed, Unfailed, IoStates
<1> QED BY <1>2, <1>3, <1>4, <1>5 DEF UpstreamNext

-----------------------------------------------------------------------------
(* The head.                                                               *)

LEMMA RefuseLeavesHead ==
  ASSUME TypeOK, NEW c \in Conns, NEW r, Refuse(c, r)
  PROVE  state'[c] \in {"s_first_line", "s_end"} /\ \A d \in Conns \ {c} : state'[d] = state[d]
BY DEF Refuse, NextRequest, TypeOK

\* A client is in a head because it was, or because its first line was read.
LEMMA HeadEntered ==
  ASSUME TypeOK, NEW c \in Conns, ClientNext(c), state'[c] = "s_head"
  PROVE  state[c] \in {"s_first_line", "s_head"}
<1>1. state \in [Conns -> ConnStates] BY DEF TypeOK
<1>2. CASE UNCHANGED state BY <1>2
<1>3. CASE \E x \in ConnStates \ {"s_head"} : state' = [state EXCEPT ![c] = x]
  BY <1>1, <1>3
<1>4. CASE RecvFirstLine(c) \/ RecvHead(c)
  BY <1>4 DEF RecvFirstLine, RecvHead
<1>5. CASE HeadEndFails(c) \/ HeadEndSelf(c) \/ Asks(c)
  BY <1>5 DEF HeadEndFails, HeadEndSelf, Asks, HeadEndConnect, HeadEndConnectFails,
              SetupUpstream, HeadEnd
<1>6. CASE Gives(c)
  BY <1>2, <1>3, <1>6 DEF Gives, RecvBody, NextRequest, ConnStates
<1>7. CASE RecvRefusedBody(c)
  BY <1>7, RefuseLeavesHead DEF RecvRefusedBody
<1>8. CASE \E k \in 1..Len(stream[c]) : RecvAfterEnd(c, k)
  BY <1>2, <1>8 DEF RecvAfterEnd
<1>9. CASE Attach(c) BY <1>1, <1>9 DEF Attach
<1>10. CASE ClientFlushed(c) \/ ClientEof(c) \/ ClientFails(c)
  BY <1>2, <1>10 DEF ClientFlushed, ClientEof, ClientFails, OnlyIosChange, reqVars
<1> QED BY <1>4, <1>5, <1>6, <1>7, <1>8, <1>9, <1>10 DEF ClientNext, OnRecv, Asks, Gives

LEMMA UpstreamLeavesHead ==
  ASSUME TypeOK, Safe, NEW u \in Ups, UpstreamNext(u)
  PROVE  \A d \in Conns : state'[d] = "s_head" => state[d] = "s_head" /\ req'[d] = req[d]
<1>1. CASE OnUpstreamConnect(u)
  <2> DEFINE c == ulink[u]
  <2>1. c \in Conns /\ state[c] \in {"s_body", "s_end"}
    BY <1>1 DEF Safe, ConnectParksClient, OnUpstreamConnect
  <2>2. \/ UNCHANGED state /\ \E b : req' = [req EXCEPT ![c] = b]
        \/ NextRequest(c)
        \/ UNCHANGED <<req, state>>
    BY <1>1 DEF OnUpstreamConnect, HeadWritten, HeadNotWritten
  <2> HIDE DEF c
  <2> QED BY <2>1, <2>2 DEF NextRequest, TypeOK
<1>2. CASE ~OnUpstreamConnect(u)
  BY <1>2 DEF UpstreamNext, ConnectFails, UpstreamData, UpstreamEof, UpstreamError,
              UpstreamFlushed, OnlyIosChange, reqVars
<1> QED BY <1>1, <1>2

LEMMA AttachKeeps ==
  ASSUME TypeOK, NEW c \in Conns, Attach(c)
  PROVE  /\ UNCHANGED <<req, stream, pos, clink, uio, ulink, from, fwd>>
         /\ state'[c] = "s_first_line" /\ \A d \in Conns \ {c} : state'[d] = state[d] /\ cio'[d] = cio[d]
BY DEF Attach, upVars, TypeOK

LEMMA HeadStep ==
  TypeOK /\ Safe /\ StreamSafe /\ HeadNotConnected /\ [Next]_vars => HeadNotConnected'
<1> SUFFICES ASSUME TypeOK, Safe, StreamSafe, HeadNotConnected, [Next]_vars
             PROVE  HeadNotConnected'
  OBVIOUS
<1>1. ASSUME NEW c \in Conns, ClientNext(c) PROVE HeadNotConnected'
  <2>1. Cleared.connected = FALSE BY DEF Cleared
  <2>2. ASSUME NEW d \in Conns, state'[d] = "s_head" PROVE ~req'[d].connected
    <3>1. CASE Attach(c)
      BY <2>2, <3>1, AttachKeeps DEF HeadNotConnected
    <3>2. CASE ~Attach(c) /\ d # c
      BY <1>1, <2>2, <3>2, ClientGoes DEF HeadNotConnected, Others
    <3>3. CASE ~Attach(c) /\ d = c
      <4>1. state[c] \in {"s_first_line", "s_head"} BY <1>1, <2>2, <3>3, HeadEntered
      <4>2. ~req[c].connected
        BY <2>1, <4>1 DEF HeadNotConnected, StreamSafe, ClearedAtStart
      <4>3. Goes(c) BY <1>1, <3>3, ClientGoes
      <4> QED BY <2>1, <3>3, <4>2, <4>3 DEF Goes
    <3> QED BY <3>1, <3>2, <3>3
  <2> QED BY <2>2 DEF HeadNotConnected
<1>2. ASSUME NEW u \in Ups, UpstreamNext(u) PROVE HeadNotConnected'
  BY <1>2, UpstreamLeavesHead DEF HeadNotConnected
<1>3. CASE UNCHANGED vars BY <1>3 DEF vars, HeadNotConnected
<1> QED BY <1>1, <1>2, <1>3 DEF Next

\* No callback of a client connects a request: it keeps it or resets it.
LEMMA ClientConnectsNone ==
  ASSUME TypeOK, Safe, StreamSafe, HeadNotConnected, NEW c \in Conns, ClientNext(c)
  PROVE  /\ \A d \in Conns \ {c} : req'[d] = req[d]
         /\ req'[c] = req[c] \/ ~req'[c].connected
<1>1. req \in [Conns -> Request] BY DEF TypeOK
<1>2. CASE Attach(c) BY <1>2, AttachKeeps
<1>3. CASE ~Attach(c)
  <2>1. Goes(c) /\ Others(c) BY <1>3, ClientGoes
  <2>2. Cleared.connected = FALSE BY DEF Cleared
  <2>3. CASE UNCHANGED req \/ NextRequest(c)
    BY <1>1, <2>2, <2>3 DEF NextRequest
  <2>4. CASE ~req[c].connected BY <1>1, <2>1, <2>2, <2>4 DEF Goes, Others
  <2>5. CASE RecvFirstLine(c) \/ RecvHead(c) \/ HeadEndFails(c) \/ HeadEndSelf(c) \/ Asks(c)
    <3>1. state[c] \in {"s_first_line", "s_head"}
      BY <2>5 DEF RecvFirstLine, RecvHead, HeadEndFails, HeadEndSelf, HeadEnd, Asks,
                  HeadEndConnect, HeadEndConnectFails, SetupUpstream
    <3>2. ~req[c].connected
      BY <2>2, <3>1 DEF HeadNotConnected, StreamSafe, ClearedAtStart
    <3> QED BY <2>4, <3>2
  <2>6. CASE Gives(c)
    BY <2>3, <2>6 DEF Gives, RecvBody
  <2>7. CASE RecvRefusedBody(c)
    <3>1. NextRequest(c) \/ req' = [req EXCEPT ![c] = req[c]]
      BY <2>7 DEF RecvRefusedBody, Refuse
    <3> QED BY <1>1, <2>3, <3>1
  <2>8. CASE \E k \in 1..Len(stream[c]) : RecvAfterEnd(c, k)
    BY <2>3, <2>8 DEF RecvAfterEnd
  <2>9. CASE ClientFlushed(c) \/ ClientEof(c) \/ ClientFails(c)
    BY <2>3, <2>9 DEF ClientFlushed, ClientEof, ClientFails, OnlyIosChange, reqVars
  <2> QED BY <1>3, <2>5, <2>6, <2>7, <2>8, <2>9 DEF ClientNext, OnRecv, Asks, Gives
<1> QED BY <1>2, <1>3

LEMMA ProxyStep ==
  TypeOK /\ Safe /\ StreamSafe /\ HeadNotConnected /\ ProxyWhenConnected /\ [Next]_vars
    => ProxyWhenConnected'
<1> SUFFICES ASSUME TypeOK, Safe, StreamSafe, HeadNotConnected, ProxyWhenConnected, [Next]_vars
             PROVE  ProxyWhenConnected'
  OBVIOUS
<1>1. ASSUME NEW c \in Conns, ClientNext(c) PROVE ProxyWhenConnected'
  BY <1>1, ClientConnectsNone DEF ProxyWhenConnected
<1>2. ASSUME NEW u \in Ups, UpstreamNext(u) PROVE ProxyWhenConnected'
  <2>1. CASE OnUpstreamConnect(u)
    <3> DEFINE c == ulink[u]
    <3>1. c \in Conns /\ req[c].proxy
      BY <2>1 DEF Safe, ConnectParksClient, OnUpstreamConnect
    <3>2. \/ req' = [req EXCEPT ![c].connected = TRUE]
          \/ NextRequest(c)
          \/ UNCHANGED req
      BY <2>1 DEF OnUpstreamConnect, HeadWritten, HeadNotWritten
    <3> HIDE DEF c
    <3>3. CASE req' = [req EXCEPT ![c].connected = TRUE]
      BY <3>1, <3>3 DEF ProxyWhenConnected, TypeOK, Request
    <3>4. CASE NextRequest(c) BY <3>1, <3>4 DEF ProxyWhenConnected, NextRequest, Cleared, TypeOK
    <3>5. CASE UNCHANGED req BY <3>5 DEF ProxyWhenConnected
    <3> QED BY <3>2, <3>3, <3>4, <3>5
  <2>2. CASE ~OnUpstreamConnect(u)
    <3>1. UNCHANGED req
      BY <1>2, <2>2 DEF UpstreamNext, ConnectFails, UpstreamData, UpstreamEof, UpstreamError,
                        UpstreamFlushed, OnlyIosChange, reqVars
    <3> QED BY <3>1 DEF ProxyWhenConnected
  <2> QED BY <2>1, <2>2
<1>3. CASE UNCHANGED vars BY <1>3 DEF vars, ProxyWhenConnected
<1> QED BY <1>1, <1>2, <1>3 DEF Next

-----------------------------------------------------------------------------
(* Where a client was read to.                                             *)

\* A client whose position moves is read, and has no upstream that connects.
LEMMA ReadsAlone ==
  ASSUME TypeOK, Safe, NEW c \in Conns, ClientNext(c)
  PROVE  /\ \A d \in Conns \ {c} : pos'[d] = pos[d]
         /\ pos'[c] # pos[c] => \A u \in Ups : uio[u] = "connecting" => ulink[u] # c
<1>1. pos \in [Conns -> Nat] BY DEF TypeOK
<1>2. CASE UNCHANGED pos BY <1>2
<1>3. ASSUME rmode[c] # "stop" PROVE \A u \in Ups : uio[u] = "connecting" => ulink[u] # c
  BY <1>3 DEF Safe, ConnectParksClient
<1>4. ASSUME rmode[c] # "stop", NEW k, pos' = [pos EXCEPT ![c] = k]
      PROVE  /\ \A d \in Conns \ {c} : pos'[d] = pos[d]
             /\ \A u \in Ups : uio[u] = "connecting" => ulink[u] # c
  BY <1>1, <1>3, <1>4
<1>5. CASE RecvFirstLine(c) \/ RecvHead(c)
  BY <1>4, <1>5 DEF RecvFirstLine, RecvHead, Reading, Reject
<1>6. CASE HeadEndFails(c) \/ HeadEndSelf(c) \/ Asks(c)
  BY <1>4, <1>6 DEF HeadEndFails, HeadEndSelf, Asks, HeadEndConnect, HeadEndConnectFails,
                    SetupUpstream, HeadEnd, Reading
<1>7. CASE Gives(c) BY <1>4, <1>7 DEF Gives, RecvBody, Reading
<1>8. CASE RecvRefusedBody(c) BY <1>4, <1>8 DEF RecvRefusedBody, Reading
<1>9. CASE \E k \in 1..Len(stream[c]) : RecvAfterEnd(c, k)
  BY <1>4, <1>9 DEF RecvAfterEnd, Reading
<1>10. CASE Attach(c) \/ ClientFlushed(c) \/ ClientEof(c) \/ ClientFails(c)
  BY <1>2, <1>10 DEF Attach, ClientFlushed, ClientEof, ClientFails, OnlyIosChange, reqVars
<1> QED BY <1>5, <1>6, <1>7, <1>8, <1>9, <1>10 DEF ClientNext, OnRecv, Asks, Gives

\* An upstream that connects did so before, or is the one that was asked for.
LEMMA Connecting ==
  ASSUME TypeOK, Safe, StreamSafe, NEW c \in Conns, ClientNext(c), ~Asks(c)
  PROVE  /\ UNCHANGED <<ulink, from>>
         /\ \A u \in Ups : uio'[u] = "connecting" => uio[u] = "connecting"
<1>1. CASE Attach(c) BY <1>1, AttachKeeps
<1>2. CASE Gives(c)
  <2>1. PICK k \in 1..Len(stream[c]) : RecvBody(c, k) BY <1>2 DEF Gives
  <2>2. UNCHANGED uio \/ \E s \in IoStates \ {"connecting"} : uio' = [uio EXCEPT ![clink[c]] = s]
    BY <2>1, BodyWrites DEF IoStates
  <2>3. UNCHANGED <<ulink, from>> BY <2>1 DEF RecvBody
  <2> QED BY <2>2, <2>3 DEF TypeOK
<1>3. CASE ~Attach(c) /\ ~Gives(c)
  BY <1>3, ClientEnds DEF EndsFor, Live
<1> QED BY <1>1, <1>2, <1>3

LEMMA LastReadStep ==
  TypeOK /\ Safe /\ StreamSafe /\ HeadIsLastRead /\ [Next]_vars => HeadIsLastRead'
<1> SUFFICES ASSUME TypeOK, Safe, StreamSafe, HeadIsLastRead, [Next]_vars
             PROVE  HeadIsLastRead'
  OBVIOUS
<1>1. ASSUME NEW c \in Conns, ClientNext(c), ~Asks(c) PROVE HeadIsLastRead'
  <2>1. ASSUME NEW u \in Ups, uio'[u] = "connecting" PROVE pos'[ulink'[u]] = from'[u]
    <3>1. uio[u] = "connecting" /\ UNCHANGED <<ulink, from>> BY <1>1, <2>1, Connecting
    <3>2. ulink[u] \in Conns BY <3>1 DEF Safe, LinksAgree
    <3>3. pos'[ulink[u]] = pos[ulink[u]] BY <1>1, <3>1, <3>2, ReadsAlone
    <3> QED BY <3>1, <3>3 DEF HeadIsLastRead
  <2> QED BY <2>1 DEF HeadIsLastRead
<1>2. ASSUME NEW c \in Conns, Asks(c) PROVE HeadIsLastRead'
  <2>1. PICK v \in Ups : /\ SetupUpstream(c, v)
                         /\ \E s \in {"connecting", "closed"} : uio' = [uio EXCEPT ![v] = s]
    BY <1>2 DEF Asks, HeadEndConnect, HeadEndConnectFails
  <2>2. /\ ulink' = [ulink EXCEPT ![v] = c] /\ from' = [from EXCEPT ![v] = pos[c] + 1]
        /\ pos' = [pos EXCEPT ![c] = @ + 1] /\ rmode[c] # "stop"
    BY <2>1 DEF SetupUpstream, LinkUpstream, HeadEnd, Reading
  <2>3. ASSUME NEW u \in Ups, uio'[u] = "connecting" PROVE pos'[ulink'[u]] = from'[u]
    <3>1. CASE u = v BY <2>2, <3>1 DEF TypeOK
    <3>2. CASE u # v
      <4>1. uio[u] = "connecting" /\ ulink'[u] = ulink[u] /\ from'[u] = from[u]
        BY <2>1, <2>2, <2>3, <3>2 DEF TypeOK
      <4>2. ulink[u] \in Conns /\ ulink[u] # c
        BY <2>2, <4>1 DEF Safe, ConnectParksClient
      <4>3. pos'[ulink[u]] = pos[ulink[u]] BY <2>2, <4>2 DEF TypeOK
      <4> QED BY <4>1, <4>3 DEF HeadIsLastRead
    <3> QED BY <3>1, <3>2
  <2> QED BY <2>3 DEF HeadIsLastRead
<1>3. ASSUME NEW u \in Ups, UpstreamNext(u) PROVE HeadIsLastRead'
  <2>1. UNCHANGED <<pos, ulink, from>>
    BY <1>3 DEF UpstreamNext, OnUpstreamConnect, ConnectFails, UpstreamData, UpstreamEof,
                UpstreamError, UpstreamFlushed, OnlyIosChange, reqVars
  <2>2. \A v \in Ups : uio'[v] = "connecting" => uio[v] = "connecting"
    <3>1. CASE OnUpstreamConnect(u)
      BY <3>1 DEF OnUpstreamConnect, HeadWritten, HeadNotWritten, TypeOK
    <3>2. CASE ~OnUpstreamConnect(u) BY <1>3, <3>2, UpstreamEnds DEF EndsFor, Live
    <3> QED BY <3>1, <3>2
  <2> QED BY <2>1, <2>2 DEF HeadIsLastRead
<1>4. CASE UNCHANGED vars BY <1>4 DEF vars, HeadIsLastRead
<1> QED BY <1>1, <1>2, <1>3, <1>4 DEF Next, Asks

-----------------------------------------------------------------------------
(* The body of client c.                                                   *)

\* The conditions under which BodyComplete speaks of client c.
Relays(c) ==
  /\ state[c] = "s_body" /\ req[c].connected /\ Live(cio[c])
  /\ Unfailed(uio[clink[c]])

\* All that was read after the head is in what was given.
Relayed(c) ==
  \A p \in (from[clink[c]] + 1)..pos[c] :
    stream[c][p].kind # "blank" => p \in Cells(clink[c])

LEMMA CompleteForEach == BodyComplete <=> \A c \in Conns : Relays(c) => Relayed(c)
BY DEF BodyComplete, Relays, Relayed, Unfailed

LEMMA CompleteForEachNext == BodyComplete' <=> \A c \in Conns : Relays(c)' => Relayed(c)'
BY DEF BodyComplete, Relays, Relayed, Unfailed

\* c goes on as it was, nothing is taken from its upstream, and no failed object
\* recovers.
LEMMA KeepsRelayed ==
  ASSUME StreamSafe, NEW c \in Conns, Relays(c) => Relayed(c),
         state'[c] = state[c], req'[c] = req[c], pos'[c] = pos[c], stream' = stream,
         clink'[c] = clink[c], from' = from,
         \A u \in Ups : clink[c] = u => fwd'[u] = fwd[u] /\ (Unfailed(uio'[u]) => Unfailed(uio[u])),
         Live(cio'[c]) => Live(cio[c])
  PROVE  Relays(c)' => Relayed(c)'
<1> SUFFICES ASSUME Relays(c)' PROVE Relayed(c)' OBVIOUS
<1>1. clink[c] \in Ups BY DEF Relays, StreamSafe, ConnectedHasHead
<1>2. Relays(c) BY <1>1 DEF Relays
<1>3. Relayed(c) BY <1>2
<1>4. Cells(clink[c])' = Cells(clink[c]) BY <1>1 DEF Cells
<1> QED BY <1>3, <1>4 DEF Relayed, Cells

\* What a client that gives nothing and asks for nothing does to its body.
LEMMA BodyLeft ==
  ASSUME TypeOK, Safe, StreamSafe, HeadNotConnected, NEW c \in Conns, ClientNext(c),
         ~Attach(c), ~Asks(c), ~Gives(c)
  PROVE  /\ stream' = stream
         /\ \/ state'[c] = state[c] /\ req'[c] = req[c] /\ pos'[c] = pos[c]
            \/ ~(state'[c] = "s_body" /\ req'[c].connected)
<1>1. state \in [Conns -> ConnStates] /\ req \in [Conns -> Request] BY DEF TypeOK
<1>2. CASE RecvFirstLine(c)
  BY <1>1, <1>2 DEF RecvFirstLine, Reject
<1>3. CASE RecvHead(c)
  BY <1>1, <1>3 DEF RecvHead, Reject
<1>4. CASE HeadEndFails(c)
  BY <1>1, <1>4 DEF HeadEndFails
<1>5. CASE HeadEndSelf(c)
  <2> DEFINE r == [req[c] EXCEPT !.proxy = FALSE]
  <2>1. ~r.connected BY <1>1, <1>5 DEF HeadEndSelf, HeadEnd, HeadNotConnected, Request
  <2>2. stream' = stream BY <1>5 DEF HeadEndSelf
  <2>3. Refuse(c, r) \/ req' = [req EXCEPT ![c] = r] BY <1>5 DEF HeadEndSelf
  <2> HIDE DEF r
  <2>4. CASE Refuse(c, r) BY <2>2, <2>4, RefuseLeavesHead
  <2>5. CASE req' = [req EXCEPT ![c] = r] BY <1>1, <2>1, <2>2, <2>5
  <2> QED BY <2>3, <2>4, <2>5
<1>6. CASE RecvRefusedBody(c)
  BY <1>6, RefuseLeavesHead DEF RecvRefusedBody
<1>7. CASE \E k \in 1..Len(stream[c]) : RecvAfterEnd(c, k)
  BY <1>7 DEF RecvAfterEnd
<1>8. CASE ClientFlushed(c) \/ ClientEof(c) \/ ClientFails(c)
  BY <1>8 DEF ClientFlushed, ClientEof, ClientFails, OnlyIosChange, reqVars
<1> QED BY <1>2, <1>3, <1>4, <1>5, <1>6, <1>7, <1>8 DEF ClientNext, OnRecv, Asks, Gives

\* A client that ended or was never accepted is not live, and stays that way.
LEMMA StaysDead ==
  ASSUME TypeOK, NEW c \in Conns, EndsFor(c)
  PROVE  \A d \in Conns : Live(cio'[d]) => Live(cio[d])
BY DEF TypeOK, EndsFor, Live, IoStates

\* A chunk of a body: a lone CRLF apart, it is given, or not connected, or the
\* write of it fails.
LEMMA ChunkRelayed ==
  ASSUME TypeOK, Safe, StreamSafe, ProxyWhenConnected, NEW c \in Conns,
         NEW k \in 1..Len(stream[c]), RecvBody(c, k), Relays(c) => Relayed(c)
  PROVE  Relays(c)' => Relayed(c)'
<1> SUFFICES ASSUME Relays(c)' PROVE Relayed(c)' OBVIOUS
<1> DEFINE u == clink[c]
<1>1. /\ k \in (pos[c] + 1)..Len(stream[c]) /\ OnBody(c, k) /\ pos' = [pos EXCEPT ![c] = k]
      /\ state[c] = "s_body" /\ Live(cio[c])
      /\ UNCHANGED <<cio, stream, clink, ulink, from>>
  BY DEF RecvBody, Reading
<1>2. pos[c] \in Nat /\ k \in Nat /\ k > pos[c] /\ pos'[c] = k
  <2>1. pos[c] \in Nat BY DEF TypeOK
  <2>2. k \in Nat /\ k > pos[c] BY <1>1, <2>1
  <2> QED BY <1>1, <2>1, <2>2 DEF TypeOK
<1>3. req' = req
  <2>1. ~NextRequest(c) BY DEF NextRequest, Relays, TypeOK
  <2> QED BY <2>1 DEF RecvBody
<1>4. req[c].connected /\ Unfailed(uio'[u]) BY <1>1, <1>3 DEF Relays
<1>5. u \in Ups BY <1>4 DEF StreamSafe, ConnectedHasHead
<1>6. fwd[u] \in Seq(Nat) /\ from[u] \in Nat BY <1>5 DEF TypeOK
<1>7. Unfailed(uio[u]) => Relayed(c) BY <1>1, <1>4 DEF Relays
<1>8. CASE UNCHANGED <<uio, fwd>> /\ k = pos[c] + 1 /\ stream[c][k].kind = "blank"
  <2>1. Relayed(c) BY <1>4, <1>7, <1>8
  <2>2. Cells(u)' = Cells(u) BY <1>1, <1>8 DEF Cells
  <2>3. ASSUME NEW p \in (from[u] + 1)..k, stream[c][p].kind # "blank" PROVE p \in Cells(u)
    <3>1. p # k BY <1>8, <2>3
    <3>2. p \in (from[u] + 1)..pos[c] BY <1>2, <1>6, <1>8, <3>1
    <3> QED BY <2>1, <2>3, <3>2 DEF Relayed
  <2> QED BY <1>1, <1>2, <2>2, <2>3 DEF Relayed
<1>9. CASE /\ Unfailed(uio[u])
           /\ fwd' = [fwd EXCEPT ![u] = @ \o [i \in 1..(k - pos[c]) |-> pos[c] + i]]
  <2> DEFINE chunk == [i \in 1..(k - pos[c]) |-> pos[c] + i]
             n == Len(fwd[u])
  <2>1. Relayed(c) BY <1>7, <1>9
  <2>2. fwd'[u] = fwd[u] \o chunk BY <1>5, <1>9 DEF TypeOK
  <2>3. k - pos[c] \in Nat BY <1>2
  <2>4. chunk \in Seq(Nat) /\ Len(chunk) = k - pos[c] BY <1>2, <2>3
  <2>5. \A i \in 1..(k - pos[c]) : chunk[i] = pos[c] + i OBVIOUS
  <2> HIDE DEF chunk
  <2>6. n \in Nat BY <1>6
  <2>7. Len(fwd'[u]) = n + (k - pos[c])
    <3>1. Len(fwd[u] \o chunk) = Len(fwd[u]) + Len(chunk) BY ONLY <1>6, <2>4, ConcatProperties, Zenon
    <3> QED BY <2>2, <2>4, <3>1
  <2>8. \A i \in 1..n : fwd'[u][i] = fwd[u][i] BY <1>6, <2>2, <2>4
  <2>9. \A i \in 1..(k - pos[c]) : fwd'[u][n + i] = pos[c] + i BY <1>6, <2>2, <2>4, <2>5
  <2>10. ASSUME NEW p \in (from[u] + 1)..k, stream[c][p].kind # "blank" PROVE p \in Cells(u)'
    <3>1. CASE p <= pos[c]
      <4>1. p \in (from[u] + 1)..pos[c] BY <1>2, <1>6, <3>1
      <4>2. p \in Cells(u) BY <2>1, <2>10, <4>1 DEF Relayed
      <4>3. PICK i \in 1..n : p = fwd[u][i] BY <4>2 DEF Cells
      <4>4. i \in 1..Len(fwd'[u]) BY <1>2, <2>3, <2>6, <2>7
      <4>5. p = fwd'[u][i] BY <2>8, <4>3
      <4> QED BY <1>1, <4>4, <4>5 DEF Cells
    <3>2. CASE p > pos[c]
      <4> DEFINE i == p - pos[c]
      <4>1. i \in 1..(k - pos[c]) /\ pos[c] + i = p BY <1>2, <1>6, <3>2
      <4>2. n + i \in 1..Len(fwd'[u]) BY <2>3, <2>6, <2>7, <4>1
      <4>3. fwd'[u][n + i] = p BY <2>9, <4>1
      <4> QED BY <1>1, <4>2, <4>3 DEF Cells
    <3> QED BY <1>2, <1>6, <3>1, <3>2
  <2> QED BY <1>1, <1>2, <2>10 DEF Relayed
<1>10. CASE OnBody(c, k) /\ ~(k = pos[c] + 1 /\ stream[c][k].kind = "blank")
  <2>1. WriteUpstream(u, [i \in 1..(k - pos[c]) |-> pos[c] + i])
    BY <1>4, <1>10 DEF OnBody, ProxyWhenConnected
  <2>2. uio'[u] # "broken" /\ uio'[u] # "closed" BY <1>4 DEF Unfailed
  <2>3. ~(uio' = [uio EXCEPT ![u] = "broken"]) BY <1>5, <2>2 DEF TypeOK
  <2>4. ~(uio[u] = "closed" /\ UNCHANGED uio) BY <2>2
  <2> QED BY <1>9, <2>1, <2>3, <2>4 DEF WriteUpstream, Unfailed
<1>11. CASE k = pos[c] + 1 /\ stream[c][k].kind = "blank"
  BY <1>1, <1>8, <1>11 DEF OnBody
<1> QED BY <1>1, <1>10, <1>11

-----------------------------------------------------------------------------
LEMMA GivesNotAttach == ASSUME TypeOK, NEW c \in Conns, Gives(c) PROVE ~Attach(c)
BY DEF Gives, RecvBody, Reading, Attach, Live

LEMMA CompleteStep ==
  TypeOK /\ Safe /\ StreamSafe /\ BodySafe /\ [Next]_vars => BodyComplete'
<1> SUFFICES ASSUME TypeOK, Safe, StreamSafe, BodySafe, [Next]_vars
             PROVE  \A d \in Conns : Relays(d)' => Relayed(d)'
  BY CompleteForEachNext
<1>1. HeadNotConnected /\ HeadIsLastRead /\ ProxyWhenConnected BY DEF BodySafe
<1>2. \A d \in Conns : Relays(d) => Relayed(d) BY CompleteForEach DEF BodySafe
\* The upstream of another client is another one.
<1>3. \A c, d \in Conns : clink[d] \in Ups /\ c # d => clink[c] # clink[d]
  BY DEF Safe, LinksAgree
<1>4. ASSUME NEW c \in Conns, ClientNext(c) PROVE \A d \in Conns : Relays(d)' => Relayed(d)'
  <2> SUFFICES ASSUME NEW d \in Conns PROVE Relays(d)' => Relayed(d)' OBVIOUS
  <2>1. CASE Attach(c)
    <3>1. /\ UNCHANGED <<req, stream, pos, clink, uio, ulink, from, fwd>>
          /\ state'[c] = "s_first_line"
          /\ d # c => state'[d] = state[d] /\ cio'[d] = cio[d]
      BY <2>1, AttachKeeps
    <3>2. CASE d = c BY <3>1, <3>2 DEF Relays
    <3>3. CASE d # c BY <1>2, <3>1, <3>3, KeepsRelayed
    <3> QED BY <3>2, <3>3
  <2>2. CASE Asks(c)
    <3>1. PICK v \in Ups : /\ SetupUpstream(c, v) /\ (cio' = cio \/ cio' = [cio EXCEPT ![c] = HioClose(@)])
                           /\ \E s \in IoStates : uio' = [uio EXCEPT ![v] = s]
      BY <2>2 DEF Asks, HeadEndConnect, HeadEndConnectFails, IoStates
    <3>2. /\ uio[v] = "none" /\ stream' = stream /\ fwd' = fwd
          /\ clink' = [clink EXCEPT ![c] = v] /\ from' = [from EXCEPT ![v] = pos[c] + 1]
      BY <3>1 DEF SetupUpstream, LinkUpstream
    <3>3. CASE d = c
      <4> DEFINE r == [req[c] EXCEPT !.proxy = TRUE, !.connected = FALSE]
      <4>1. r.connected = FALSE BY DEF TypeOK, Request
      <4>2. req' = [req EXCEPT ![c] = r] BY <3>1 DEF SetupUpstream
      <4> HIDE DEF r
      <4>3. ~req'[c].connected BY <4>1, <4>2 DEF TypeOK
      <4> QED BY <3>3, <4>3 DEF Relays
    <3>4. CASE d # c
      <4> SUFFICES ASSUME Relays(d)' PROVE Relayed(d)' OBVIOUS
      <4>1. /\ state'[d] = state[d] /\ req'[d] = req[d] /\ pos'[d] = pos[d] /\ cio'[d] = cio[d]
            /\ clink'[d] = clink[d]
        BY <3>1, <3>2, <3>4 DEF SetupUpstream, TypeOK
      <4>2. clink[d] \in Ups
        BY <4>1 DEF Relays, StreamSafe, ConnectedHasHead
      <4>3. clink[d] # v BY <3>2, <4>2 DEF Safe, LinksAgree
      <4>4. uio'[clink[d]] = uio[clink[d]] /\ from'[clink[d]] = from[clink[d]]
        BY <3>1, <3>2, <4>2, <4>3 DEF TypeOK
      <4>5. Relays(d) BY <4>1, <4>4 DEF Relays
      <4>6. Relayed(d) BY <1>2, <4>5
      <4> QED BY <3>2, <4>1, <4>4, <4>6 DEF Relayed, Cells
    <3> QED BY <3>3, <3>4
  <2>3. CASE Gives(c)
    <3>1. PICK k \in 1..Len(stream[c]) : RecvBody(c, k) BY <2>3 DEF Gives
    <3>2. CASE d = c BY <1>1, <1>2, <3>1, <3>2, ChunkRelayed
    <3>3. CASE d # c
      <4>1. UNCHANGED <<cio, stream, clink, from>> BY <3>1 DEF RecvBody
      <4>2. state'[d] = state[d] /\ req'[d] = req[d]
        BY <1>4, <2>3, <3>3, ClientGoes, GivesNotAttach DEF Others
      <4>3. pos'[d] = pos[d] BY <1>4, <3>3, ReadsAlone
      <4>4. ASSUME NEW u \in Ups, clink[d] = u
            PROVE  fwd'[u] = fwd[u] /\ uio'[u] = uio[u]
        <5>1. clink[c] # u BY <1>3, <3>3, <4>4
        <5>2. /\ fwd' = fwd \/ \E x : fwd' = [fwd EXCEPT ![clink[c]] = x]
              /\ uio' = uio \/ \E x : uio' = [uio EXCEPT ![clink[c]] = x]
          BY <3>1, BodyWrites
        <5> QED BY <5>1, <5>2 DEF TypeOK
      <4> QED BY <1>2, <4>1, <4>2, <4>3, <4>4, KeepsRelayed
    <3> QED BY <3>2, <3>3
  <2>4. CASE ~Attach(c) /\ ~Asks(c) /\ ~Gives(c)
    <3>1. EndsFor(c) /\ StaysFailed BY <1>4, <2>4, ClientEnds, ClientFailed
    <3>2. UNCHANGED <<clink, from, fwd>> BY <3>1 DEF EndsFor
    <3>3. Live(cio'[d]) => Live(cio[d]) BY <3>1, StaysDead
    <3>4. \A u \in Ups : Unfailed(uio'[u]) => Unfailed(uio[u]) BY <3>1 DEF StaysFailed
    <3>5. stream' = stream BY <1>1, <1>4, <2>4, BodyLeft
    <3>6. CASE d = c
      <4>1. CASE state'[c] = state[c] /\ req'[c] = req[c] /\ pos'[c] = pos[c]
        BY <1>2, <3>2, <3>3, <3>4, <3>5, <3>6, <4>1, KeepsRelayed
      <4>2. CASE ~(state'[c] = "s_body" /\ req'[c].connected)
        BY <3>6, <4>2 DEF Relays
      <4> QED BY <1>1, <1>4, <2>4, <4>1, <4>2, BodyLeft
    <3>7. CASE d # c
      <4>1. state'[d] = state[d] /\ req'[d] = req[d] /\ pos'[d] = pos[d]
        BY <1>4, <2>4, <3>7, ClientGoes, ReadsAlone DEF Others
      <4> QED BY <1>2, <3>2, <3>3, <3>4, <3>5, <4>1, KeepsRelayed
    <3> QED BY <3>6, <3>7
  <2> QED BY <2>1, <2>2, <2>3, <2>4
<1>5. ASSUME NEW u \in Ups, UpstreamNext(u) PROVE \A d \in Conns : Relays(d)' => Relayed(d)'
  <2> SUFFICES ASSUME NEW d \in Conns PROVE Relays(d)' => Relayed(d)' OBVIOUS
  <2>1. CASE OnUpstreamConnect(u)
    <3> DEFINE c == ulink[u]
    <3>1. /\ c \in Conns /\ clink[c] = u /\ uio[u] = "connecting"
          /\ UNCHANGED <<cio, stream, pos, clink, from>>
      BY <2>1 DEF Safe, ConnectParksClient, OnUpstreamConnect
    <3>2. pos[c] = from[u] /\ from[u] \in Nat BY <1>1, <3>1 DEF HeadIsLastRead, TypeOK
    <3>3. CASE d = c
      <4>1. (from[u] + 1)..pos[c] = {} BY <3>2
      <4> QED BY <3>1, <3>3, <4>1 DEF Relayed
    <3>4. CASE d # c
      <4>1. state'[d] = state[d] /\ req'[d] = req[d]
        BY <2>1, <3>1, <3>4 DEF OnUpstreamConnect, HeadWritten, HeadNotWritten, NextRequest, TypeOK
      <4>2. ASSUME NEW v \in Ups, clink[d] = v PROVE fwd'[v] = fwd[v] /\ uio'[v] = uio[v]
        <5>1. v # u BY <1>3, <3>1, <3>4, <4>2
        <5> QED BY <2>1, <5>1 DEF OnUpstreamConnect, HeadWritten, HeadNotWritten, TypeOK
      <4> HIDE DEF c
      <4> QED BY <1>2, <3>1, <4>1, <4>2, KeepsRelayed
    <3> QED BY <3>3, <3>4
  <2>2. CASE ~OnUpstreamConnect(u)
    <3>1. EndsFor(ulink[u]) /\ StaysFailed BY <1>5, <2>2, UpstreamEnds, UpstreamFailed
    <3>2. ulink[u] \in Conns BY <1>5, UpstreamHasClient
    <3>3. UNCHANGED <<clink, from, fwd>> BY <3>1 DEF EndsFor
    <3>4. Live(cio'[d]) => Live(cio[d]) BY <3>1, <3>2, StaysDead
    <3>5. \A v \in Ups : Unfailed(uio'[v]) => Unfailed(uio[v]) BY <3>1 DEF StaysFailed
    <3>6. UNCHANGED <<state, req, pos, stream>>
      BY <1>5, <2>2 DEF UpstreamNext, ConnectFails, UpstreamData, UpstreamEof, UpstreamError,
                        UpstreamFlushed, OnlyIosChange, reqVars
    <3> QED BY <1>2, <3>3, <3>4, <3>5, <3>6, KeepsRelayed
  <2> QED BY <2>1, <2>2
<1>6. CASE UNCHANGED vars
  BY <1>2, <1>6, KeepsRelayed DEF vars, upVars
<1> QED BY <1>4, <1>5, <1>6 DEF Next

-----------------------------------------------------------------------------
\* Nothing that was read of a body is missing from what its upstream was given,
\* lone CRLF chunks apart, for any number of clients and upstreams, any streams
\* and any way a stream is cut into chunks (tsproxy.cpp:522-535, 660-671).
THEOREM BodiesComplete == Spec => []BodyComplete
<1>1. Init => BodySafe BY InitBodySafe
<1>2. TypeOK /\ Safe /\ StreamSafe /\ BodySafe /\ [Next]_vars => BodySafe'
  BY HeadStep, LastReadStep, ProxyStep, CompleteStep DEF BodySafe
<1>3. BodySafe => BodyComplete BY DEF BodySafe
<1> QED BY <1>1, <1>2, <1>3, StreamInvariance, PTL DEF Spec

=============================================================================
