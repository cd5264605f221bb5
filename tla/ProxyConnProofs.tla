-------------------------- MODULE ProxyConnProofs --------------------------
(***************************************************************************)
(* Proofs about ProxyConn: its type invariant, and that a connecting       *)
(* upstream always finds the http_conn_t it was made for.                  *)
(***************************************************************************)
EXTENDS ProxyConn, SequenceTheorems, TLAPS

\* The http_conn_t lives as long as the client object is not closed.
AllocatedWhileLive ==
  \A c \in Conns :
    /\ (cio[c] = "none") <=> (conn[c] = "null")
    /\ Live(cio[c]) <=> (conn[c] = "alloc")

\* Every upstream in use has its client; the upstream a client is linked to is
\* one that was made for it; a connection not yet accepted has none.
LinksAgree ==
  /\ \A u \in Ups : uio[u] # "none" => ulink[u] \in Conns
  /\ \A c \in Conns : clink[c] \in Ups => uio[clink[c]] # "none" /\ ulink[clink[c]] = c
  /\ \A c \in Conns : cio[c] = "none" => clink[c] = NoIo

NotTouched == ~ConnectFailsAtOnce => touched = {}

\* The inductive invariant.
Safe ==
  /\ AllocatedWhileLive
  /\ LinksAgree
  /\ ConnectParksClient
  /\ ClosedInPairs
  /\ NotTouched

USE DEF Live

-----------------------------------------------------------------------------
(* Types.                                                                  *)

LEMMA InitTypeOK == Init => TypeOK
  BY IoAssumption, StreamAssumption, BoundAssumption
  DEF Init, TypeOK, Cleared, Request, ConnStates, IoStates, NoHost

\* hio_close and hio_write keep an object's state a state.
LEMMA HioCloseType == \A s : HioClose(s) \in {"closing", "closed"}
  BY DEF HioClose

LEMMA CloseClientType ==
  ASSUME TypeOK, NEW c \in Conns, NEW s \in IoStates \ {"connecting", "broken"},
         NEW us \in [Ups -> IoStates], CloseClient(c, s, us)
  PROVE  /\ cio' \in [Conns -> IoStates \ {"connecting", "broken"}]
         /\ conn' \in [Conns -> {"null", "alloc", "freed"}]
         /\ uio' \in [Ups -> IoStates]
  BY HioCloseType DEF TypeOK, CloseClient, IoStates

LEMMA CloseUpstreamType ==
  ASSUME TypeOK, NEW u \in Ups, NEW s \in IoStates, ulink[u] \in Conns, CloseUpstream(u, s)
  PROVE  /\ cio' \in [Conns -> IoStates \ {"connecting", "broken"}]
         /\ conn' \in [Conns -> {"null", "alloc", "freed"}]
         /\ uio' \in [Ups -> IoStates]
<1> DEFINE us == [uio EXCEPT ![u] = s]
<1>1. us \in [Ups -> IoStates]
  BY DEF TypeOK
<1>2. HioClose(cio[ulink[u]]) \in IoStates \ {"connecting", "broken"}
  BY HioCloseType DEF IoStates
<1>3. CASE s = "closed" /\ Live(cio[ulink[u]])
  <2>1. CloseClient(ulink[u], HioClose(cio[ulink[u]]), us)
    BY <1>3 DEF CloseUpstream
  <2> QED BY <1>1, <1>2, <2>1, CloseClientType
<1>4. CASE ~(s = "closed" /\ Live(cio[ulink[u]]))
  BY <1>1, <1>4 DEF CloseUpstream, TypeOK
<1> QED BY <1>3, <1>4

LEMMA NextCellType ==
  ASSUME TypeOK, NEW c \in Conns, NEW m, Reading(c, m)
  PROVE  NextCell(c) \in Cell /\ pos[c] + 1 \in Nat
  BY DEF TypeOK, Reading, NextCell

LEMMA RequestType ==
  ASSUME NEW r \in Request, NEW l \in Cell
  PROVE  ParseHead(r, l) \in Request
  BY DEF Request, Cell, ParseHead

LEMMA ClearedType == Cleared \in Request
  BY DEF Cleared, Request, NoHost

LEMMA AttachType == ASSUME TypeOK, NEW c \in Conns, Attach(c) PROVE TypeOK'
  BY DEF Attach, TypeOK, IoStates, ConnStates, upVars

LEMMA RejectType == ASSUME TypeOK, NEW c \in Conns, Reject(c) PROVE TypeOK'
<1>1. HioClose(cio[c]) \in IoStates \ {"connecting", "broken"} /\ uio \in [Ups -> IoStates]
  BY HioCloseType DEF TypeOK, IoStates
<1>2. /\ cio' \in [Conns -> IoStates \ {"connecting", "broken"}]
      /\ conn' \in [Conns -> {"null", "alloc", "freed"}]
      /\ uio' \in [Ups -> IoStates]
  BY <1>1, CloseClientType DEF Reject
<1>3. pos' \in [Conns -> Nat] /\ rmode' \in [Conns -> {"stop", "line", "raw", "bytes"}]
  BY DEF Reject, TypeOK
<1> QED BY <1>2, <1>3 DEF Reject, TypeOK, upVars

LEMMA RecvFirstLineType == ASSUME TypeOK, NEW c \in Conns, RecvFirstLine(c) PROVE TypeOK'
<1>1. CASE Reject(c)
  BY <1>1, RejectType
<1>2. CASE ~Reject(c)
  <2>1. NextCell(c) \in Cell
    BY NextCellType DEF RecvFirstLine
  <2>2. /\ req \in [Conns -> Request]
        /\ pos \in [Conns -> Nat]
        /\ state \in [Conns -> ConnStates]
    BY DEF TypeOK
  <2>3. req' \in [Conns -> Request]
    <3> DEFINE l == NextCell(c)
               b == l.kind = "http11"
    <3>1. req' = [req EXCEPT ![c].keepalive = b, ![c].port = l.val]
      BY <1>2 DEF RecvFirstLine
    <3>2. b \in BOOLEAN /\ l.val \in Nat
      BY <2>1 DEF Cell
    <3> HIDE DEF b, l
    <3> QED BY <2>2, <3>1, <3>2 DEF Request
  <2>4. pos' \in [Conns -> Nat] /\ state' \in [Conns -> ConnStates]
    BY <1>2, <2>2 DEF RecvFirstLine, ConnStates
  <2> QED BY <1>2, <2>3, <2>4 DEF RecvFirstLine, TypeOK, upVars
<1> QED BY <1>1, <1>2

LEMMA RecvHeadType == ASSUME TypeOK, NEW c \in Conns, RecvHead(c) PROVE TypeOK'
<1>1. CASE Reject(c)
  BY <1>1, RejectType
<1>2. CASE ~Reject(c)
  <2>1. NextCell(c) \in Cell
    BY NextCellType DEF RecvHead
  <2>2. ParseHead(req[c], NextCell(c)) \in Request
    BY <2>1, RequestType DEF TypeOK
  <2>3. req' \in [Conns -> Request]
    BY <1>2, <2>2 DEF RecvHead, TypeOK
  <2>4. pos' \in [Conns -> Nat]
    BY <1>2 DEF RecvHead, TypeOK
  <2> QED BY <1>2, <2>3, <2>4 DEF RecvHead, TypeOK, upVars
<1> QED BY <1>1, <1>2

LEMMA HeadEndFailsType == ASSUME TypeOK, NEW c \in Conns, HeadEndFails(c) PROVE TypeOK'
<1>1. HioClose(cio[c]) \in IoStates \ {"connecting", "broken"} /\ uio \in [Ups -> IoStates]
  BY HioCloseType DEF TypeOK, IoStates
<1>2. /\ cio' \in [Conns -> IoStates \ {"connecting", "broken"}]
      /\ conn' \in [Conns -> {"null", "alloc", "freed"}]
      /\ uio' \in [Ups -> IoStates]
  BY <1>1, CloseClientType DEF HeadEndFails
<1>3. req' \in [Conns -> Request]
  <2>1. req \in [Conns -> Request]
    BY DEF TypeOK
  <2> QED BY <2>1 DEF HeadEndFails, Request
<1>4. /\ state' \in [Conns -> ConnStates]
      /\ pos' \in [Conns -> Nat]
      /\ rmode' \in [Conns -> {"stop", "line", "raw", "bytes"}]
  BY DEF HeadEndFails, TypeOK, ConnStates
<1> QED BY <1>2, <1>3, <1>4 DEF HeadEndFails, TypeOK, upVars

LEMMA RefuseType ==
  ASSUME TypeOK, NEW c \in Conns, NEW r \in Request, Refuse(c, r), Live(cio[c])
  PROVE  /\ cio' \in [Conns -> IoStates \ {"connecting", "broken"}]
         /\ conn' \in [Conns -> {"null", "alloc", "freed"}]
         /\ uio' \in [Ups -> IoStates]
         /\ req' \in [Conns -> Request]
         /\ state' \in [Conns -> ConnStates]
         /\ rmode' \in [Conns -> {"stop", "line", "raw", "bytes"}]
<1>1. PICK s \in HioWrite(cio[c]) :
        IF r.keepalive
        THEN /\ cio' = [cio EXCEPT ![c] = s]
             /\ NextRequest(c)
             /\ UNCHANGED <<conn, uio>>
        ELSE /\ CloseClient(c, HioClose(s), uio)
             /\ req' = [req EXCEPT ![c] = r]
             /\ state' = [state EXCEPT ![c] = "s_end"]
             /\ rmode' = [rmode EXCEPT ![c] = "stop"]
  BY DEF Refuse
<1>2. s \in IoStates \ {"connecting", "broken"}
  BY DEF TypeOK, HioWrite, IoStates
<1>3. CASE r.keepalive
  <2>1. /\ req \in [Conns -> Request]
        /\ state \in [Conns -> ConnStates]
        /\ rmode \in [Conns -> {"stop", "line", "raw", "bytes"}]
        /\ cio \in [Conns -> IoStates \ {"connecting", "broken"}]
    BY DEF TypeOK
  <2>2. cio' \in [Conns -> IoStates \ {"connecting", "broken"}]
    BY <1>1, <1>2, <1>3, <2>1
  <2>3. req' \in [Conns -> Request]
    BY <1>1, <1>3, <2>1, ClearedType DEF NextRequest
  <2>4. /\ state' \in [Conns -> ConnStates]
        /\ rmode' \in [Conns -> {"stop", "line", "raw", "bytes"}]
    BY <1>1, <1>3, <2>1 DEF NextRequest, ConnStates
  <2> QED BY <1>1, <1>3, <2>2, <2>3, <2>4 DEF TypeOK
<1>4. CASE ~r.keepalive
  <2>1. HioClose(s) \in IoStates \ {"connecting", "broken"} /\ uio \in [Ups -> IoStates]
    BY HioCloseType DEF TypeOK, IoStates
  <2>2. /\ cio' \in [Conns -> IoStates \ {"connecting", "broken"}]
        /\ conn' \in [Conns -> {"null", "alloc", "freed"}]
        /\ uio' \in [Ups -> IoStates]
    BY <1>1, <1>4, <2>1, CloseClientType
  <2>3. /\ req \in [Conns -> Request]
        /\ state \in [Conns -> ConnStates]
        /\ rmode \in [Conns -> {"stop", "line", "raw", "bytes"}]
    BY DEF TypeOK
  <2> QED BY <1>1, <1>4, <2>2, <2>3 DEF ConnStates
<1> QED BY <1>3, <1>4

LEMMA HeadEndSelfType == ASSUME TypeOK, NEW c \in Conns, HeadEndSelf(c) PROVE TypeOK'
<1> DEFINE r == [req[c] EXCEPT !.proxy = FALSE]
<1>1. /\ req \in [Conns -> Request]
      /\ pos \in [Conns -> Nat]
      /\ state \in [Conns -> ConnStates]
      /\ rmode \in [Conns -> {"stop", "line", "raw", "bytes"}]
  BY DEF TypeOK
<1>2. r \in Request
  BY <1>1 DEF Request
<1>3. pos' \in [Conns -> Nat]
  BY <1>1 DEF HeadEndSelf
<1>4. CASE Refuse(c, r)
  <2>1. Live(cio[c])
    BY DEF HeadEndSelf, HeadEnd, Reading
  <2> QED BY <1>2, <1>3, <1>4, <2>1, RefuseType DEF HeadEndSelf, TypeOK, upVars
<1>5. CASE ~Refuse(c, r)
  <2>1. /\ req' = [req EXCEPT ![c] = r]
        /\ state' = [state EXCEPT ![c] = "s_body"]
        /\ rmode' = [rmode EXCEPT ![c] = "bytes"]
        /\ UNCHANGED <<cio, conn, uio>>
    BY <1>5 DEF HeadEndSelf
  <2>2. /\ req' \in [Conns -> Request]
        /\ state' \in [Conns -> ConnStates]
        /\ rmode' \in [Conns -> {"stop", "line", "raw", "bytes"}]
    BY <1>1, <1>2, <2>1 DEF ConnStates
  <2> QED BY <1>3, <2>1, <2>2 DEF HeadEndSelf, TypeOK, upVars
<1> QED BY <1>4, <1>5

LEMMA RecvRefusedBodyType == ASSUME TypeOK, NEW c \in Conns, RecvRefusedBody(c) PROVE TypeOK'
<1>1. req[c] \in Request /\ Live(cio[c]) /\ Refuse(c, req[c])
  BY DEF TypeOK, RecvRefusedBody, Reading
<1>2. pos[c] + req[c].content_length \in Nat
  BY DEF TypeOK, Request
<1> QED BY <1>1, <1>2, RefuseType DEF RecvRefusedBody, TypeOK, upVars

LEMMA SetupUpstreamType ==
  ASSUME TypeOK, NEW c \in Conns, NEW u \in Ups, SetupUpstream(c, u)
  PROVE  /\ req' \in [Conns -> Request]
         /\ state' \in [Conns -> ConnStates]
         /\ pos' \in [Conns -> Nat]
         /\ rmode' \in [Conns -> {"stop", "line", "raw", "bytes"}]
         /\ clink' \in [Conns -> Ups \union {NoIo}]
         /\ ulink' \in [Ups -> Conns \union {NoIo}]
         /\ from' \in [Ups -> Nat]
<1>1. /\ req \in [Conns -> Request]
      /\ pos \in [Conns -> Nat]
      /\ state \in [Conns -> ConnStates]
      /\ rmode \in [Conns -> {"stop", "line", "raw", "bytes"}]
  BY DEF TypeOK
<1>2. /\ clink \in [Conns -> Ups \union {NoIo}]
      /\ ulink \in [Ups -> Conns \union {NoIo}]
      /\ from \in [Ups -> Nat]
  BY DEF TypeOK
<1>3. req' \in [Conns -> Request]
  BY <1>1 DEF SetupUpstream, Request
<1>4. /\ state' \in [Conns -> ConnStates]
      /\ pos' \in [Conns -> Nat]
      /\ rmode' \in [Conns -> {"stop", "line", "raw", "bytes"}]
  BY <1>1 DEF SetupUpstream, ParkClient, ConnStates
<1>5. /\ clink' \in [Conns -> Ups \union {NoIo}]
      /\ ulink' \in [Ups -> Conns \union {NoIo}]
      /\ from' \in [Ups -> Nat]
  BY <1>1, <1>2 DEF SetupUpstream, LinkUpstream
<1> QED BY <1>3, <1>4, <1>5

LEMMA HeadEndConnectType ==
  ASSUME TypeOK, NEW c \in Conns, NEW u \in Ups, HeadEndConnect(c, u) PROVE TypeOK'
<1>1. SetupUpstream(c, u)
  BY DEF HeadEndConnect
<1> QED BY <1>1, SetupUpstreamType DEF HeadEndConnect, SetupUpstream, TypeOK, IoStates

LEMMA HeadEndConnectFailsType ==
  ASSUME TypeOK, NEW c \in Conns, NEW u \in Ups, HeadEndConnectFails(c, u) PROVE TypeOK'
<1>1. SetupUpstream(c, u)
  BY DEF HeadEndConnectFails
<1>2. cio' \in [Conns -> IoStates \ {"connecting", "broken"}]
  BY HioCloseType DEF HeadEndConnectFails, TypeOK, IoStates
<1>3. uio' \in [Ups -> IoStates] /\ touched' \subseteq Conns
      /\ conn' \in [Conns -> {"null", "alloc", "freed"}]
  BY DEF HeadEndConnectFails, TypeOK, IoStates
<1> QED BY <1>1, <1>2, <1>3, SetupUpstreamType DEF SetupUpstream, TypeOK

LEMMA WriteUpstreamType ==
  ASSUME TypeOK, NEW u, NEW ps \in Seq(Nat), WriteUpstream(u, ps)
  PROVE  uio' \in [Ups -> IoStates] /\ fwd' \in [Ups -> Seq(Nat)]
<1>1. uio \in [Ups -> IoStates] /\ fwd \in [Ups -> Seq(Nat)]
  BY DEF TypeOK
<1>2. uio' \in [Ups -> IoStates]
  BY <1>1 DEF WriteUpstream, HioWrite, IoStates
<1>3. fwd' = [fwd EXCEPT ![u] = @ \o ps] \/ fwd' = fwd
  BY DEF WriteUpstream
<1>4. fwd' \in [Ups -> Seq(Nat)]
  <2>1. u \in Ups => fwd[u] \o ps \in Seq(Nat)
    BY <1>1
  <2> QED BY <1>1, <1>3, <2>1
<1> QED BY <1>2, <1>4

LEMMA OnBodyType ==
  ASSUME TypeOK, NEW c \in Conns, NEW k \in Nat, k > pos[c], OnBody(c, k)
  PROVE  uio' \in [Ups -> IoStates] /\ fwd' \in [Ups -> Seq(Nat)]
<1> DEFINE chunk == [i \in 1..(k - pos[c]) |-> pos[c] + i]
<1>1. pos[c] \in Nat
  BY DEF TypeOK
<1>2. chunk \in Seq(Nat)
  <2>1. k - pos[c] \in Nat
    BY <1>1
  <2>2. chunk \in [1..(k - pos[c]) -> Nat]
    BY <1>1
  <2> QED BY <2>1, <2>2
<1>3. CASE WriteUpstream(clink[c], chunk)
  BY <1>2, <1>3, WriteUpstreamType
<1>4. CASE UNCHANGED <<uio, fwd>>
  BY <1>4 DEF TypeOK
<1> QED BY <1>3, <1>4 DEF OnBody

LEMMA RecvBodyType ==
  ASSUME TypeOK, NEW c \in Conns, NEW k \in 1..Len(stream[c]), RecvBody(c, k) PROVE TypeOK'
<1>1. /\ req \in [Conns -> Request]
      /\ pos \in [Conns -> Nat]
      /\ state \in [Conns -> ConnStates]
      /\ rmode \in [Conns -> {"stop", "line", "raw", "bytes"}]
      /\ Len(stream[c]) \in Nat
  BY DEF TypeOK
<1>2. k \in Nat /\ k > pos[c]
  BY <1>1 DEF RecvBody
<1>3. uio' \in [Ups -> IoStates] /\ fwd' \in [Ups -> Seq(Nat)]
  BY <1>2, OnBodyType DEF RecvBody
<1>4. pos' \in [Conns -> Nat]
  BY <1>1, <1>2 DEF RecvBody
<1>5. /\ req' \in [Conns -> Request]
      /\ state' \in [Conns -> ConnStates]
      /\ rmode' \in [Conns -> {"stop", "line", "raw", "bytes"}]
  BY <1>1, ClearedType DEF RecvBody, NextRequest, ConnStates
<1> QED BY <1>3, <1>4, <1>5 DEF RecvBody, TypeOK

LEMMA RecvAfterEndType ==
  ASSUME TypeOK, NEW c \in Conns, NEW k \in 1..Len(stream[c]), RecvAfterEnd(c, k) PROVE TypeOK'
<1>1. pos \in [Conns -> Nat] /\ Len(stream[c]) \in Nat
  BY DEF TypeOK
<1>2. pos' \in [Conns -> Nat]
  BY <1>1 DEF RecvAfterEnd
<1> QED BY <1>2 DEF RecvAfterEnd, TypeOK, upVars

LEMMA OnUpstreamConnectType ==
  ASSUME TypeOK, NEW u \in Ups, ulink[u] \in Conns, OnUpstreamConnect(u) PROVE TypeOK'
<1>1. /\ req \in [Conns -> Request]
      /\ state \in [Conns -> ConnStates]
      /\ rmode \in [Conns -> {"stop", "line", "raw", "bytes"}]
      /\ uio \in [Ups -> IoStates]
      /\ fwd \in [Ups -> Seq(Nat)]
  BY DEF TypeOK
<1>2. touched' \subseteq Conns
  BY DEF OnUpstreamConnect, TypeOK
<1>3. CASE HeadWritten(u, ulink[u])
  <2>1. uio' \in [Ups -> IoStates] /\ fwd' \in [Ups -> Seq(Nat)]
    BY <1>1, <1>3 DEF HeadWritten, IoStates
  <2>2. /\ req' \in [Conns -> Request]
        /\ state' \in [Conns -> ConnStates]
        /\ rmode' \in [Conns -> {"stop", "line", "raw", "bytes"}]
    <3>1. CASE state[ulink[u]] # "s_end"
      <4>1. /\ req' = [req EXCEPT ![ulink[u]].connected = TRUE]
            /\ rmode' = [rmode EXCEPT ![ulink[u]] = "raw"]
            /\ state' = state
        BY <1>3, <3>1 DEF HeadWritten
      <4> QED BY <1>1, <4>1 DEF Request
    <3>2. CASE state[ulink[u]] = "s_end"
      BY <1>1, <1>3, <3>2, ClearedType DEF HeadWritten, NextRequest, ConnStates
    <3> QED BY <3>1, <3>2
  <2> QED BY <1>2, <1>3, <2>1, <2>2 DEF HeadWritten, OnUpstreamConnect, TypeOK
<1>4. CASE HeadNotWritten(u)
  <2>1. uio' \in [Ups -> IoStates]
    BY <1>1, <1>4 DEF HeadNotWritten, IoStates
  <2> QED BY <1>2, <1>4, <2>1 DEF HeadNotWritten, OnUpstreamConnect, TypeOK
<1> QED BY <1>3, <1>4 DEF OnUpstreamConnect

\* The callbacks that only open, close or write to objects.
LEMMA OnlyIosChangeType ==
  ASSUME TypeOK, OnlyIosChange,
         cio' \in [Conns -> IoStates \ {"connecting", "broken"}],
         conn' \in [Conns -> {"null", "alloc", "freed"}],
         uio' \in [Ups -> IoStates],
         resp' \in [Ups -> 0..MaxResponses]
  PROVE  TypeOK'
  BY DEF TypeOK, OnlyIosChange, reqVars

LEMMA UpstreamDataType ==
  ASSUME TypeOK, NEW u \in Ups, ulink[u] \in Conns, UpstreamData(u) PROVE TypeOK'
<1>1. /\ cio \in [Conns -> IoStates \ {"connecting", "broken"}]
      /\ resp \in [Ups -> 0..MaxResponses]
  BY DEF TypeOK
<1>2. resp' \in [Ups -> 0..MaxResponses]
  BY <1>1, BoundAssumption DEF UpstreamData
<1>3. cio' \in [Conns -> IoStates \ {"connecting", "broken"}]
  BY <1>1 DEF UpstreamData, HioWrite, IoStates
<1> QED BY <1>2, <1>3, OnlyIosChangeType DEF UpstreamData, TypeOK

LEMMA UpstreamCloseType ==
  ASSUME TypeOK, NEW u \in Ups, ulink[u] \in Conns,
         ConnectFails(u) \/ UpstreamEof(u) \/ UpstreamError(u) \/ UpstreamFlushed(u)
  PROVE  TypeOK'
<1>1. PICK s \in IoStates : CloseUpstream(u, s)
  BY HioCloseType DEF ConnectFails, UpstreamEof, UpstreamError, UpstreamFlushed, IoStates
<1>2. OnlyIosChange /\ UNCHANGED resp
  BY DEF ConnectFails, UpstreamEof, UpstreamError, UpstreamFlushed
<1> QED BY <1>1, <1>2, CloseUpstreamType, OnlyIosChangeType DEF TypeOK

LEMMA ClientCloseType ==
  ASSUME TypeOK, NEW c \in Conns, ClientFlushed(c) \/ ClientEof(c) \/ ClientFails(c)
  PROVE  TypeOK'
<1>1. PICK s \in IoStates \ {"connecting", "broken"} : CloseClient(c, s, uio)
  BY HioCloseType DEF ClientFlushed, ClientEof, ClientFails, IoStates
<1>2. OnlyIosChange /\ UNCHANGED resp
  BY DEF ClientFlushed, ClientEof, ClientFails
<1> QED BY <1>1, <1>2, CloseClientType, OnlyIosChangeType DEF TypeOK

-----------------------------------------------------------------------------
(* Safety.                                                                 *)

\* What an action may do to the variables on_upstream_connect relies on: it leaves
\* those of every client but c alone, and those of c while an upstream connects.
OthersKeep(c) ==
  /\ \A d \in Conns \ {c} : rmode'[d] = rmode[d] /\ state'[d] = state[d] /\ req'[d] = req[d]
  /\ (\E u \in Ups : uio[u] = "connecting" /\ ulink[u] = c)
       => rmode'[c] = rmode[c] /\ state'[c] = state[c] /\ req'[c] = req[c]

LEMMA CloseClientSafe ==
  ASSUME TypeOK, Safe, NEW c \in Conns, Live(cio[c]),
         NEW s \in {"open", "queued", "closing", "closed"},
         NEW us \in [Ups -> IoStates],
         \A u \in Ups : us[u] # uio[u] => us[u] = "closed" /\ uio[u] # "none" /\ ulink[u] = c,
         clink[c] \in Ups /\ us[clink[c]] = "closed" => s \in {"closing", "closed"},
         CloseClient(c, s, us), OthersKeep(c), UNCHANGED <<clink, ulink, touched>>
  PROVE  Safe'
<1>1. /\ cio \in [Conns -> IoStates \ {"connecting", "broken"}]
      /\ conn \in [Conns -> {"null", "alloc", "freed"}]
      /\ uio \in [Ups -> IoStates]
      /\ clink \in [Conns -> Ups \union {NoIo}]
      /\ NoIo \notin Ups
  BY IoAssumption DEF TypeOK
<1>2. /\ cio' = [cio EXCEPT ![c] = s]
      /\ conn' = [conn EXCEPT ![c] = IF s = "closed" THEN "freed" ELSE @]
      /\ clink' = clink /\ ulink' = ulink
  BY DEF CloseClient
<1>3. AllocatedWhileLive'
  <2>1. AllocatedWhileLive
    BY DEF Safe
  <2> SUFFICES ASSUME NEW d \in Conns
               PROVE  /\ (cio'[d] = "none") <=> (conn'[d] = "null")
                      /\ Live(cio'[d]) <=> (conn'[d] = "alloc")
    BY DEF AllocatedWhileLive
  <2>2. CASE d = c
    BY <1>1, <1>2, <2>1, <2>2 DEF AllocatedWhileLive
  <2>3. CASE d # c
    BY <1>1, <1>2, <2>1, <2>3 DEF AllocatedWhileLive
  <2> QED BY <2>2, <2>3
<1>4. \A u \in Ups : uio'[u] # us[u] =>
        /\ s = "closed" /\ u = clink[c]
        /\ uio'[u] \in {"closing", "closed"}
  <2>1. CASE s = "closed" /\ clink[c] \in Ups
    <3>1. uio' = [us EXCEPT ![clink[c]] = HioClose(us[clink[c]])]
      BY <2>1 DEF CloseClient
    <3>2. HioClose(us[clink[c]]) \in {"closing", "closed"}
      BY HioCloseType
    <3> QED BY <2>1, <3>1, <3>2
  <2>2. CASE ~(s = "closed" /\ clink[c] \in Ups)
    BY <2>2 DEF CloseClient
  <2> QED BY <2>1, <2>2
<1>5. s = "closed" /\ clink[c] \in Ups => uio'[clink[c]] \in {"closing", "closed"}
  BY <1>1, HioCloseType DEF CloseClient
<1>6. \A u \in Ups : uio'[u] = "none" <=> uio[u] = "none"
  BY <1>1, <1>4 DEF Safe, LinksAgree
<1>7. LinksAgree'
  BY <1>1, <1>2, <1>6 DEF Safe, LinksAgree
<1>8. \A u \in Ups : uio'[u] = "connecting" => uio[u] = "connecting"
  BY <1>1, <1>4
<1>9. ConnectParksClient'
  <2> SUFFICES ASSUME NEW u \in Ups, uio'[u] = "connecting"
               PROVE  /\ ulink[u] \in Conns /\ conn'[ulink[u]] = "alloc" /\ Live(cio'[ulink[u]])
                      /\ clink[ulink[u]] = u /\ rmode'[ulink[u]] = "stop"
                      /\ state'[ulink[u]] \in {"s_body", "s_end"}
                      /\ req'[ulink[u]].proxy /\ ~req'[ulink[u]].connected
    BY <1>2 DEF ConnectParksClient
  <2>1. /\ uio[u] = "connecting"
        /\ ulink[u] \in Conns /\ conn[ulink[u]] = "alloc" /\ Live(cio[ulink[u]])
        /\ clink[ulink[u]] = u /\ rmode[ulink[u]] = "stop"
        /\ state[ulink[u]] \in {"s_body", "s_end"}
        /\ req[ulink[u]].proxy /\ ~req[ulink[u]].connected
    BY <1>8 DEF Safe, ConnectParksClient
  <2>2. rmode'[ulink[u]] = rmode[ulink[u]] /\ state'[ulink[u]] = state[ulink[u]]
          /\ req'[ulink[u]] = req[ulink[u]]
    BY <2>1 DEF OthersKeep
  <2>3. ~(ulink[u] = c /\ s = "closed")
    BY <2>1, <1>5
  <2>4. conn'[ulink[u]] = "alloc" /\ Live(cio'[ulink[u]])
    <3>1. CASE ulink[u] = c
      <4>1. cio'[c] = s /\ conn'[c] = conn[c] /\ s # "closed"
        BY <1>1, <1>2, <2>3, <3>1
      <4> QED BY <2>1, <3>1, <4>1
    <3>2. CASE ulink[u] # c
      <4>1. cio'[ulink[u]] = cio[ulink[u]] /\ conn'[ulink[u]] = conn[ulink[u]]
        BY <1>1, <1>2, <2>1, <3>2
      <4> QED BY <2>1, <4>1
    <3> QED BY <3>1, <3>2
  <2> QED BY <2>1, <2>2, <2>4
<1>10. ClosedInPairs'
  <2> SUFFICES ASSUME NEW d \in Conns, clink[d] \in Ups
               PROVE  /\ cio'[d] = "closed" => uio'[clink[d]] \in {"closing", "closed"}
                      /\ uio'[clink[d]] = "closed" => cio'[d] \in {"closing", "closed"}
    BY <1>2 DEF ClosedInPairs
  <2>1. /\ cio[d] = "closed" => uio[clink[d]] \in {"closing", "closed"}
        /\ uio[clink[d]] = "closed" => cio[d] \in {"closing", "closed"}
        /\ ulink[clink[d]] = d
    BY DEF Safe, ClosedInPairs, LinksAgree
  <2>2. CASE d = c
    BY <1>1, <1>2, <1>4, <1>5, <2>1, <2>2
  <2>3. CASE d # c
    <3>1. clink[d] # clink[c]
      BY <2>1, <2>3 DEF Safe, LinksAgree
    <3>2. us[clink[d]] = uio[clink[d]]
      BY <2>1, <2>3
    <3> QED BY <1>1, <1>2, <1>4, <2>1, <2>3, <3>1, <3>2
  <2> QED BY <2>2, <2>3
<1>11. NotTouched'
  BY DEF Safe, NotTouched
<1> QED BY <1>3, <1>7, <1>9, <1>10, <1>11 DEF Safe

\* Actions that close nothing: a write may queue data, or fail on an upstream.
LEMMA QuietSafe ==
  ASSUME TypeOK, Safe, NEW c \in Conns, OthersKeep(c),
         UNCHANGED <<conn, clink, ulink, touched>>,
         \A d \in Conns : cio'[d] = cio[d] \/ (cio[d] = "open" /\ cio'[d] = "queued"),
         \A u \in Ups : uio'[u] = uio[u] \/ (uio[u] = "open" /\ uio'[u] \in {"queued", "broken"})
  PROVE  Safe'
<1>1. AllocatedWhileLive'
  BY DEF Safe, AllocatedWhileLive
<1>2. LinksAgree'
  BY DEF Safe, LinksAgree
<1>3. ConnectParksClient'
  <2> SUFFICES ASSUME NEW u \in Ups, uio'[u] = "connecting"
               PROVE  /\ ulink[u] \in Conns /\ conn[ulink[u]] = "alloc" /\ Live(cio'[ulink[u]])
                      /\ clink[ulink[u]] = u /\ rmode'[ulink[u]] = "stop"
                      /\ state'[ulink[u]] \in {"s_body", "s_end"}
                      /\ req'[ulink[u]].proxy /\ ~req'[ulink[u]].connected
    BY DEF ConnectParksClient
  <2>1. uio[u] = "connecting"
    OBVIOUS
  <2>2. /\ ulink[u] \in Conns /\ conn[ulink[u]] = "alloc" /\ Live(cio[ulink[u]])
        /\ clink[ulink[u]] = u /\ rmode[ulink[u]] = "stop"
        /\ state[ulink[u]] \in {"s_body", "s_end"}
        /\ req[ulink[u]].proxy /\ ~req[ulink[u]].connected
    BY <2>1 DEF Safe, ConnectParksClient
  <2>3. rmode'[ulink[u]] = rmode[ulink[u]] /\ state'[ulink[u]] = state[ulink[u]]
          /\ req'[ulink[u]] = req[ulink[u]]
    BY <2>1, <2>2 DEF OthersKeep
  <2>4. Live(cio'[ulink[u]])
    BY <2>2
  <2> QED BY <2>2, <2>3, <2>4
<1>4. ClosedInPairs'
  BY DEF Safe, ClosedInPairs
<1>5. NotTouched'
  BY DEF Safe, NotTouched
<1> QED BY <1>1, <1>2, <1>3, <1>4, <1>5 DEF Safe

\* A client that is read is not one an upstream connects for.
LEMMA ReadingKeeps ==
  ASSUME Safe, NEW c \in Conns, rmode[c] # "stop",
         \A d \in Conns \ {c} : rmode'[d] = rmode[d] /\ state'[d] = state[d] /\ req'[d] = req[d]
  PROVE  OthersKeep(c)
  BY DEF OthersKeep, Safe, ConnectParksClient

LEMMA AttachSafe == ASSUME TypeOK, Safe, NEW c \in Conns, Attach(c) PROVE Safe'
<1>1. /\ cio \in [Conns -> IoStates \ {"connecting", "broken"}]
      /\ conn \in [Conns -> {"null", "alloc", "freed"}]
      /\ state \in [Conns -> ConnStates]
      /\ rmode \in [Conns -> {"stop", "line", "raw", "bytes"}]
      /\ NoIo \notin Ups
  BY IoAssumption DEF TypeOK
<1>2. /\ cio[c] = "none" /\ clink[c] = NoIo /\ conn[c] = "null"
  BY DEF Attach, Safe, LinksAgree, AllocatedWhileLive
<1>3. /\ cio' = [cio EXCEPT ![c] = "open"]
      /\ conn' = [conn EXCEPT ![c] = "alloc"]
      /\ state' = [state EXCEPT ![c] = "s_first_line"]
      /\ rmode' = [rmode EXCEPT ![c] = "line"]
      /\ UNCHANGED <<req, clink, uio, ulink, touched>>
  BY DEF Attach, upVars
<1>4. AllocatedWhileLive'
  BY <1>1, <1>3 DEF Safe, AllocatedWhileLive
<1>5. LinksAgree'
  BY <1>1, <1>3 DEF Safe, LinksAgree
<1>6. ConnectParksClient'
  BY <1>1, <1>2, <1>3 DEF Safe, ConnectParksClient
<1>7. ClosedInPairs'
  BY <1>1, <1>2, <1>3 DEF Safe, ClosedInPairs
<1> QED BY <1>3, <1>4, <1>5, <1>6, <1>7 DEF Safe, NotTouched

LEMMA RejectSafe ==
  ASSUME TypeOK, Safe, NEW c \in Conns, Live(cio[c]), rmode[c] # "stop", Reject(c) PROVE Safe'
<1>1. HioClose(cio[c]) \in {"closing", "closed"}
  BY HioCloseType
<1>2. uio \in [Ups -> IoStates] /\ rmode \in [Conns -> {"stop", "line", "raw", "bytes"}]
  BY DEF TypeOK
<1>3. OthersKeep(c)
  BY <1>2, ReadingKeeps DEF Reject
<1> QED BY <1>1, <1>2, <1>3, CloseClientSafe DEF Reject, upVars

LEMMA RecvFirstLineSafe == ASSUME TypeOK, Safe, NEW c \in Conns, RecvFirstLine(c) PROVE Safe'
<1>1. Live(cio[c]) /\ rmode[c] # "stop"
  BY DEF RecvFirstLine, Reading
<1>2. CASE Reject(c)
  BY <1>1, <1>2, RejectSafe
<1>3. CASE ~Reject(c)
  <2>1. /\ UNCHANGED <<cio, conn, rmode, clink, uio, ulink, touched>>
        /\ state' = [state EXCEPT ![c] = "s_head"]
        /\ \A d \in Conns \ {c} : req'[d] = req[d]
    BY <1>3 DEF RecvFirstLine, upVars, TypeOK
  <2>2. state \in [Conns -> ConnStates]
    BY DEF TypeOK
  <2>3. OthersKeep(c)
    BY <1>1, <2>1, <2>2, ReadingKeeps
  <2> QED BY <2>1, <2>3, QuietSafe
<1> QED BY <1>2, <1>3

LEMMA RecvHeadSafe == ASSUME TypeOK, Safe, NEW c \in Conns, RecvHead(c) PROVE Safe'
<1>1. Live(cio[c]) /\ rmode[c] # "stop"
  BY DEF RecvHead, Reading
<1>2. CASE Reject(c)
  BY <1>1, <1>2, RejectSafe
<1>3. CASE ~Reject(c)
  <2>1. /\ UNCHANGED <<cio, conn, state, rmode, clink, uio, ulink, touched>>
        /\ \A d \in Conns \ {c} : req'[d] = req[d]
    BY <1>3 DEF RecvHead, upVars, TypeOK
  <2>2. OthersKeep(c)
    BY <1>1, <2>1, ReadingKeeps
  <2> QED BY <2>1, <2>2, QuietSafe
<1> QED BY <1>2, <1>3

LEMMA HeadEndFailsSafe == ASSUME TypeOK, Safe, NEW c \in Conns, HeadEndFails(c) PROVE Safe'
<1>1. HioClose(cio[c]) \in {"closing", "closed"}
  BY HioCloseType
<1>2. /\ Live(cio[c]) /\ rmode[c] # "stop" /\ uio \in [Ups -> IoStates]
  BY DEF HeadEndFails, HeadEnd, Reading, TypeOK
<1>3. OthersKeep(c)
  <2>1. \A d \in Conns \ {c} : rmode'[d] = rmode[d] /\ state'[d] = state[d] /\ req'[d] = req[d]
    BY DEF HeadEndFails, TypeOK
  <2> QED BY <1>2, <2>1, ReadingKeeps
<1> QED BY <1>1, <1>2, <1>3, CloseClientSafe DEF HeadEndFails, upVars

LEMMA RefuseSafe ==
  ASSUME TypeOK, Safe, NEW c \in Conns, NEW r, Refuse(c, r), Live(cio[c]), rmode[c] # "stop",
         UNCHANGED <<clink, ulink, touched>>
  PROVE  Safe'
<1>1. PICK s \in HioWrite(cio[c]) :
        IF r.keepalive
        THEN /\ cio' = [cio EXCEPT ![c] = s]
             /\ NextRequest(c)
             /\ UNCHANGED <<conn, uio>>
        ELSE /\ CloseClient(c, HioClose(s), uio)
             /\ req' = [req EXCEPT ![c] = r]
             /\ state' = [state EXCEPT ![c] = "s_end"]
             /\ rmode' = [rmode EXCEPT ![c] = "stop"]
  BY DEF Refuse
<1>2. \A d \in Conns \ {c} : rmode'[d] = rmode[d] /\ state'[d] = state[d] /\ req'[d] = req[d]
  BY <1>1 DEF NextRequest, TypeOK
<1>3. OthersKeep(c)
  BY <1>2, ReadingKeeps
<1>4. CASE r.keepalive
  <2>1. s = cio[c] \/ (cio[c] = "open" /\ s = "queued")
    BY DEF HioWrite
  <2>2. \A d \in Conns : cio'[d] = cio[d] \/ (cio[d] = "open" /\ cio'[d] = "queued")
    BY <1>1, <1>4, <2>1 DEF TypeOK
  <2> QED BY <1>1, <1>3, <1>4, <2>2, QuietSafe
<1>5. CASE ~r.keepalive
  <2>1. CloseClient(c, HioClose(s), uio)
    BY <1>1, <1>5
  <2>2. HioClose(s) \in {"closing", "closed"} /\ uio \in [Ups -> IoStates]
    BY HioCloseType DEF TypeOK
  <2> QED BY <1>3, <2>1, <2>2, CloseClientSafe
<1> QED BY <1>4, <1>5

LEMMA HeadEndSelfSafe == ASSUME TypeOK, Safe, NEW c \in Conns, HeadEndSelf(c) PROVE Safe'
<1> DEFINE r == [req[c] EXCEPT !.proxy = FALSE]
<1>1. Live(cio[c]) /\ rmode[c] # "stop" /\ UNCHANGED <<clink, ulink, touched>>
  BY DEF HeadEndSelf, HeadEnd, Reading, upVars
<1>2. CASE Refuse(c, r)
  BY <1>1, <1>2, RefuseSafe
<1>3. CASE ~Refuse(c, r)
  <2>1. /\ req' = [req EXCEPT ![c] = r]
        /\ state' = [state EXCEPT ![c] = "s_body"]
        /\ rmode' = [rmode EXCEPT ![c] = "bytes"]
        /\ UNCHANGED <<cio, conn, uio>>
    BY <1>3 DEF HeadEndSelf
  <2>2. OthersKeep(c)
    BY <1>1, <2>1, ReadingKeeps DEF TypeOK
  <2> QED BY <1>1, <2>1, <2>2, QuietSafe
<1> QED BY <1>2, <1>3

LEMMA RecvRefusedBodySafe == ASSUME TypeOK, Safe, NEW c \in Conns, RecvRefusedBody(c) PROVE Safe'
  BY RefuseSafe DEF RecvRefusedBody, Reading, upVars

LEMMA WriteUpstreamSteps ==
  ASSUME TypeOK, NEW v, NEW ps, WriteUpstream(v, ps)
  PROVE  \A u \in Ups : uio'[u] = uio[u] \/ (uio[u] = "open" /\ uio'[u] \in {"queued", "broken"})
<1>1. uio \in [Ups -> IoStates]
  BY DEF TypeOK
<1> QED BY <1>1 DEF WriteUpstream, HioWrite

LEMMA RecvBodySafe ==
  ASSUME TypeOK, Safe, NEW c \in Conns, NEW k \in 1..Len(stream[c]), RecvBody(c, k) PROVE Safe'
<1>1. /\ rmode[c] # "stop" /\ OnBody(c, k)
      /\ UNCHANGED <<cio, conn, clink, ulink, touched>>
  BY DEF RecvBody, Reading
<1>2. \A u \in Ups : uio'[u] = uio[u] \/ (uio[u] = "open" /\ uio'[u] \in {"queued", "broken"})
  BY <1>1, WriteUpstreamSteps DEF OnBody
<1>3. \A d \in Conns \ {c} : rmode'[d] = rmode[d] /\ state'[d] = state[d] /\ req'[d] = req[d]
  BY DEF RecvBody, NextRequest, TypeOK
<1>4. OthersKeep(c)
  BY <1>1, <1>3, ReadingKeeps
<1> QED BY <1>1, <1>2, <1>4, QuietSafe

LEMMA RecvAfterEndSafe ==
  ASSUME TypeOK, Safe, NEW c \in Conns, NEW k \in 1..Len(stream[c]), RecvAfterEnd(c, k) PROVE Safe'
<1>1. rmode[c] # "stop" /\ UNCHANGED <<cio, conn, state, req, rmode, clink, uio, ulink, touched>>
  BY DEF RecvAfterEnd, Reading, upVars
<1>2. OthersKeep(c)
  BY <1>1, ReadingKeeps
<1> QED BY <1>1, <1>2, QuietSafe

LEMMA UpstreamDataSafe ==
  ASSUME TypeOK, Safe, NEW u \in Ups, UpstreamData(u) PROVE Safe'
<1>1. ulink[u] \in Conns
  BY DEF UpstreamData, Connected, Safe, LinksAgree
<1>2. UNCHANGED <<conn, uio, clink, ulink, touched, rmode, state, req>>
  BY DEF UpstreamData, OnlyIosChange, reqVars
<1>3. \A d \in Conns : cio'[d] = cio[d] \/ (cio[d] = "open" /\ cio'[d] = "queued")
  BY <1>1 DEF UpstreamData, HioWrite, TypeOK
<1>4. OthersKeep(ulink[u])
  BY <1>2 DEF OthersKeep
<1> QED BY <1>1, <1>2, <1>3, <1>4, QuietSafe

LEMMA CloseUpstreamSafe ==
  ASSUME TypeOK, Safe, NEW u \in Ups, NEW s \in IoStates, CloseUpstream(u, s),
         \/ s = "closed" /\ uio[u] # "none"
         \/ s \in {"open", "closing"} /\ uio[u] = "queued",
         UNCHANGED <<clink, ulink, touched, rmode, state, req>>
  PROVE  Safe'
<1> DEFINE us == [uio EXCEPT ![u] = s]
           c == ulink[u]
<1>1. /\ uio \in [Ups -> IoStates] /\ us \in [Ups -> IoStates]
      /\ cio \in [Conns -> IoStates \ {"connecting", "broken"}]
  BY DEF TypeOK
<1>2. c \in Conns
  BY DEF Safe, LinksAgree
<1>3. CASE s = "closed" /\ Live(cio[c])
  <2>1. CloseClient(c, HioClose(cio[c]), us)
    BY <1>3 DEF CloseUpstream
  <2>2. HioClose(cio[c]) \in {"closing", "closed"}
    BY HioCloseType
  <2>3. OthersKeep(c)
    BY DEF OthersKeep
  <2>4. \A v \in Ups : us[v] # uio[v] => us[v] = "closed" /\ uio[v] # "none" /\ ulink[v] = c
    BY <1>1, <1>3
  <2>5. Live(cio[c])
    BY <1>3
  <2> HIDE DEF us, c
  <2> QED BY <1>1, <1>2, <2>1, <2>2, <2>3, <2>4, <2>5, CloseClientSafe
<1>4. CASE ~(s = "closed" /\ Live(cio[c]))
  <2>1. uio' = us /\ cio' = cio /\ conn' = conn
    BY <1>4 DEF CloseUpstream
  <2>2. AllocatedWhileLive'
    BY <2>1 DEF Safe, AllocatedWhileLive
  <2>3. LinksAgree'
    BY <1>1, <2>1 DEF Safe, LinksAgree, IoStates
  <2>4. ConnectParksClient'
    BY <1>1, <2>1 DEF Safe, ConnectParksClient
  <2>5. ClosedInPairs'
    <3> SUFFICES ASSUME NEW d \in Conns, clink[d] \in Ups
                 PROVE  /\ cio[d] = "closed" => us[clink[d]] \in {"closing", "closed"}
                        /\ us[clink[d]] = "closed" => cio[d] \in {"closing", "closed"}
      BY <2>1 DEF ClosedInPairs
    <3>1. /\ cio[d] = "closed" => uio[clink[d]] \in {"closing", "closed"}
          /\ uio[clink[d]] = "closed" => cio[d] \in {"closing", "closed"}
          /\ ulink[clink[d]] = d /\ cio[d] # "none"
      BY IoAssumption DEF Safe, ClosedInPairs, LinksAgree
    <3>2. CASE clink[d] # u
      BY <1>1, <3>1, <3>2
    <3>3. CASE clink[d] = u
      <4>1. us[clink[d]] = s
        BY <1>1, <3>3
      <4>2. cio[d] \in IoStates \ {"connecting", "broken"}
        BY <1>1
      <4> QED BY <1>4, <3>1, <3>3, <4>1, <4>2 DEF IoStates
    <3> QED BY <3>2, <3>3
  <2> QED BY <2>2, <2>3, <2>4, <2>5 DEF Safe, NotTouched
<1> QED BY <1>3, <1>4

LEMMA HeadEndConnectSafe ==
  ASSUME TypeOK, Safe, NEW c \in Conns, NEW u \in Ups, HeadEndConnect(c, u) PROVE Safe'
<1>1. /\ cio \in [Conns -> IoStates \ {"connecting", "broken"}]
      /\ uio \in [Ups -> IoStates] /\ ulink \in [Ups -> Conns \union {NoIo}]
      /\ clink \in [Conns -> Ups \union {NoIo}] /\ req \in [Conns -> Request]
      /\ state \in [Conns -> ConnStates]
      /\ rmode \in [Conns -> {"stop", "line", "raw", "bytes"}]
  BY DEF TypeOK
<1>2. /\ Live(cio[c]) /\ rmode[c] # "stop" /\ uio[u] = "none"
      /\ uio' = [uio EXCEPT ![u] = "connecting"]
      /\ clink' = [clink EXCEPT ![c] = u] /\ ulink' = [ulink EXCEPT ![u] = c]
      /\ UNCHANGED <<cio, conn, touched>>
  BY DEF HeadEndConnect, SetupUpstream, HeadEnd, Reading, LinkUpstream
<1>3. /\ rmode' = [rmode EXCEPT ![c] = "stop"]
      /\ state' = [state EXCEPT ![c] = IF req[c].content_length = 0 THEN "s_end" ELSE "s_body"]
  BY <1>1 DEF HeadEndConnect, SetupUpstream, ParkClient, Request
<1>4. req'[c].proxy /\ ~req'[c].connected
  BY <1>1 DEF HeadEndConnect, SetupUpstream, Request
<1>5. \A d \in Conns \ {c} : req'[d] = req[d]
  BY <1>1 DEF HeadEndConnect, SetupUpstream
<1>6. AllocatedWhileLive'
  BY <1>2 DEF Safe, AllocatedWhileLive
<1>7. LinksAgree'
  BY <1>1, <1>2 DEF Safe, LinksAgree
<1>8. ConnectParksClient'
  <2> SUFFICES ASSUME NEW v \in Ups, uio'[v] = "connecting"
               PROVE  /\ ulink'[v] \in Conns /\ conn[ulink'[v]] = "alloc" /\ Live(cio[ulink'[v]])
                      /\ clink'[ulink'[v]] = v /\ rmode'[ulink'[v]] = "stop"
                      /\ state'[ulink'[v]] \in {"s_body", "s_end"}
                      /\ req'[ulink'[v]].proxy /\ ~req'[ulink'[v]].connected
    BY <1>2 DEF ConnectParksClient
  <2>1. CASE v = u
    <3>1. ulink'[v] = c /\ clink'[c] = v /\ rmode'[c] = "stop" /\ state'[c] \in {"s_body", "s_end"}
      BY <1>1, <1>2, <1>3, <2>1
    <3>2. conn[c] = "alloc"
      BY <1>2 DEF Safe, AllocatedWhileLive
    <3> QED BY <1>2, <1>4, <3>1, <3>2
  <2>2. CASE v # u
    <3> DEFINE d == ulink[v]
    <3>1. uio[v] = "connecting" /\ ulink'[v] = d
      BY <1>1, <1>2, <2>2
    <3>2. /\ d \in Conns /\ conn[d] = "alloc" /\ Live(cio[d]) /\ clink[d] = v
          /\ rmode[d] = "stop" /\ state[d] \in {"s_body", "s_end"}
          /\ req[d].proxy /\ ~req[d].connected
      BY <3>1 DEF Safe, ConnectParksClient
    <3>3. d # c
      BY <1>2, <3>2
    <3>4. clink'[d] = v /\ rmode'[d] = "stop" /\ state'[d] = state[d] /\ req'[d] = req[d]
      BY <1>1, <1>2, <1>3, <1>5, <3>2, <3>3
    <3> QED BY <3>1, <3>2, <3>4
  <2> QED BY <2>1, <2>2
<1>9. ClosedInPairs'
  <2> SUFFICES ASSUME NEW d \in Conns, clink'[d] \in Ups
               PROVE  /\ cio[d] = "closed" => uio'[clink'[d]] \in {"closing", "closed"}
                      /\ uio'[clink'[d]] = "closed" => cio[d] \in {"closing", "closed"}
    BY <1>2 DEF ClosedInPairs
  <2>1. CASE d = c
    BY <1>1, <1>2, <2>1
  <2>2. CASE d # c
    <3>1. clink'[d] = clink[d] /\ clink[d] # u
      BY <1>1, <1>2, <2>2 DEF Safe, LinksAgree
    <3> QED BY <1>1, <1>2, <3>1 DEF Safe, ClosedInPairs
  <2> QED BY <2>1, <2>2
<1> QED BY <1>2, <1>6, <1>7, <1>8, <1>9 DEF Safe, NotTouched

LEMMA HeadEndConnectFailsSafe ==
  ASSUME TypeOK, Safe, NEW c \in Conns, NEW u \in Ups, HeadEndConnectFails(c, u) PROVE Safe'
<1>1. /\ cio \in [Conns -> IoStates \ {"connecting", "broken"}]
      /\ conn \in [Conns -> {"null", "alloc", "freed"}]
      /\ uio \in [Ups -> IoStates] /\ ulink \in [Ups -> Conns \union {NoIo}]
      /\ clink \in [Conns -> Ups \union {NoIo}]
      /\ state \in [Conns -> ConnStates]
      /\ rmode \in [Conns -> {"stop", "line", "raw", "bytes"}]
      /\ req \in [Conns -> Request]
  BY DEF TypeOK
<1>2. /\ Live(cio[c]) /\ rmode[c] # "stop" /\ uio[u] = "none" /\ ConnectFailsAtOnce
      /\ uio' = [uio EXCEPT ![u] = "closed"]
      /\ clink' = [clink EXCEPT ![c] = u] /\ ulink' = [ulink EXCEPT ![u] = c]
  BY DEF HeadEndConnectFails, SetupUpstream, HeadEnd, Reading, LinkUpstream
<1>3. /\ cio'[c] \in {"closing", "closed"}
      /\ conn'[c] = IF cio'[c] = "closed" THEN "freed" ELSE conn[c]
      /\ \A d \in Conns \ {c} : cio'[d] = cio[d] /\ conn'[d] = conn[d]
  BY <1>1, HioCloseType DEF HeadEndConnectFails
<1>4. \A d \in Conns \ {c} :
        clink'[d] = clink[d] /\ rmode'[d] = rmode[d] /\ state'[d] = state[d] /\ req'[d] = req[d]
  BY <1>1 DEF HeadEndConnectFails, SetupUpstream, ParkClient, LinkUpstream
<1>5. AllocatedWhileLive'
  <2> SUFFICES ASSUME NEW d \in Conns
               PROVE  /\ (cio'[d] = "none") <=> (conn'[d] = "null")
                      /\ Live(cio'[d]) <=> (conn'[d] = "alloc")
    BY DEF AllocatedWhileLive
  <2>1. conn[c] = "alloc"
    BY <1>2 DEF Safe, AllocatedWhileLive
  <2>2. CASE d = c
    BY <1>3, <2>1, <2>2
  <2>3. CASE d # c
    BY <1>3, <2>3 DEF Safe, AllocatedWhileLive
  <2> QED BY <2>2, <2>3
<1>6. LinksAgree'
  <2>1. \A v \in Ups : uio'[v] # "none" => ulink'[v] \in Conns
    BY <1>1, <1>2 DEF Safe, LinksAgree
  <2>2. \A d \in Conns : clink'[d] \in Ups =>
          uio'[clink'[d]] # "none" /\ ulink'[clink'[d]] = d
    BY <1>1, <1>2 DEF Safe, LinksAgree
  <2>3. \A d \in Conns : cio'[d] = "none" => clink'[d] = NoIo
    BY <1>3, <1>4 DEF Safe, LinksAgree
  <2> QED BY <2>1, <2>2, <2>3 DEF LinksAgree
<1>7. ConnectParksClient'
  <2> SUFFICES ASSUME NEW v \in Ups, uio'[v] = "connecting"
               PROVE  /\ ulink'[v] \in Conns /\ conn'[ulink'[v]] = "alloc" /\ Live(cio'[ulink'[v]])
                      /\ clink'[ulink'[v]] = v /\ rmode'[ulink'[v]] = "stop"
                      /\ state'[ulink'[v]] \in {"s_body", "s_end"}
                      /\ req'[ulink'[v]].proxy /\ ~req'[ulink'[v]].connected
    BY DEF ConnectParksClient
  <2> DEFINE d == ulink[v]
  <2>1. v # u /\ uio[v] = "connecting" /\ ulink'[v] = d
    BY <1>1, <1>2
  <2>2. /\ d \in Conns /\ conn[d] = "alloc" /\ Live(cio[d]) /\ clink[d] = v
        /\ rmode[d] = "stop" /\ state[d] \in {"s_body", "s_end"}
        /\ req[d].proxy /\ ~req[d].connected
    BY <2>1 DEF Safe, ConnectParksClient
  <2>3. d # c
    BY <1>2, <2>2
  <2> QED BY <1>3, <1>4, <2>1, <2>2, <2>3
<1>8. ClosedInPairs'
  <2> SUFFICES ASSUME NEW d \in Conns, clink'[d] \in Ups
               PROVE  /\ cio'[d] = "closed" => uio'[clink'[d]] \in {"closing", "closed"}
                      /\ uio'[clink'[d]] = "closed" => cio'[d] \in {"closing", "closed"}
    BY DEF ClosedInPairs
  <2>1. CASE d = c
    BY <1>1, <1>2, <1>3, <2>1
  <2>2. CASE d # c
    <3>1. clink'[d] = clink[d] /\ cio'[d] = cio[d] /\ clink[d] # u
      BY <1>2, <1>3, <1>4, <2>2 DEF Safe, LinksAgree
    <3>2. uio'[clink[d]] = uio[clink[d]]
      BY <1>1, <1>2, <3>1
    <3> QED BY <3>1, <3>2 DEF Safe, ClosedInPairs
  <2> QED BY <2>1, <2>2
<1> QED BY <1>2, <1>5, <1>6, <1>7, <1>8 DEF Safe, NotTouched

LEMMA OnUpstreamConnectSafe ==
  ASSUME TypeOK, Safe, NEW u \in Ups, OnUpstreamConnect(u) PROVE Safe'
<1> DEFINE c == ulink[u]
<1>1. /\ uio \in [Ups -> IoStates] /\ req \in [Conns -> Request]
      /\ state \in [Conns -> ConnStates]
      /\ rmode \in [Conns -> {"stop", "line", "raw", "bytes"}]
  BY DEF TypeOK
<1>2. /\ c \in Conns /\ conn[c] = "alloc" /\ Live(cio[c]) /\ clink[c] = u
      /\ uio[u] = "connecting"
  BY DEF OnUpstreamConnect, Safe, ConnectParksClient
<1>3. UNCHANGED <<cio, conn, clink, ulink, touched>>
  BY <1>2 DEF OnUpstreamConnect
<1>4. \E s \in {"open", "broken"} : uio' = [uio EXCEPT ![u] = s]
  BY DEF OnUpstreamConnect, HeadWritten, HeadNotWritten
<1>5. \A d \in Conns \ {c} : rmode'[d] = rmode[d] /\ state'[d] = state[d] /\ req'[d] = req[d]
  BY <1>1 DEF OnUpstreamConnect, HeadWritten, HeadNotWritten, NextRequest
<1>6. AllocatedWhileLive'
  BY <1>3 DEF Safe, AllocatedWhileLive
<1>7. LinksAgree'
  <2>1. \A v \in Ups : uio'[v] = "none" <=> uio[v] = "none"
    BY <1>1, <1>2, <1>4
  <2> QED BY <1>3, <2>1 DEF Safe, LinksAgree
<1>8. ConnectParksClient'
  <2> SUFFICES ASSUME NEW v \in Ups, uio'[v] = "connecting"
               PROVE  /\ ulink[v] \in Conns /\ conn[ulink[v]] = "alloc" /\ Live(cio[ulink[v]])
                      /\ clink[ulink[v]] = v /\ rmode'[ulink[v]] = "stop"
                      /\ state'[ulink[v]] \in {"s_body", "s_end"}
                      /\ req'[ulink[v]].proxy /\ ~req'[ulink[v]].connected
    BY <1>3 DEF ConnectParksClient
  <2>1. v # u /\ uio[v] = "connecting"
    BY <1>1, <1>4
  <2>2. /\ ulink[v] \in Conns /\ conn[ulink[v]] = "alloc" /\ Live(cio[ulink[v]])
        /\ clink[ulink[v]] = v /\ rmode[ulink[v]] = "stop"
        /\ state[ulink[v]] \in {"s_body", "s_end"}
        /\ req[ulink[v]].proxy /\ ~req[ulink[v]].connected
    BY <2>1 DEF Safe, ConnectParksClient
  <2>3. ulink[v] # c
    BY <1>2, <2>1, <2>2
  <2> QED BY <1>5, <2>2, <2>3
<1>9. ClosedInPairs'
  <2> SUFFICES ASSUME NEW d \in Conns, clink[d] \in Ups
               PROVE  /\ cio[d] = "closed" => uio'[clink[d]] \in {"closing", "closed"}
                      /\ uio'[clink[d]] = "closed" => cio[d] \in {"closing", "closed"}
    BY <1>3 DEF ClosedInPairs
  <2>1. CASE clink[d] = u
    <3>1. d = c
      BY <2>1 DEF Safe, LinksAgree
    <3> QED BY <1>1, <1>2, <1>4, <2>1, <3>1
  <2>2. CASE clink[d] # u
    BY <1>1, <1>4, <2>2 DEF Safe, ClosedInPairs
  <2> QED BY <2>1, <2>2
<1> QED BY <1>3, <1>6, <1>7, <1>8, <1>9 DEF Safe, NotTouched

LEMMA UpstreamCloseSafe ==
  ASSUME TypeOK, Safe, NEW u \in Ups,
         ConnectFails(u) \/ UpstreamEof(u) \/ UpstreamError(u) \/ UpstreamFlushed(u)
  PROVE  Safe'
<1>1. UNCHANGED <<clink, ulink, touched, rmode, state, req>>
  BY DEF ConnectFails, UpstreamEof, UpstreamError, UpstreamFlushed, OnlyIosChange, reqVars
<1>2. CASE ConnectFails(u) \/ UpstreamError(u)
  BY <1>1, <1>2, CloseUpstreamSafe DEF ConnectFails, UpstreamError, Connected, IoStates
<1>3. CASE UpstreamEof(u)
  <2>1. /\ Live(uio[u]) /\ CloseUpstream(u, HioClose(uio[u]))
    BY <1>3 DEF UpstreamEof, Connected
  <2>2. \/ HioClose(uio[u]) = "closed"
        \/ HioClose(uio[u]) = "closing" /\ uio[u] = "queued"
    BY DEF HioClose
  <2> QED BY <1>1, <2>1, <2>2, CloseUpstreamSafe DEF IoStates
<1>4. CASE UpstreamFlushed(u)
  BY <1>1, <1>4, CloseUpstreamSafe DEF UpstreamFlushed, IoStates
<1> QED BY <1>2, <1>3, <1>4

LEMMA ClientCloseSafe ==
  ASSUME TypeOK, Safe, NEW c \in Conns, ClientFlushed(c) \/ ClientEof(c) \/ ClientFails(c)
  PROVE  Safe'
<1>1. UNCHANGED <<clink, ulink, touched, rmode, state, req>>
  BY DEF ClientFlushed, ClientEof, ClientFails, OnlyIosChange, reqVars
<1>2. OthersKeep(c) /\ uio \in [Ups -> IoStates]
  BY <1>1 DEF OthersKeep, TypeOK
<1>3. PICK s \in {"open", "closing", "closed"} :
        /\ CloseClient(c, s, uio) /\ Live(cio[c])
        /\ s = "open" => cio[c] = "queued"
  BY HioCloseType DEF ClientFlushed, ClientEof, ClientFails
<1>4. clink[c] \in Ups /\ uio[clink[c]] = "closed" => s \in {"closing", "closed"}
  BY <1>3 DEF Safe, ClosedInPairs
<1> QED BY <1>1, <1>2, <1>3, <1>4, CloseClientSafe

-----------------------------------------------------------------------------
(* The theorems.                                                           *)

LEMMA InitSafe == Init => Safe
  BY IoAssumption
  DEF Init, Safe, AllocatedWhileLive, LinksAgree, ConnectParksClient, ClosedInPairs, NotTouched

\* An upstream that takes a step of its own is in use, and so has a client.
LEMMA UpstreamHasClient ==
  ASSUME Safe, NEW u \in Ups, UpstreamNext(u)
  PROVE  ulink[u] \in Conns
<1>1. uio[u] # "none"
  BY DEF UpstreamNext, OnUpstreamConnect, ConnectFails, UpstreamData, UpstreamEof,
         UpstreamError, UpstreamFlushed, Connected
<1> QED BY <1>1 DEF Safe, LinksAgree

LEMMA OnRecvStep ==
  ASSUME TypeOK, Safe, NEW c \in Conns, OnRecv(c) PROVE TypeOK' /\ Safe'
<1>1. CASE RecvFirstLine(c)
  BY <1>1, RecvFirstLineType, RecvFirstLineSafe
<1>2. CASE RecvHead(c)
  BY <1>2, RecvHeadType, RecvHeadSafe
<1>3. CASE HeadEndFails(c)
  BY <1>3, HeadEndFailsType, HeadEndFailsSafe
<1>4. CASE HeadEndSelf(c)
  BY <1>4, HeadEndSelfType, HeadEndSelfSafe
<1>5. ASSUME NEW u \in Ups, HeadEndConnect(c, u) PROVE TypeOK' /\ Safe'
  BY <1>5, HeadEndConnectType, HeadEndConnectSafe
<1>6. ASSUME NEW u \in Ups, HeadEndConnectFails(c, u) PROVE TypeOK' /\ Safe'
  BY <1>6, HeadEndConnectFailsType, HeadEndConnectFailsSafe
<1>7. ASSUME NEW k \in 1..Len(stream[c]), RecvBody(c, k) PROVE TypeOK' /\ Safe'
  BY <1>7, RecvBodyType, RecvBodySafe
<1>8. ASSUME NEW k \in 1..Len(stream[c]), RecvAfterEnd(c, k) PROVE TypeOK' /\ Safe'
  BY <1>8, RecvAfterEndType, RecvAfterEndSafe
<1>9. CASE RecvRefusedBody(c)
  BY <1>9, RecvRefusedBodyType, RecvRefusedBodySafe
<1> QED BY <1>1, <1>2, <1>3, <1>4, <1>5, <1>6, <1>7, <1>8, <1>9 DEF OnRecv

LEMMA ClientStep ==
  ASSUME TypeOK, Safe, NEW c \in Conns, ClientNext(c) PROVE TypeOK' /\ Safe'
<1>1. CASE Attach(c)
  BY <1>1, AttachType, AttachSafe
<1>2. CASE OnRecv(c)
  BY <1>2, OnRecvStep
<1>3. CASE ClientFlushed(c) \/ ClientEof(c) \/ ClientFails(c)
  BY <1>3, ClientCloseType, ClientCloseSafe
<1> QED BY <1>1, <1>2, <1>3 DEF ClientNext

LEMMA UpstreamStep ==
  ASSUME TypeOK, Safe, NEW u \in Ups, UpstreamNext(u) PROVE TypeOK' /\ Safe'
<1>1. ulink[u] \in Conns
  BY UpstreamHasClient
<1>2. CASE OnUpstreamConnect(u)
  BY <1>1, <1>2, OnUpstreamConnectType, OnUpstreamConnectSafe
<1>3. CASE UpstreamData(u)
  BY <1>1, <1>3, UpstreamDataType, UpstreamDataSafe
<1>4. CASE ConnectFails(u) \/ UpstreamEof(u) \/ UpstreamError(u) \/ UpstreamFlushed(u)
  BY <1>1, <1>4, UpstreamCloseType, UpstreamCloseSafe
<1> QED BY <1>2, <1>3, <1>4 DEF UpstreamNext

LEMMA StutterStep == ASSUME TypeOK, Safe, UNCHANGED vars PROVE TypeOK' /\ Safe'
<1>1. TypeOK'
  BY DEF TypeOK, vars
<1>2. Safe'
  BY DEF Safe, AllocatedWhileLive, LinksAgree, ConnectParksClient, ClosedInPairs, NotTouched, vars
<1> QED BY <1>1, <1>2

\* The invariant of the proofs holds in every behaviour of the worker loop, for
\* any clients, any bytes they send, and any failures of the network.
THEOREM Invariance == Spec => [](TypeOK /\ Safe)
<1>1. Init => TypeOK /\ Safe
  BY InitTypeOK, InitSafe
<1>2. TypeOK /\ Safe /\ [Next]_vars => (TypeOK /\ Safe)'
  BY ClientStep, UpstreamStep, StutterStep DEF Next
<1> QED BY <1>1, <1>2, PTL DEF Spec

\* Every variable of the worker loop keeps its type.
THEOREM TypeCorrect == Spec => []TypeOK
  BY Invariance, PTL

\* on_upstream_connect always finds the http_conn_t of the request it was made
\* for: the client of a connecting upstream is alive, linked to it and not read.
THEOREM ConnectIsSafe == Spec => []ConnectParksClient
<1>1. Safe => ConnectParksClient
  BY DEF Safe
<1> QED BY <1>1, Invariance, PTL

\* on_close and hio_close_upstream end a client and the upstream of its latest
\* request together, in whichever order and with whatever still queued.
THEOREM EndsAreShared == Spec => []ClosedInPairs
<1>1. Safe => ClosedInPairs
  BY DEF Safe
<1> QED BY <1>1, Invariance, PTL

\* Where connect(2) does not fail inside hio_connect, no callback ever uses an
\* http_conn_t that on_close has freed.
THEOREM NoUseAfterFree == ASSUME ~ConnectFailsAtOnce PROVE Spec => []NeverUsedAfterFree
<1>1. Safe => NeverUsedAfterFree
  BY DEF Safe, NotTouched, NeverUsedAfterFree
<1> QED BY <1>1, Invariance, PTL

=============================================================================
