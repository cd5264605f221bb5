---------------------------- MODULE StreamProofs ----------------------------
(***************************************************************************)
(* Proofs about ProxyConn: what an upstream is given, for any number of    *)
(* clients and upstreams and anything they send.                           *)
(***************************************************************************)
EXTENDS ProxyConnProofs

USE DEF Live

\* An object that is not used yet belongs to no client.
Unused ==
  \A u \in Ups :
    /\ uio[u] = "none" => ulink[u] = NoIo /\ from[u] = 0
    /\ uio[u] \in {"none", "connecting"} => fwd[u] = <<>>

\* What an upstream was given was read before.
GivenWasRead ==
  \A u \in Ups : ulink[u] \in Conns =>
    /\ from[u] > 0 /\ from[u] <= pos[ulink[u]]
    /\ \A i \in 1..Len(fwd[u]) : fwd[u][i] <= pos[ulink[u]]

\* The upstream a client is linked to was asked for after all the others of this
\* client, and after all they were given.
LinkedIsLatest ==
  \A u \in Ups : ulink[u] \in Conns =>
    /\ clink[ulink[u]] \in Ups
    /\ u # clink[ulink[u]] =>
         /\ from[u] < from[clink[ulink[u]]]
         /\ \A i \in 1..Len(fwd[u]) : fwd[u][i] < from[clink[ulink[u]]]

\* request.connected is only set when the upstream has the head.
ConnectedHasHead ==
  \A c \in Conns : req[c].connected => clink[c] \in Ups /\ fwd[clink[c]] # <<>>

\* A request starts from nothing, on a connection not yet accepted as well.
ClearedAtStart ==
  \A c \in Conns : cio[c] = "none" \/ state[c] = "s_first_line" => req[c] = Cleared

Delivered ==
  /\ Unused /\ HeadOnceThenInOrder /\ GivenWasRead /\ LinkedIsLatest
  /\ EarlierUpstreamGetsNoLaterCell

\* The inductive invariant, next to TypeOK and Safe.
StreamSafe == Delivered /\ ConnectedHasHead /\ ClearedAtStart

LEMMA InitStreamSafe == Init => StreamSafe
<1> SUFFICES ASSUME Init PROVE StreamSafe OBVIOUS
<1>1. \A u \in Ups : uio[u] = "none" /\ ulink[u] = NoIo /\ from[u] = 0 /\ fwd[u] = <<>>
  BY DEF Init
<1>2. NoIo \notin Conns BY IoAssumption
<1>3. \A u \in Ups : Len(fwd[u]) = 0 BY <1>1
<1>4. Delivered
  BY <1>1, <1>2, <1>3 DEF Delivered, Unused, HeadOnceThenInOrder, GivenWasRead,
                          LinkedIsLatest, EarlierUpstreamGetsNoLaterCell
<1>5. ConnectedHasHead /\ ClearedAtStart
  BY DEF Init, ConnectedHasHead, ClearedAtStart, Cleared
<1> QED BY <1>4, <1>5 DEF StreamSafe

-----------------------------------------------------------------------------
(* Steps that give nothing: objects are written to, flushed and closed.    *)

\* The client object c may end, and with it upstreams of c.
EndsFor(c) ==
  /\ UNCHANGED <<ulink, clink, from, fwd>>
  /\ cio[c] # "none" /\ cio'[c] # "none"
  /\ cio[c] = "closing" => cio'[c] \in {"closing", "closed"}
  /\ cio[c] = "closed" => cio'[c] = "closed"
  /\ \A d \in Conns \ {c} : cio'[d] = cio[d]
  /\ \A u \in Ups :
       \/ uio'[u] = uio[u]
       \/ Live(uio[u]) /\ Live(uio'[u])
       \/ /\ uio[u] # "none" /\ uio'[u] = "closed"
          /\ ulink[u] = c /\ cio'[c] \in {"closing", "closed"}

LEMMA CloseClientEnds ==
  ASSUME TypeOK, Safe, NEW c \in Conns, cio[c] # "none",
         NEW s \in {"open", "queued", "closing", "closed"},
         cio[c] = "closing" => s \in {"closing", "closed"},
         cio[c] = "closed" => s = "closed",
         NEW us \in [Ups -> IoStates],
         \A u \in Ups :
           \/ us[u] = uio[u]
           \/ Live(uio[u]) /\ Live(us[u])
           \/ uio[u] # "none" /\ us[u] = "closed" /\ ulink[u] = c /\ s \in {"closing", "closed"},
         CloseClient(c, s, us), UNCHANGED <<ulink, clink, from, fwd>>
  PROVE  EndsFor(c)
<1>1. cio' = [cio EXCEPT ![c] = s] BY DEF CloseClient
<1>2. cio'[c] = s /\ \A d \in Conns \ {c} : cio'[d] = cio[d] BY <1>1 DEF TypeOK
<1>3. uio \in [Ups -> IoStates] BY DEF TypeOK
<1>4. ASSUME NEW u \in Ups
      PROVE  \/ uio'[u] = uio[u]
             \/ Live(uio[u]) /\ Live(uio'[u])
             \/ uio[u] # "none" /\ uio'[u] = "closed" /\ ulink[u] = c /\ s \in {"closing", "closed"}
  <2>1. CASE s = "closed" /\ clink[c] = u
    <3>1. uio'[u] = HioClose(us[u]) BY <2>1 DEF CloseClient
    <3>2. uio[u] # "none" /\ ulink[u] = c BY <2>1 DEF Safe, LinksAgree
    <3>3. us[u] # "none" /\ (us[u] = "queued" => Live(uio[u])) BY <3>2
    <3>4. HioClose(us[u]) = "closed" \/ (HioClose(us[u]) = "closing" /\ us[u] = "queued")
      BY DEF HioClose
    <3> QED BY <2>1, <3>1, <3>2, <3>3, <3>4
  <2>2. CASE ~(s = "closed" /\ clink[c] = u)
    <3>1. uio'[u] = us[u] BY <2>2 DEF CloseClient
    <3> QED BY <3>1
  <2> QED BY <2>1, <2>2
<1> QED BY <1>2, <1>4 DEF EndsFor

LEMMA HioCloseMoves ==
  \A x : HioClose(x) \in {"closing", "closed"} /\ (x = "closed" => HioClose(x) = "closed")
BY DEF HioClose

\* The upstreams as they are.
LEMMA CloseEnds ==
  ASSUME TypeOK, Safe, NEW c \in Conns, cio[c] # "none",
         NEW s \in {"open", "queued", "closing", "closed"},
         cio[c] = "closing" => s \in {"closing", "closed"},
         cio[c] = "closed" => s = "closed",
         CloseClient(c, s, uio), UNCHANGED <<ulink, clink, from, fwd>>
  PROVE  EndsFor(c)
<1>1. uio \in [Ups -> IoStates] BY DEF TypeOK
<1> QED BY <1>1, CloseClientEnds

\* hio_close of a client that is live.
LEMMA HioCloseEnds ==
  ASSUME TypeOK, Safe, NEW c \in Conns, Live(cio[c]), CloseClient(c, HioClose(cio[c]), uio),
         UNCHANGED <<ulink, clink, from, fwd>>
  PROVE  EndsFor(c)
<1>1. HioClose(cio[c]) \in {"closing", "closed"} BY HioCloseMoves
<1>2. cio[c] # "none" /\ cio[c] # "closed" OBVIOUS
<1> QED BY <1>1, <1>2, CloseEnds

\* A client that has an upstream was accepted.
LEMMA OwnerAccepted ==
  ASSUME TypeOK, Safe, StreamSafe, NEW u \in Ups, ulink[u] \in Conns
  PROVE  cio[ulink[u]] # "none"
BY IoAssumption DEF Safe, LinksAgree, StreamSafe, Delivered, LinkedIsLatest

LEMMA CloseUpstreamEnds ==
  ASSUME TypeOK, Safe, StreamSafe, NEW u \in Ups, NEW s \in {"open", "closing", "closed"},
         uio[u] # "none", s # "closed" => Live(uio[u]),
         CloseUpstream(u, s), UNCHANGED <<ulink, clink, from, fwd>>
  PROVE  EndsFor(ulink[u])
<1>1. ulink[u] \in Conns BY DEF Safe, LinksAgree
<1>2. cio[ulink[u]] # "none" BY <1>1, OwnerAccepted
<1> DEFINE us == [uio EXCEPT ![u] = s]
<1>3. us \in [Ups -> IoStates] BY DEF TypeOK, IoStates
<1>4. \A v \in Ups : us[v] = IF v = u THEN s ELSE uio[v] BY DEF TypeOK
<1> HIDE DEF us
<1>5. CASE s = "closed" /\ Live(cio[ulink[u]])
  <2>1. CloseClient(ulink[u], HioClose(cio[ulink[u]]), us) BY <1>5 DEF CloseUpstream, us
  <2>2. HioClose(cio[ulink[u]]) \in {"closing", "closed"} BY HioCloseMoves
  <2> QED BY <1>1, <1>2, <1>3, <1>4, <1>5, <2>1, <2>2, CloseClientEnds
<1>6. CASE ~(s = "closed" /\ Live(cio[ulink[u]]))
  <2>1. uio' = us /\ UNCHANGED cio BY <1>6 DEF CloseUpstream, us
  <2>2. cio[ulink[u]] \in IoStates \ {"connecting", "broken"} BY <1>1 DEF TypeOK
  <2>3. s = "closed" => cio[ulink[u]] = "closed" BY <1>2, <1>6, <2>2 DEF IoStates
  <2> QED BY <1>2, <1>4, <2>1, <2>3 DEF EndsFor
<1> QED BY <1>5, <1>6

\* The steps of a client that give nothing and ask for nothing.
Asks(c) == \E u \in Ups : HeadEndConnect(c, u) \/ HeadEndConnectFails(c, u)
Gives(c) == \E k \in 1..Len(stream[c]) : RecvBody(c, k)

LEMMA RefuseEnds ==
  ASSUME TypeOK, Safe, NEW c \in Conns, Live(cio[c]), NEW r, Refuse(c, r),
         UNCHANGED <<ulink, clink, from, fwd>>
  PROVE  EndsFor(c)
<1>1. PICK s \in HioWrite(cio[c]) :
        IF r.keepalive
        THEN cio' = [cio EXCEPT ![c] = s] /\ UNCHANGED uio
        ELSE CloseClient(c, HioClose(s), uio)
  BY DEF Refuse
<1>2. s = cio[c] \/ (cio[c] = "open" /\ s = "queued") BY <1>1 DEF HioWrite
<1>3. CASE r.keepalive
  <2>1. cio'[c] = s /\ \A d \in Conns \ {c} : cio'[d] = cio[d] BY <1>1, <1>3 DEF TypeOK
  <2> QED BY <1>1, <1>2, <1>3, <2>1 DEF EndsFor
<1>4. CASE ~r.keepalive
  <2>1. CloseClient(c, HioClose(s), uio) BY <1>1, <1>4
  <2>2. HioClose(s) \in {"closing", "closed"} BY HioCloseMoves
  <2> QED BY <2>1, <2>2, CloseEnds
<1> QED BY <1>3, <1>4

LEMMA ClientEnds ==
  ASSUME TypeOK, Safe, NEW c \in Conns, ClientNext(c), ~Attach(c), ~Asks(c), ~Gives(c)
  PROVE  EndsFor(c)
<1> USE DEF reqVars, upVars
<1>1. CASE UNCHANGED <<cio, uio, ulink, clink, from, fwd>> /\ Live(cio[c])
  BY <1>1 DEF EndsFor
<1>2. CASE Reject(c) /\ Live(cio[c])
  BY <1>2, HioCloseEnds DEF Reject
<1>3. CASE RecvFirstLine(c) \/ RecvHead(c)
  BY <1>1, <1>2, <1>3 DEF RecvFirstLine, RecvHead, Reading
<1>4. CASE HeadEndFails(c)
  BY <1>4, HioCloseEnds DEF HeadEndFails, HeadEnd, Reading
<1>5. CASE HeadEndSelf(c)
  <2>1. Live(cio[c]) /\ UNCHANGED <<ulink, clink, from, fwd>>
    BY <1>5 DEF HeadEndSelf, HeadEnd, Reading
  <2> QED BY <1>1, <1>5, <2>1, RefuseEnds DEF HeadEndSelf
<1>6. CASE RecvRefusedBody(c)
  BY <1>6, RefuseEnds DEF RecvRefusedBody, Reading
<1>7. CASE \E k \in 1..Len(stream[c]) : RecvAfterEnd(c, k)
  BY <1>1, <1>7 DEF RecvAfterEnd, Reading
<1>8. CASE ClientFlushed(c)
  BY <1>8, CloseEnds DEF ClientFlushed, OnlyIosChange
<1>9. CASE ClientEof(c)
  BY <1>9, HioCloseEnds DEF ClientEof, OnlyIosChange
<1>10. CASE ClientFails(c)
  BY <1>10, CloseEnds DEF ClientFails, OnlyIosChange
<1> QED BY <1>3, <1>4, <1>5, <1>6, <1>7, <1>8, <1>9, <1>10
        DEF ClientNext, OnRecv, Asks, Gives

LEMMA UpstreamEnds ==
  ASSUME TypeOK, Safe, StreamSafe, NEW u \in Ups, UpstreamNext(u), ~OnUpstreamConnect(u)
  PROVE  EndsFor(ulink[u])
<1> USE DEF reqVars, upVars, OnlyIosChange
<1>1. HioClose(uio[u]) \in {"closing", "closed"} BY HioCloseMoves
<1>2. CASE ConnectFails(u)
  BY <1>2, CloseUpstreamEnds DEF ConnectFails
<1>3. CASE UpstreamData(u)
  <2>1. ulink[u] \in Conns BY <1>3, UpstreamHasClient
  <2>2. PICK s \in HioWrite(cio[ulink[u]]) : cio' = [cio EXCEPT ![ulink[u]] = s]
    BY <1>3 DEF UpstreamData
  <2>3. s = cio[ulink[u]] \/ (cio[ulink[u]] = "open" /\ s = "queued") BY <2>2 DEF HioWrite
  <2>4. cio'[ulink[u]] = s /\ \A d \in Conns \ {ulink[u]} : cio'[d] = cio[d]
    BY <2>1, <2>2 DEF TypeOK
  <2>5. UNCHANGED <<uio, ulink, clink, from, fwd>> BY <1>3 DEF UpstreamData
  <2> QED BY <2>1, <2>3, <2>4, <2>5, OwnerAccepted DEF EndsFor
<1>4. CASE UpstreamEof(u)
  BY <1>1, <1>4, CloseUpstreamEnds DEF UpstreamEof, Connected
<1>5. CASE UpstreamError(u)
  BY <1>5, CloseUpstreamEnds DEF UpstreamError, Connected
<1>6. CASE UpstreamFlushed(u)
  BY <1>6, CloseUpstreamEnds DEF UpstreamFlushed
<1> QED BY <1>2, <1>3, <1>4, <1>5, <1>6 DEF UpstreamNext

\* Reading only goes on.
LEMMA PosGrows ==
  ASSUME TypeOK, Safe, [Next]_vars
  PROVE  \A d \in Conns : pos[d] \in Nat /\ pos'[d] \in Nat /\ pos'[d] >= pos[d]
<1>1. pos \in [Conns -> Nat] BY DEF TypeOK
<1>2. CASE UNCHANGED pos BY <1>1, <1>2
<1>3. ASSUME NEW c \in Conns, NEW n \in Nat, n >= pos[c], pos' = [pos EXCEPT ![c] = n]
      PROVE  \A d \in Conns : pos[d] \in Nat /\ pos'[d] \in Nat /\ pos'[d] >= pos[d]
  BY <1>1, <1>3
<1>4. ASSUME NEW c \in Conns, pos' = [pos EXCEPT ![c] = @ + 1]
      PROVE  \A d \in Conns : pos[d] \in Nat /\ pos'[d] \in Nat /\ pos'[d] >= pos[d]
  BY <1>1, <1>4
<1>5. ASSUME NEW c \in Conns, OnRecv(c)
      PROVE  \A d \in Conns : pos[d] \in Nat /\ pos'[d] \in Nat /\ pos'[d] >= pos[d]
  <2>1. CASE RecvFirstLine(c) \/ RecvHead(c) \/ HeadEndFails(c) \/ HeadEndSelf(c) \/ Asks(c)
    BY <1>4, <2>1 DEF RecvFirstLine, RecvHead, HeadEndFails, HeadEndSelf, Asks, Reject,
                      HeadEndConnect, HeadEndConnectFails, SetupUpstream
  <2>2. ASSUME NEW k \in 1..Len(stream[c]), RecvBody(c, k) \/ RecvAfterEnd(c, k)
        PROVE  \A d \in Conns : pos[d] \in Nat /\ pos'[d] \in Nat /\ pos'[d] >= pos[d]
    <3>1. k \in Nat /\ k >= pos[c] /\ pos' = [pos EXCEPT ![c] = k]
      BY <1>1, <2>2 DEF RecvBody, RecvAfterEnd
    <3> QED BY <1>3, <3>1
  <2>3. CASE RecvRefusedBody(c)
    <3>1. req[c].content_length \in Nat BY DEF TypeOK, Request
    <3>2. pos' = [pos EXCEPT ![c] = pos[c] + req[c].content_length]
      BY <2>3 DEF RecvRefusedBody
    <3> QED BY <1>1, <1>3, <3>1, <3>2
  <2> QED BY <1>5, <2>1, <2>2, <2>3 DEF OnRecv, Asks
<1>6. ASSUME NEW c \in Conns, ClientNext(c), ~OnRecv(c) PROVE UNCHANGED pos
  BY <1>6 DEF ClientNext, Attach, ClientFlushed, ClientEof, ClientFails, OnlyIosChange, reqVars
<1>7. ASSUME NEW u \in Ups, UpstreamNext(u) PROVE UNCHANGED pos
  BY <1>7 DEF UpstreamNext, OnUpstreamConnect, ConnectFails, UpstreamData, UpstreamEof,
              UpstreamError, UpstreamFlushed, OnlyIosChange, reqVars
<1> QED BY <1>2, <1>5, <1>6, <1>7 DEF Next, vars

-----------------------------------------------------------------------------
(* What upstreams were given, step by step.                                *)

LEMMA FrameDelivered ==
  ASSUME TypeOK, Safe, StreamSafe, [Next]_vars, UNCHANGED <<ulink, clink, from, fwd>>,
         \A u \in Ups : uio'[u] \in {"none", "connecting"} => uio'[u] = uio[u]
  PROVE  Delivered'
<1>1. \A d \in Conns : pos[d] \in Nat /\ pos'[d] \in Nat /\ pos'[d] >= pos[d] BY PosGrows
<1>2. \A u \in Ups : from[u] \in Nat /\ \A i \in 1..Len(fwd[u]) : fwd[u][i] \in Nat
  BY DEF TypeOK
<1>3. Unused' BY DEF StreamSafe, Delivered, Unused
<1>4. HeadOnceThenInOrder' BY DEF StreamSafe, Delivered, HeadOnceThenInOrder
<1>5. GivenWasRead'
  <2> SUFFICES ASSUME NEW u \in Ups, ulink[u] \in Conns
               PROVE  /\ from[u] > 0 /\ from[u] <= pos'[ulink[u]]
                      /\ \A i \in 1..Len(fwd[u]) : fwd[u][i] <= pos'[ulink[u]]
    BY DEF GivenWasRead
  <2>1. /\ from[u] > 0 /\ from[u] <= pos[ulink[u]]
        /\ \A i \in 1..Len(fwd[u]) : fwd[u][i] <= pos[ulink[u]]
    BY DEF StreamSafe, Delivered, GivenWasRead
  <2>2. pos[ulink[u]] \in Nat /\ pos'[ulink[u]] \in Nat /\ pos'[ulink[u]] >= pos[ulink[u]]
    BY <1>1
  <2> QED BY <1>2, <2>1, <2>2
<1>6. LinkedIsLatest' BY DEF StreamSafe, Delivered, LinkedIsLatest
<1>7. EarlierUpstreamGetsNoLaterCell'
  BY DEF StreamSafe, Delivered, EarlierUpstreamGetsNoLaterCell, Cells
<1> QED BY <1>3, <1>4, <1>5, <1>6, <1>7 DEF Delivered

LEMMA AskDelivered ==
  ASSUME TypeOK, Safe, StreamSafe, [Next]_vars, NEW c \in Conns, NEW u \in Ups,
         SetupUpstream(c, u), NEW s \in {"connecting", "closed"},
         uio' = [uio EXCEPT ![u] = s]
  PROVE  Delivered'
<1>1. \A d \in Conns : pos[d] \in Nat /\ pos'[d] \in Nat /\ pos'[d] >= pos[d] BY PosGrows
<1>2. \A v \in Ups : from[v] \in Nat /\ \A i \in 1..Len(fwd[v]) : fwd[v][i] \in Nat
  BY DEF TypeOK
<1>3. /\ uio[u] = "none" /\ uio'[u] = s /\ \A v \in Ups \ {u} : uio'[v] = uio[v]
      /\ ulink'[u] = c /\ \A v \in Ups \ {u} : ulink'[v] = ulink[v]
      /\ clink'[c] = u /\ \A d \in Conns \ {c} : clink'[d] = clink[d]
      /\ from'[u] = pos[c] + 1 /\ \A v \in Ups \ {u} : from'[v] = from[v]
      /\ pos'[c] = pos[c] + 1 /\ fwd' = fwd
  BY DEF SetupUpstream, LinkUpstream, TypeOK
<1>4. fwd[u] = <<>> /\ Len(fwd[u]) = 0 /\ ulink[u] = NoIo
  BY <1>3 DEF StreamSafe, Delivered, Unused
<1>5. Unused'
  <2>1. \A v \in Ups \ {u} : /\ uio[v] = "none" => ulink[v] = NoIo /\ from[v] = 0
                             /\ uio[v] \in {"none", "connecting"} => fwd[v] = <<>>
    BY DEF StreamSafe, Delivered, Unused
  <2> QED BY <1>3, <1>4, <2>1 DEF Unused
<1>6. HeadOnceThenInOrder'
  <2> SUFFICES ASSUME NEW v \in Ups, NEW i \in 1..Len(fwd[v])
               PROVE  /\ (fwd[v][i] = 0) <=> (i = 1)
                      /\ i > 1 => fwd[v][i] > from'[v]
                      /\ i > 2 => fwd[v][i] > fwd[v][i - 1]
    BY <1>3 DEF HeadOnceThenInOrder
  <2>1. v # u BY <1>4
  <2> QED BY <1>3, <2>1 DEF StreamSafe, Delivered, HeadOnceThenInOrder
<1>7. \A v \in Ups : ulink[v] \in Conns =>
        /\ from[v] > 0 /\ from[v] <= pos[ulink[v]]
        /\ \A i \in 1..Len(fwd[v]) : fwd[v][i] <= pos[ulink[v]]
  BY DEF StreamSafe, Delivered, GivenWasRead
<1>8. GivenWasRead'
  <2> SUFFICES ASSUME NEW v \in Ups, ulink'[v] \in Conns
               PROVE  /\ from'[v] > 0 /\ from'[v] <= pos'[ulink'[v]]
                      /\ \A i \in 1..Len(fwd[v]) : fwd[v][i] <= pos'[ulink'[v]]
    BY <1>3 DEF GivenWasRead
  <2>1. CASE v = u BY <1>1, <1>3, <1>4, <2>1
  <2>2. CASE v # u
    <3>1. ulink'[v] = ulink[v] /\ from'[v] = from[v] BY <1>3, <2>2
    <3>2. /\ from[v] > 0 /\ from[v] <= pos[ulink[v]]
          /\ \A i \in 1..Len(fwd[v]) : fwd[v][i] <= pos[ulink[v]]
      BY <1>7, <3>1
    <3>3. pos[ulink[v]] \in Nat /\ pos'[ulink[v]] \in Nat /\ pos'[ulink[v]] >= pos[ulink[v]]
      BY <1>1, <3>1
    <3> QED BY <1>2, <3>1, <3>2, <3>3
  <2> QED BY <2>1, <2>2
<1>9. LinkedIsLatest'
  <2> SUFFICES ASSUME NEW v \in Ups, ulink'[v] \in Conns
               PROVE  /\ clink'[ulink'[v]] \in Ups
                      /\ v # clink'[ulink'[v]] =>
                           /\ from'[v] < from'[clink'[ulink'[v]]]
                           /\ \A i \in 1..Len(fwd[v]) : fwd[v][i] < from'[clink'[ulink'[v]]]
    BY <1>3 DEF LinkedIsLatest
  <2>1. CASE v = u BY <1>3, <2>1
  <2>2. CASE v # u /\ ulink[v] = c
    <3>1. clink'[ulink'[v]] = u /\ from'[v] = from[v] BY <1>3, <2>2
    <3>2. /\ from[v] <= pos[c] /\ \A i \in 1..Len(fwd[v]) : fwd[v][i] <= pos[c]
      BY <1>7, <2>2
    <3> QED BY <1>1, <1>2, <1>3, <3>1, <3>2
  <2>3. CASE v # u /\ ulink[v] # c
    <3>1. /\ ulink'[v] = ulink[v] /\ clink'[ulink'[v]] = clink[ulink[v]] /\ from'[v] = from[v]
          /\ ulink[v] \in Conns
      BY <1>3, <2>3
    <3>2. /\ clink[ulink[v]] \in Ups
          /\ v # clink[ulink[v]] =>
               /\ from[v] < from[clink[ulink[v]]]
               /\ \A i \in 1..Len(fwd[v]) : fwd[v][i] < from[clink[ulink[v]]]
      BY <3>1 DEF StreamSafe, Delivered, LinkedIsLatest
    <3>3. clink[ulink[v]] # u
      BY <1>4, <3>1, <3>2, IoAssumption DEF Safe, LinksAgree
    <3> QED BY <1>3, <3>1, <3>2, <3>3
  <2> QED BY <2>1, <2>2, <2>3
<1>10. EarlierUpstreamGetsNoLaterCell'
  <2> SUFFICES ASSUME NEW v \in Ups, NEW w \in Ups, ulink'[v] \in Conns, ulink'[v] = ulink'[w],
                      from'[v] < from'[w], NEW i \in 1..Len(fwd[v])
               PROVE  fwd[v][i] < from'[w]
    BY <1>3 DEF EarlierUpstreamGetsNoLaterCell, Cells
  <2>1. v # u BY <1>4
  <2>2. ulink'[v] = ulink[v] /\ from'[v] = from[v] BY <1>3, <2>1
  <2>3. CASE w = u
    <3>1. fwd[v][i] <= pos[c] BY <1>3, <1>7, <2>2, <2>3
    <3> QED BY <1>1, <1>2, <1>3, <2>3, <3>1
  <2>4. CASE w # u
    BY <1>3, <2>2, <2>4 DEF StreamSafe, Delivered, EarlierUpstreamGetsNoLaterCell, Cells
  <2> QED BY <2>3, <2>4
<1> QED BY <1>5, <1>6, <1>8, <1>9, <1>10 DEF Delivered

\* The head, or what follows what the linked upstream was given before.
LEMMA GiveDelivered ==
  ASSUME TypeOK, Safe, StreamSafe, [Next]_vars, NEW u \in Ups, ulink[u] \in Conns,
         clink[ulink[u]] = u, uio[u] # "none",
         NEW new \in Seq(Nat), fwd' = [fwd EXCEPT ![u] = new],
         uio'[u] \notin {"none", "connecting"},
         \A v \in Ups \ {u} : uio'[v] = uio[v],
         UNCHANGED <<ulink, clink, from>>,
         \A i \in 1..Len(new) :
           /\ (new[i] = 0) <=> (i = 1)
           /\ i > 1 => new[i] > from[u]
           /\ i > 2 => new[i] > new[i - 1]
           /\ new[i] <= pos'[ulink[u]]
  PROVE  Delivered'
<1>1. \A d \in Conns : pos[d] \in Nat /\ pos'[d] \in Nat /\ pos'[d] >= pos[d] BY PosGrows
<1>2. \A v \in Ups : from[v] \in Nat /\ \A i \in 1..Len(fwd[v]) : fwd[v][i] \in Nat
  BY DEF TypeOK
<1>3. fwd'[u] = new /\ \A v \in Ups \ {u} : fwd'[v] = fwd[v] BY DEF TypeOK
<1>4. Unused' BY <1>3 DEF StreamSafe, Delivered, Unused
<1>5. HeadOnceThenInOrder'
  <2> SUFFICES ASSUME NEW v \in Ups, NEW i \in 1..Len(fwd'[v])
               PROVE  /\ (fwd'[v][i] = 0) <=> (i = 1)
                      /\ i > 1 => fwd'[v][i] > from[v]
                      /\ i > 2 => fwd'[v][i] > fwd'[v][i - 1]
    BY DEF HeadOnceThenInOrder
  <2>1. CASE v = u BY <1>3, <2>1
  <2>2. CASE v # u BY <1>3, <2>2 DEF StreamSafe, Delivered, HeadOnceThenInOrder
  <2> QED BY <2>1, <2>2
<1>6. GivenWasRead'
  <2> SUFFICES ASSUME NEW v \in Ups, ulink[v] \in Conns
               PROVE  /\ from[v] > 0 /\ from[v] <= pos'[ulink[v]]
                      /\ \A i \in 1..Len(fwd'[v]) : fwd'[v][i] <= pos'[ulink[v]]
    BY DEF GivenWasRead
  <2>1. /\ from[v] > 0 /\ from[v] <= pos[ulink[v]]
        /\ \A i \in 1..Len(fwd[v]) : fwd[v][i] <= pos[ulink[v]]
    BY DEF StreamSafe, Delivered, GivenWasRead
  <2>2. pos[ulink[v]] \in Nat /\ pos'[ulink[v]] \in Nat /\ pos'[ulink[v]] >= pos[ulink[v]]
    BY <1>1
  <2>3. from[v] > 0 /\ from[v] <= pos'[ulink[v]] BY <1>2, <2>1, <2>2
  <2>4. CASE v = u BY <1>3, <2>3, <2>4
  <2>5. CASE v # u BY <1>2, <1>3, <2>1, <2>2, <2>3, <2>5
  <2> QED BY <2>4, <2>5
<1>7. LinkedIsLatest'
  <2> SUFFICES ASSUME NEW v \in Ups, ulink[v] \in Conns
               PROVE  /\ clink[ulink[v]] \in Ups
                      /\ v # clink[ulink[v]] =>
                           /\ from[v] < from[clink[ulink[v]]]
                           /\ \A i \in 1..Len(fwd'[v]) : fwd'[v][i] < from[clink[ulink[v]]]
    BY DEF LinkedIsLatest
  <2>1. /\ clink[ulink[v]] \in Ups
        /\ v # clink[ulink[v]] =>
             /\ from[v] < from[clink[ulink[v]]]
             /\ \A i \in 1..Len(fwd[v]) : fwd[v][i] < from[clink[ulink[v]]]
    BY DEF StreamSafe, Delivered, LinkedIsLatest
  <2>2. CASE v = u BY <2>1, <2>2
  <2>3. CASE v # u BY <1>3, <2>1, <2>3
  <2> QED BY <2>2, <2>3
<1>8. EarlierUpstreamGetsNoLaterCell'
  <2> SUFFICES ASSUME NEW v \in Ups, NEW w \in Ups, ulink[v] \in Conns, ulink[v] = ulink[w],
                      from[v] < from[w], NEW i \in 1..Len(fwd'[v])
               PROVE  fwd'[v][i] < from[w]
    BY DEF EarlierUpstreamGetsNoLaterCell, Cells
  <2>1. CASE v = u
    <3>1. w # u /\ from[w] < from[u]
      BY <1>2, <2>1 DEF StreamSafe, Delivered, LinkedIsLatest
    <3> QED BY <1>2, <2>1, <3>1
  <2>2. CASE v # u
    BY <1>3, <2>2 DEF StreamSafe, Delivered, EarlierUpstreamGetsNoLaterCell, Cells
  <2> QED BY <2>1, <2>2
<1> QED BY <1>4, <1>5, <1>6, <1>7, <1>8 DEF Delivered

LEMMA HeadWrittenDelivered ==
  ASSUME TypeOK, Safe, StreamSafe, [Next]_vars, NEW u \in Ups, OnUpstreamConnect(u)
  PROVE  Delivered'
<1>1. uio[u] = "connecting" /\ UNCHANGED <<ulink, clink, from, pos>>
  BY DEF OnUpstreamConnect
<1>2. ulink[u] \in Conns /\ clink[ulink[u]] = u BY <1>1 DEF Safe, ConnectParksClient
<1>3. CASE HeadWritten(u, ulink[u])
  <2>1. fwd' = [fwd EXCEPT ![u] = <<0>>] BY <1>3 DEF HeadWritten
  <2>2. uio'[u] = "open" /\ \A v \in Ups \ {u} : uio'[v] = uio[v]
    BY <1>3 DEF HeadWritten, TypeOK
  <2>3. <<0>> \in Seq(Nat) /\ Len(<<0>>) = 1 /\ <<0>>[1] = 0 OBVIOUS
  <2>4. \A d \in Conns : pos'[d] \in Nat BY PosGrows
  <2> DEFINE new == <<0>>
  <2>5. ASSUME NEW i \in 1..Len(new)
        PROVE  /\ (new[i] = 0) <=> (i = 1)
               /\ i > 1 => new[i] > from[u]
               /\ i > 2 => new[i] > new[i - 1]
               /\ new[i] <= pos'[ulink[u]]
    <3>1. i = 1 BY <2>3
    <3>2. pos'[ulink[u]] \in Nat BY <1>2, <2>4
    <3> QED BY <2>3, <3>1, <3>2
  <2>6. new \in Seq(Nat) /\ fwd' = [fwd EXCEPT ![u] = new] BY <2>1, <2>3
  <2> HIDE DEF new
  <2> QED BY <1>1, <1>2, <2>2, <2>5, <2>6, GiveDelivered
<1>4. CASE HeadNotWritten(u)
  <2>1. UNCHANGED <<ulink, clink, from, fwd>> BY <1>1, <1>4 DEF HeadNotWritten
  <2>2. \A v \in Ups : uio'[v] \in {"none", "connecting"} => uio'[v] = uio[v]
    BY <1>4 DEF HeadNotWritten, TypeOK
  <2> QED BY <2>1, <2>2, FrameDelivered
<1> QED BY <1>3, <1>4 DEF OnUpstreamConnect

\* What a chunk of cells does to the upstream objects.
LEMMA BodyWrites ==
  ASSUME TypeOK, Safe, StreamSafe, NEW c \in Conns, NEW k \in 1..Len(stream[c]),
         RecvBody(c, k)
  PROVE  \/ UNCHANGED <<uio, fwd>>
         \/ /\ clink[c] \in Ups /\ UNCHANGED fwd
            /\ uio[clink[c]] \in {"open", "broken"} /\ uio' = [uio EXCEPT ![clink[c]] = "broken"]
         \/ /\ clink[c] \in Ups /\ req[c].connected /\ pos' = [pos EXCEPT ![c] = k]
            /\ k \in Nat /\ k > pos[c]
            /\ uio[clink[c]] \in {"open", "queued", "closing"}
            /\ \E s \in {"open", "queued", "closing"} : uio' = [uio EXCEPT ![clink[c]] = s]
            /\ fwd' = [fwd EXCEPT ![clink[c]] = @ \o [i \in 1..(k - pos[c]) |-> pos[c] + i]]
<1>1. k \in (pos[c] + 1)..Len(stream[c]) /\ OnBody(c, k) /\ pos' = [pos EXCEPT ![c] = k]
  BY DEF RecvBody
<1>2. pos[c] \in Nat BY DEF TypeOK
<1>3. k \in Nat /\ k > pos[c] BY <1>1, <1>2
<1> DEFINE chunk == [i \in 1..(k - pos[c]) |-> pos[c] + i]
<1>4. UNCHANGED <<uio, fwd>> \/ (req[c].connected /\ WriteUpstream(clink[c], chunk))
  BY <1>1 DEF OnBody
<1> HIDE DEF chunk
<1>5. CASE req[c].connected /\ WriteUpstream(clink[c], chunk)
  <2>1. clink[c] \in Ups BY <1>5 DEF StreamSafe, ConnectedHasHead
  <2>2. \A x \in {"open", "queued", "closing"} : HioWrite(x) \subseteq {"open", "queued", "closing"}
    BY DEF HioWrite
  <2>3. \/ UNCHANGED <<uio, fwd>>
        \/ /\ UNCHANGED fwd
           /\ uio[clink[c]] \in {"open", "broken"} /\ uio' = [uio EXCEPT ![clink[c]] = "broken"]
        \/ /\ uio[clink[c]] \in {"open", "queued", "closing"}
           /\ \E s \in {"open", "queued", "closing"} : uio' = [uio EXCEPT ![clink[c]] = s]
           /\ fwd' = [fwd EXCEPT ![clink[c]] = @ \o chunk]
    BY <1>5, <2>2 DEF WriteUpstream
  <2> QED BY <1>1, <1>3, <1>5, <2>1, <2>3 DEF chunk
<1> QED BY <1>4, <1>5

\* The cells p+1 .. p+n as a sequence.
LEMMA ChunkCells ==
  ASSUME NEW p \in Nat, NEW n \in Nat
  PROVE  /\ [i \in 1..n |-> p + i] \in Seq(Nat)
         /\ Len([i \in 1..n |-> p + i]) = n
         /\ \A j \in 1..n : [i \in 1..n |-> p + i][j] = p + j
<1>1. \A i \in 1..n : p + i \in Nat OBVIOUS
<1>2. [i \in 1..n |-> p + i] \in [1..n -> Nat] BY <1>1
<1>3. [i \in 1..n |-> p + i] \in Seq(Nat) BY <1>2
<1>4. DOMAIN [i \in 1..n |-> p + i] = 1..n OBVIOUS
<1>5. Len([i \in 1..n |-> p + i]) = n BY <1>3, <1>4
<1> QED BY <1>3, <1>5

\* A head, then cells after f and up to m, in order.
InOrder(s, f, m) ==
  \A i \in 1..Len(s) :
    /\ (s[i] = 0) <=> (i = 1)
    /\ i > 1 => s[i] > f
    /\ i > 2 => s[i] > s[i - 1]
    /\ s[i] <= m

\* Cells appended after what was read keep the order.
LEMMA ChunkInOrder ==
  ASSUME NEW old \in Seq(Nat), NEW p \in Nat, NEW k \in Nat, k > p, NEW f \in Nat, f <= p,
         Len(old) >= 1, NEW chunk \in Seq(Nat), Len(chunk) = k - p,
         \A i \in 1..Len(chunk) : chunk[i] = p + i, InOrder(old, f, p)
  PROVE  /\ old \o chunk \in Seq(Nat)
         /\ Len(old \o chunk) > Len(old)
         /\ \A i \in 1..Len(old) : (old \o chunk)[i] = old[i]
         /\ InOrder(old \o chunk, f, k)
<1> DEFINE new == old \o chunk
           m == Len(old)
<1>1. /\ new \in Seq(Nat) /\ Len(new) = m + Len(chunk)
      /\ \A i \in 1..Len(new) : new[i] = IF i <= m THEN old[i] ELSE chunk[i - m]
  <2>1. old \in Seq(Nat) /\ chunk \in Seq(Nat) OBVIOUS
  <2>2. new \in Seq(Nat) /\ Len(new) = m + Len(chunk) BY ONLY <2>1
  <2>3. \A i \in 1..m + Len(chunk) : new[i] = IF i <= m THEN old[i] ELSE chunk[i - m]
    BY ONLY <2>1
  <2> HIDE DEF new
  <2> QED BY <2>2, <2>3
<1>2. \A i \in 1..m : old[i] \in Nat OBVIOUS
<1>3. m \in Nat /\ m >= 1 /\ k - p \in Nat /\ k - p >= 1 OBVIOUS
<1>4. \A i \in 1..m : new[i] = old[i] BY <1>1, <1>3 DEF new
<1>5. Len(new) = m + (k - p) BY <1>1
<1> HIDE DEF new, m
<1>6. ASSUME NEW i \in m + 1..Len(new) PROVE new[i] = p + (i - m) /\ i \in Nat /\ i - m \in 1..(k - p)
  <2>1. i - m \in 1..(k - p) /\ i \in 1..m + (k - p) /\ ~(i <= m) BY <1>3, <1>5
  <2>2. new[i] = chunk[i - m] BY <1>1, <2>1
  <2>3. chunk[i - m] = p + (i - m) BY <2>1
  <2> QED BY <2>1, <2>2, <2>3
<1>7. ASSUME NEW i \in 1..Len(new)
      PROVE  /\ (new[i] = 0) <=> (i = 1)
             /\ i > 1 => new[i] > f
             /\ i > 2 => new[i] > new[i - 1]
             /\ new[i] <= k
  <2>1. CASE i <= m
    <3>1. i \in 1..m /\ new[i] = old[i] BY <1>3, <1>4, <2>1
    <3>2. i > 2 => i - 1 \in 1..m /\ new[i - 1] = old[i - 1] BY <1>3, <1>4, <3>1
    <3>3. /\ (old[i] = 0) <=> (i = 1)
          /\ i > 1 => old[i] > f
          /\ i > 2 => old[i] > old[i - 1]
          /\ old[i] <= p /\ old[i] \in Nat
      BY <1>2, <3>1 DEF m, InOrder
    <3> QED BY <3>1, <3>2, <3>3
  <2>2. CASE i > m
    <3>1. i \in m + 1..Len(new) BY <1>3, <2>2
    <3>2. new[i] = p + (i - m) /\ i - m \in 1..(k - p) BY <1>6, <3>1
    <3>3. new[i] > p /\ new[i] <= k /\ i > 1 BY <1>3, <2>2, <3>2
    <3>4. CASE i = m + 1
      <4>1. m \in 1..m /\ i - 1 = m BY <1>3, <3>4
      <4>2. new[m] = old[m] /\ old[m] <= p /\ old[m] \in Nat
        BY <1>2, <1>4, <4>1 DEF m, InOrder
      <4>3. new[i] > new[i - 1] /\ new[i] > f /\ new[i] # 0 BY <1>3, <3>2, <3>4, <4>1, <4>2
      <4> QED BY <3>3, <4>3
    <3>5. CASE i # m + 1
      <4>1. i - 1 \in m + 1..Len(new) BY <1>3, <1>5, <3>1, <3>5
      <4>2. new[i - 1] = p + (i - 1 - m) BY <1>6, <4>1
      <4> QED BY <1>3, <3>1, <3>2, <3>3, <4>2
    <3> QED BY <3>4, <3>5
  <2> QED BY <1>3, <2>1, <2>2
<1>8. Len(new) > m BY <1>3, <1>5
<1>9. InOrder(new, f, k) BY <1>7 DEF InOrder
<1> QED BY <1>1, <1>4, <1>8, <1>9 DEF new, m

\* A chunk that reaches the socket of the upstream.
BodyGiven(c, k) ==
  /\ clink[c] \in Ups /\ req[c].connected /\ pos' = [pos EXCEPT ![c] = k]
  /\ k \in Nat /\ k > pos[c]
  /\ uio[clink[c]] \in {"open", "queued", "closing"}
  /\ \E s \in {"open", "queued", "closing"} : uio' = [uio EXCEPT ![clink[c]] = s]
  /\ fwd' = [fwd EXCEPT ![clink[c]] = @ \o [i \in 1..(k - pos[c]) |-> pos[c] + i]]

LEMMA BodyAppends ==
  ASSUME TypeOK, Safe, StreamSafe, NEW c \in Conns, NEW k, BodyGiven(c, k)
  PROVE  \E new \in Seq(Nat) :
           /\ fwd' = [fwd EXCEPT ![clink[c]] = new]
           /\ fwd[clink[c]] # <<>> /\ Len(new) > Len(fwd[clink[c]])
           /\ \A i \in 1..Len(fwd[clink[c]]) : new[i] = fwd[clink[c]][i]
           /\ InOrder(new, from[clink[c]], pos'[c])
<1> DEFINE u == clink[c]
           chunk == [i \in 1..(k - pos[c]) |-> pos[c] + i]
<1>1. u \in Ups /\ ulink[u] = c /\ ulink[u] \in Conns BY DEF BodyGiven, Safe, LinksAgree
<1>2. pos[c] \in Nat /\ pos'[c] = k /\ k \in Nat /\ k > pos[c] BY DEF BodyGiven, TypeOK
<1>3. fwd[u] \in Seq(Nat) /\ from[u] \in Nat BY <1>1 DEF TypeOK
<1>4. k - pos[c] \in Nat BY <1>2
<1>5. chunk \in Seq(Nat) /\ Len(chunk) = k - pos[c]
      /\ \A i \in 1..Len(chunk) : chunk[i] = pos[c] + i
  BY <1>2, <1>4, ChunkCells
<1>6. fwd' = [fwd EXCEPT ![u] = fwd[u] \o chunk] BY DEF BodyGiven
<1>7. fwd[u] # <<>> BY DEF BodyGiven, StreamSafe, ConnectedHasHead
<1>8. Len(fwd[u]) >= 1 BY <1>3, <1>7, EmptySeq
<1>9. from[u] <= pos[c] BY <1>1 DEF StreamSafe, Delivered, GivenWasRead
<1>10. InOrder(fwd[u], from[u], pos[c])
  BY <1>1 DEF StreamSafe, Delivered, HeadOnceThenInOrder, GivenWasRead, InOrder
<1> HIDE DEF chunk, u
<1>11. /\ fwd[u] \o chunk \in Seq(Nat)
       /\ Len(fwd[u] \o chunk) > Len(fwd[u])
       /\ \A i \in 1..Len(fwd[u]) : (fwd[u] \o chunk)[i] = fwd[u][i]
       /\ InOrder(fwd[u] \o chunk, from[u], k)
  <2>1. pos[c] \in Nat /\ k \in Nat /\ k > pos[c] BY <1>2
  <2>2. fwd[u] \in Seq(Nat) /\ from[u] \in Nat /\ from[u] <= pos[c] /\ Len(fwd[u]) >= 1
    BY <1>3, <1>8, <1>9
  <2>3. chunk \in Seq(Nat) /\ Len(chunk) = k - pos[c] BY <1>5
  <2>4. \A i \in 1..Len(chunk) : chunk[i] = pos[c] + i BY <1>5
  <2> QED BY ONLY <2>1, <2>2, <2>3, <2>4, <1>10, ChunkInOrder
<1>12. pos'[c] = k BY <1>2
<1> DEFINE new == fwd[u] \o chunk
<1>13. /\ new \in Seq(Nat) /\ fwd' = [fwd EXCEPT ![u] = new]
       /\ fwd[u] # <<>> /\ Len(new) > Len(fwd[u])
       /\ \A i \in 1..Len(fwd[u]) : new[i] = fwd[u][i]
       /\ InOrder(new, from[u], pos'[c])
  BY <1>6, <1>7, <1>11, <1>12
<1> HIDE DEF new
<1> QED BY <1>13 DEF u

LEMMA RecvBodyDelivered ==
  ASSUME TypeOK, Safe, StreamSafe, [Next]_vars, NEW c \in Conns, NEW k \in 1..Len(stream[c]),
         RecvBody(c, k)
  PROVE  Delivered'
<1>1. UNCHANGED <<ulink, clink, from>> BY DEF RecvBody
<1>2. CASE UNCHANGED <<uio, fwd>> BY <1>1, <1>2, FrameDelivered
<1>3. CASE /\ clink[c] \in Ups /\ UNCHANGED fwd
           /\ uio[clink[c]] \in {"open", "broken"} /\ uio' = [uio EXCEPT ![clink[c]] = "broken"]
  <2>1. \A v \in Ups : uio'[v] \in {"none", "connecting"} => uio'[v] = uio[v]
    BY <1>3 DEF TypeOK
  <2> QED BY <1>1, <1>3, <2>1, FrameDelivered
<1>4. CASE BodyGiven(c, k)
  <2>1. clink[c] \in Ups /\ ulink[clink[c]] = c /\ uio[clink[c]] # "none"
    BY <1>4 DEF BodyGiven, Safe, LinksAgree
  <2>2. PICK new \in Seq(Nat) :
          /\ fwd' = [fwd EXCEPT ![clink[c]] = new]
          /\ InOrder(new, from[clink[c]], pos'[c])
    BY <1>4, BodyAppends
  <2>3. uio'[clink[c]] \notin {"none", "connecting"}
        /\ \A v \in Ups \ {clink[c]} : uio'[v] = uio[v]
    BY <1>4 DEF BodyGiven, TypeOK
  <2> QED BY <1>1, <2>1, <2>2, <2>3, GiveDelivered DEF InOrder
<1> QED BY <1>2, <1>3, <1>4, BodyWrites DEF BodyGiven

LEMMA DeliveredStep == TypeOK /\ Safe /\ StreamSafe /\ [Next]_vars => Delivered'
<1> SUFFICES ASSUME TypeOK, Safe, StreamSafe, [Next]_vars PROVE Delivered' OBVIOUS
<1>1. ASSUME NEW c, EndsFor(c) PROVE Delivered'
  <2>1. \A u \in Ups : uio'[u] \in {"none", "connecting"} => uio'[u] = uio[u]
    BY <1>1 DEF EndsFor
  <2> QED BY <1>1, <2>1, FrameDelivered DEF EndsFor
<1>2. ASSUME NEW c \in Conns, ClientNext(c) PROVE Delivered'
  <2>1. CASE Attach(c)
    BY <2>1, FrameDelivered DEF Attach, upVars
  <2>2. CASE Asks(c)
    <3>1. PICK u \in Ups : HeadEndConnect(c, u) \/ HeadEndConnectFails(c, u)
      BY <2>2 DEF Asks
    <3>2. SetupUpstream(c, u) /\ \E s \in {"connecting", "closed"} : uio' = [uio EXCEPT ![u] = s]
      BY <3>1 DEF HeadEndConnect, HeadEndConnectFails
    <3> QED BY <3>2, AskDelivered
  <2>3. CASE Gives(c)
    BY <2>3, RecvBodyDelivered DEF Gives
  <2>4. CASE ~Attach(c) /\ ~Asks(c) /\ ~Gives(c)
    BY <1>1, <1>2, <2>4, ClientEnds
  <2> QED BY <2>1, <2>2, <2>3, <2>4
<1>3. ASSUME NEW u \in Ups, UpstreamNext(u) PROVE Delivered'
  BY <1>1, <1>3, HeadWrittenDelivered, UpstreamEnds
<1>4. CASE UNCHANGED vars
  BY <1>4, FrameDelivered DEF vars
<1> QED BY <1>2, <1>3, <1>4 DEF Next

-----------------------------------------------------------------------------
(* The request of a client, step by step.                                  *)

\* The request of c goes on as it is, starts from nothing, or is past its start
\* and not connected by this step.
Goes(c) ==
  \/ req'[c] = req[c] /\ state'[c] = state[c]
  \/ req'[c] = Cleared
  \/ state'[c] # "s_first_line" /\ (req'[c].connected => req[c].connected)

\* The requests of the others are left alone.
Others(c) == \A d \in Conns \ {c} : req'[d] = req[d] /\ state'[d] = state[d]

LEMMA RefuseGoes ==
  ASSUME TypeOK, NEW c \in Conns, NEW r, r.connected = req[c].connected, Refuse(c, r)
  PROVE  Goes(c) /\ Others(c)
<1>1. req \in [Conns -> Request] /\ state \in [Conns -> ConnStates] BY DEF TypeOK
<1>2. CASE NextRequest(c)
  BY <1>1, <1>2 DEF NextRequest, Goes, Others
<1>3. CASE req' = [req EXCEPT ![c] = r] /\ state' = [state EXCEPT ![c] = "s_end"]
  BY <1>1, <1>3 DEF Goes, Others
<1> QED BY <1>2, <1>3 DEF Refuse

LEMMA ClientGoes ==
  ASSUME TypeOK, Safe, StreamSafe, NEW c \in Conns, ClientNext(c), ~Attach(c)
  PROVE  Goes(c) /\ Others(c)
<1>1. req \in [Conns -> Request] /\ state \in [Conns -> ConnStates] BY DEF TypeOK
<1>2. CASE UNCHANGED <<req, state>> BY <1>2 DEF Goes, Others
<1>3. CASE NextRequest(c)
  BY <1>1, <1>3 DEF NextRequest, Goes, Others
<1>4. ASSUME NEW x, x # "s_first_line", state' = [state EXCEPT ![c] = x],
             NEW r, req' = [req EXCEPT ![c] = r], r.connected => req[c].connected
      PROVE  Goes(c) /\ Others(c)
  BY <1>1, <1>4 DEF Goes, Others
<1>5. CASE RecvFirstLine(c)
  <2>1. CASE ~Reject(c)
    <3>1. state' = [state EXCEPT ![c] = "s_head"] BY <1>5, <2>1 DEF RecvFirstLine
    <3>2. req' = [req EXCEPT ![c].keepalive = NextCell(c).kind = "http11",
                             ![c].port = NextCell(c).val]
      BY <1>5, <2>1 DEF RecvFirstLine
    <3>3. req'[c].connected = req[c].connected BY <1>1, <3>2 DEF Request
    <3> QED BY <1>1, <3>1, <3>2, <3>3 DEF Goes, Others
  <2> QED BY <1>2, <2>1 DEF Reject
<1>6. CASE RecvHead(c)
  <2>1. CASE ~Reject(c)
    <3>1. UNCHANGED state /\ state[c] = "s_head" BY <1>6, <2>1 DEF RecvHead
    <3>2. req' = [req EXCEPT ![c] = ParseHead(req[c], NextCell(c))]
      BY <1>6, <2>1 DEF RecvHead
    <3>3. ParseHead(req[c], NextCell(c)).connected = req[c].connected
      BY <1>1 DEF ParseHead, Request
    <3> QED BY <1>1, <3>1, <3>2, <3>3 DEF Goes, Others
  <2> QED BY <1>2, <2>1 DEF Reject
<1>7. CASE HeadEndFails(c)
  <2>1. state' = [state EXCEPT ![c] = "s_head_end"] BY <1>7 DEF HeadEndFails
  <2>2. PICK b : req' = [req EXCEPT ![c].proxy = b] BY <1>7 DEF HeadEndFails
  <2>3. req'[c].connected = req[c].connected BY <1>1, <2>2 DEF Request
  <2> QED BY <1>1, <2>1, <2>2, <2>3 DEF Goes, Others
<1>8. CASE HeadEndSelf(c)
  <2> DEFINE r == [req[c] EXCEPT !.proxy = FALSE]
  <2>1. r.connected = req[c].connected BY <1>1 DEF Request
  <2>2. CASE ~Refuse(c, r)
    <3>1. req' = [req EXCEPT ![c] = r] /\ state' = [state EXCEPT ![c] = "s_body"]
      BY <1>8, <2>2 DEF HeadEndSelf
    <3> HIDE DEF r
    <3> QED BY <1>4, <2>1, <3>1
  <2> HIDE DEF r
  <2> QED BY <2>1, <2>2, RefuseGoes
<1>9. CASE Asks(c)
  <2>1. PICK u \in Ups : SetupUpstream(c, u)
    BY <1>9 DEF Asks, HeadEndConnect, HeadEndConnectFails
  <2> DEFINE r == [req[c] EXCEPT !.proxy = TRUE, !.connected = FALSE]
  <2>2. r.connected = FALSE BY <1>1 DEF Request
  <2>3. req' = [req EXCEPT ![c] = r] BY <2>1 DEF SetupUpstream
  <2>4. \E x \in {"s_end", "s_body"} : state' = [state EXCEPT ![c] = x]
    BY <2>1 DEF SetupUpstream
  <2> HIDE DEF r
  <2> QED BY <1>4, <2>2, <2>3, <2>4
<1>10. CASE Gives(c)
  <2>1. PICK k \in 1..Len(stream[c]) : RecvBody(c, k) BY <1>10 DEF Gives
  <2>2. \/ UNCHANGED <<req, state>> \/ NextRequest(c)
        \/ UNCHANGED req /\ state' = [state EXCEPT ![c] = "s_end"]
    BY <2>1 DEF RecvBody
  <2> QED BY <1>1, <1>2, <1>3, <2>2 DEF Goes, Others
<1>11. CASE RecvRefusedBody(c)
  BY <1>11, RefuseGoes DEF RecvRefusedBody
<1>12. CASE \E k \in 1..Len(stream[c]) : RecvAfterEnd(c, k)
  BY <1>2, <1>12 DEF RecvAfterEnd
<1>13. CASE ClientFlushed(c) \/ ClientEof(c) \/ ClientFails(c)
  BY <1>2, <1>13 DEF ClientFlushed, ClientEof, ClientFails, OnlyIosChange, reqVars
<1> QED BY <1>5, <1>6, <1>7, <1>8, <1>9, <1>10, <1>11, <1>12, <1>13
        DEF ClientNext, OnRecv, Asks, Gives

\* The client object of a step that reads, or closes.
LEMMA ClientStays ==
  ASSUME TypeOK, Safe, NEW c \in Conns, ClientNext(c), ~Attach(c)
  PROVE  cio[c] # "none" /\ cio'[c] # "none" /\ \A d \in Conns \ {c} : cio'[d] = cio[d]
<1>1. CASE Asks(c)
  <2>1. PICK u \in Ups : HeadEndConnect(c, u) \/ HeadEndConnectFails(c, u)
    BY <1>1 DEF Asks
  <2>2. Live(cio[c])
    BY <2>1 DEF HeadEndConnect, HeadEndConnectFails, SetupUpstream, HeadEnd, Reading
  <2>3. cio' = cio \/ cio' = [cio EXCEPT ![c] = HioClose(@)]
    BY <2>1 DEF HeadEndConnect, HeadEndConnectFails
  <2> QED BY <2>2, <2>3, HioCloseMoves DEF TypeOK
<1>2. CASE Gives(c)
  BY <1>2 DEF Gives, RecvBody, Reading
<1> QED BY <1>1, <1>2, ClientEnds DEF EndsFor

LEMMA ClearedStep == TypeOK /\ Safe /\ StreamSafe /\ [Next]_vars => ClearedAtStart'
<1> SUFFICES ASSUME TypeOK, Safe, StreamSafe, [Next]_vars PROVE ClearedAtStart' OBVIOUS
<1>1. ClearedAtStart BY DEF StreamSafe
<1>2. ASSUME NEW c \in Conns, cio[c] # "none", cio'[c] # "none",
             \A d \in Conns \ {c} : cio'[d] = cio[d], Goes(c), Others(c)
      PROVE  ClearedAtStart'
  BY <1>1, <1>2 DEF ClearedAtStart, Goes, Others
<1>3. ASSUME NEW c \in Conns, ClientNext(c) PROVE ClearedAtStart'
  <2>1. CASE Attach(c)
    BY <1>1, <2>1 DEF Attach, ClearedAtStart, TypeOK
  <2>2. CASE ~Attach(c)
    BY <1>2, <1>3, <2>2, ClientGoes, ClientStays
  <2> QED BY <2>1, <2>2
<1>4. ASSUME NEW u \in Ups, UpstreamNext(u) PROVE ClearedAtStart'
  <2>1. CASE OnUpstreamConnect(u)
    <3> DEFINE c == ulink[u]
    <3>1. c \in Conns /\ Live(cio[c]) /\ state[c] \in {"s_body", "s_end"} /\ UNCHANGED cio
      BY <2>1 DEF Safe, ConnectParksClient, OnUpstreamConnect
    <3>2. \/ UNCHANGED state /\ \E r : req' = [req EXCEPT ![c] = r]
          \/ NextRequest(c)
          \/ UNCHANGED <<req, state>>
      BY <2>1 DEF OnUpstreamConnect, HeadWritten, HeadNotWritten
    <3> HIDE DEF c
    <3>3. CASE UNCHANGED state /\ \E r : req' = [req EXCEPT ![c] = r]
      <4>1. \A d \in Conns \ {c} : req'[d] = req[d] BY <3>3 DEF TypeOK
      <4> QED BY <1>1, <3>1, <3>3, <4>1 DEF ClearedAtStart
    <3>4. CASE NextRequest(c)
      BY <1>1, <3>1, <3>4 DEF ClearedAtStart, NextRequest, TypeOK
    <3>5. CASE UNCHANGED <<req, state>>
      BY <1>1, <3>1, <3>5 DEF ClearedAtStart
    <3> QED BY <3>2, <3>3, <3>4, <3>5
  <2>2. CASE ~OnUpstreamConnect(u)
    <3>1. EndsFor(ulink[u]) BY <1>4, <2>2, UpstreamEnds
    <3>2. UNCHANGED <<req, state>>
      BY <1>4, <2>2 DEF UpstreamNext, ConnectFails, UpstreamData, UpstreamEof, UpstreamError,
                        UpstreamFlushed, OnlyIosChange, reqVars
    <3>3. \A d \in Conns : cio'[d] = "none" => cio[d] = "none"
      BY <3>1 DEF EndsFor
    <3> QED BY <1>1, <3>2, <3>3 DEF ClearedAtStart
  <2> QED BY <2>1, <2>2
<1>5. CASE UNCHANGED vars
  BY <1>1, <1>5 DEF vars, ClearedAtStart
<1> QED BY <1>3, <1>4, <1>5 DEF Next

LEMMA ConnectedStep == TypeOK /\ Safe /\ StreamSafe /\ [Next]_vars => ConnectedHasHead'
<1> SUFFICES ASSUME TypeOK, Safe, StreamSafe, [Next]_vars PROVE ConnectedHasHead' OBVIOUS
<1>1. ConnectedHasHead BY DEF StreamSafe
<1>2. Cleared.connected = FALSE BY DEF Cleared
<1>3. CASE UNCHANGED <<req, clink, fwd>> BY <1>1, <1>3 DEF ConnectedHasHead
<1>4. ASSUME NEW c \in Conns, ClientNext(c) PROVE ConnectedHasHead'
  <2>1. CASE Attach(c) BY <1>3, <2>1 DEF Attach, upVars
  <2>2. CASE ~Attach(c)
    <3>1. \A d \in Conns : req'[d].connected => req[d].connected
      BY <1>2, <1>4, <2>2, ClientGoes DEF Goes, Others
    <3>2. CASE Asks(c)
      <4>1. PICK u \in Ups : SetupUpstream(c, u)
        BY <3>2 DEF Asks, HeadEndConnect, HeadEndConnectFails
      <4>2. ~req'[c].connected
        <5> DEFINE r == [req[c] EXCEPT !.proxy = TRUE, !.connected = FALSE]
        <5>1. r.connected = FALSE BY DEF TypeOK, Request
        <5>2. req' = [req EXCEPT ![c] = r] BY <4>1 DEF SetupUpstream
        <5> HIDE DEF r
        <5> QED BY <5>1, <5>2 DEF TypeOK
      <4>3. fwd' = fwd /\ \A d \in Conns \ {c} : clink'[d] = clink[d]
        BY <4>1 DEF SetupUpstream, LinkUpstream, TypeOK
      <4> QED BY <1>1, <3>1, <4>2, <4>3 DEF ConnectedHasHead
    <3>3. CASE Gives(c)
      <4>1. PICK k \in 1..Len(stream[c]) : RecvBody(c, k) BY <3>3 DEF Gives
      <4>2. UNCHANGED clink BY <4>1 DEF RecvBody
      <4>3. CASE UNCHANGED fwd BY <1>1, <3>1, <4>2, <4>3 DEF ConnectedHasHead
      <4>4. CASE BodyGiven(c, k)
        <5>1. PICK new \in Seq(Nat) : /\ fwd' = [fwd EXCEPT ![clink[c]] = new]
                                      /\ Len(new) > Len(fwd[clink[c]])
          BY <4>4, BodyAppends
        <5>2. clink[c] \in Ups BY <4>4 DEF BodyGiven
        <5>3. fwd[clink[c]] \in Seq(Nat) BY <5>2 DEF TypeOK
        <5>4. new # <<>> BY <5>1, <5>3
        <5>5. \A v \in Ups : fwd[v] # <<>> => fwd'[v] # <<>> BY <5>1, <5>4 DEF TypeOK
        <5> QED BY <1>1, <3>1, <4>2, <5>5 DEF ConnectedHasHead
      <4> QED BY <4>1, <4>3, <4>4, BodyWrites DEF BodyGiven
    <3>4. CASE ~Asks(c) /\ ~Gives(c)
      <4>1. UNCHANGED <<clink, fwd>> BY <1>4, <2>2, <3>4, ClientEnds DEF EndsFor
      <4> QED BY <1>1, <3>1, <4>1 DEF ConnectedHasHead
    <3> QED BY <3>2, <3>3, <3>4
  <2> QED BY <2>1, <2>2
<1>5. ASSUME NEW u \in Ups, UpstreamNext(u) PROVE ConnectedHasHead'
  <2>1. CASE OnUpstreamConnect(u)
    <3> DEFINE c == ulink[u]
    <3>1. c \in Conns /\ clink[c] = u /\ UNCHANGED clink
      BY <2>1 DEF Safe, ConnectParksClient, OnUpstreamConnect
    <3>2. CASE HeadNotWritten(u) BY <1>3, <3>1, <3>2 DEF HeadNotWritten
    <3>3. CASE HeadWritten(u, c)
      <4>1. \A d \in Conns \ {c} : req'[d] = req[d]
        BY <3>3 DEF HeadWritten, NextRequest, TypeOK
      <4>2. fwd'[u] = <<0>> /\ \A v \in Ups \ {u} : fwd'[v] = fwd[v]
        BY <3>3 DEF HeadWritten, TypeOK
      <4>3. <<0>> # <<>> OBVIOUS
      <4> HIDE DEF c
      <4>4. ASSUME NEW d \in Conns, req'[d].connected
            PROVE  clink'[d] \in Ups /\ fwd'[clink'[d]] # <<>>
        <5>1. CASE d = c BY <3>1, <4>2, <4>3, <5>1
        <5>2. CASE d # c
          <6>1. clink[d] \in Ups /\ fwd[clink[d]] # <<>>
            BY <1>1, <4>1, <4>4, <5>2 DEF ConnectedHasHead
          <6> QED BY <3>1, <4>2, <4>3, <6>1
        <5> QED BY <5>1, <5>2
      <4> QED BY <4>4 DEF ConnectedHasHead
    <3> QED BY <2>1, <3>2, <3>3 DEF OnUpstreamConnect
  <2>2. CASE ~OnUpstreamConnect(u)
    <3>1. UNCHANGED req
      BY <1>5, <2>2 DEF UpstreamNext, ConnectFails, UpstreamData, UpstreamEof, UpstreamError,
                        UpstreamFlushed, OnlyIosChange, reqVars
    <3>2. UNCHANGED <<clink, fwd>> BY <1>5, <2>2, UpstreamEnds DEF EndsFor
    <3> QED BY <1>3, <3>1, <3>2
  <2> QED BY <2>1, <2>2
<1>6. CASE UNCHANGED vars
  BY <1>3, <1>6 DEF vars
<1> QED BY <1>4, <1>5, <1>6 DEF Next

-----------------------------------------------------------------------------
\* In every reachable state the invariant about what was given holds as well.
THEOREM StreamInvariance == Spec => [](TypeOK /\ Safe /\ StreamSafe)
<1>1. Init => StreamSafe BY InitStreamSafe
<1>2. TypeOK /\ Safe /\ StreamSafe /\ [Next]_vars => StreamSafe'
  BY DeliveredStep, ClearedStep, ConnectedStep DEF StreamSafe
<1>3. Spec => [](TypeOK /\ Safe) BY Invariance
<1> QED BY <1>1, <1>2, <1>3, PTL DEF Spec

\* An upstream is given the head of its request once and first, then what the
\* client sent after it, in order and never twice (tsproxy.cpp:366-371, 571-581).
THEOREM GivenInOrder == Spec => []HeadOnceThenInOrder
<1>1. StreamSafe => HeadOnceThenInOrder BY DEF StreamSafe, Delivered
<1> QED BY <1>1, StreamInvariance, PTL

\* Whatever a client pipelines, the connection of an earlier request is given
\* nothing that follows the head of a later one (tsproxy.cpp:505-512, 650-656).
THEOREM NoLateCell == Spec => []EarlierUpstreamGetsNoLaterCell
<1>1. StreamSafe => EarlierUpstreamGetsNoLaterCell BY DEF StreamSafe, Delivered
<1> QED BY <1>1, StreamInvariance, PTL

\* Whichever way a request ended, the next one on the connection starts from
\* nothing (tsproxy.cpp:377, 690).
THEOREM StartsCleared == Spec => []RequestStartsCleared
<1>1. StreamSafe => RequestStartsCleared
  BY DEF StreamSafe, ClearedAtStart, RequestStartsCleared
<1> QED BY <1>1, StreamInvariance, PTL

-----------------------------------------------------------------------------
(* Clients that are not read.                                              *)

\* Only a request that is proxied leaves a client unread and open.
UnreadIsLinked ==
  \A c \in Conns : cio[c] \in {"open", "queued"} /\ rmode[c] = "stop" => clink[c] \in Ups

\* A step that neither asks for an upstream nor relays stops reading a client only
\* to close it.
LEMMA StopsToClose ==
  ASSUME TypeOK, NEW c \in Conns, ClientNext(c), ~Attach(c), ~Asks(c), ~Gives(c)
  PROVE  /\ \A d \in Conns \ {c} : rmode'[d] = rmode[d]
         /\ rmode'[c] = "stop" => rmode[c] = "stop" \/ cio'[c] \in {"closing", "closed"}
<1> DEFINE Stops == /\ \A d \in Conns \ {c} : rmode'[d] = rmode[d]
                    /\ rmode'[c] = "stop" => rmode[c] = "stop" \/ cio'[c] \in {"closing", "closed"}
<1>1. CASE UNCHANGED rmode BY <1>1
<1>2. ASSUME NEW s, CloseClient(c, HioClose(s), uio), rmode' = [rmode EXCEPT ![c] = "stop"]
      PROVE  Stops
  <2>1. cio'[c] = HioClose(s) BY <1>2 DEF CloseClient, TypeOK
  <2> QED BY <1>2, <2>1, HioCloseMoves DEF TypeOK
<1>3. CASE Reject(c) BY <1>2, <1>3 DEF Reject
<1>4. CASE RecvFirstLine(c) \/ RecvHead(c) BY <1>1, <1>3, <1>4 DEF RecvFirstLine, RecvHead
<1>5. CASE HeadEndFails(c) BY <1>2, <1>5 DEF HeadEndFails
<1>6. ASSUME NEW r, Refuse(c, r) PROVE Stops
  <2>1. \/ NextRequest(c)
        \/ \E s : CloseClient(c, HioClose(s), uio) /\ rmode' = [rmode EXCEPT ![c] = "stop"]
    BY <1>6 DEF Refuse
  <2>2. CASE NextRequest(c) BY <2>2 DEF NextRequest, TypeOK
  <2> QED BY <1>2, <2>1, <2>2
<1>7. CASE HeadEndSelf(c)
  <2>1. \/ \E r : Refuse(c, r)
        \/ rmode' = [rmode EXCEPT ![c] = "bytes"]
    BY <1>7 DEF HeadEndSelf
  <2> QED BY <1>6, <2>1 DEF TypeOK
<1>8. CASE RecvRefusedBody(c) BY <1>6, <1>8 DEF RecvRefusedBody
<1>9. CASE (\E k \in 1..Len(stream[c]) : RecvAfterEnd(c, k))
             \/ ClientFlushed(c) \/ ClientEof(c) \/ ClientFails(c)
  BY <1>1, <1>9 DEF RecvAfterEnd, ClientFlushed, ClientEof, ClientFails, OnlyIosChange, reqVars
<1> QED BY <1>4, <1>5, <1>7, <1>8, <1>9 DEF ClientNext, OnRecv, Asks, Gives

\* Whoever ends, a client that is open afterwards was so before.
LEMMA OpenBefore ==
  ASSUME TypeOK, NEW c \in Conns, EndsFor(c), NEW d \in Conns, cio'[d] \in {"open", "queued"}
  PROVE  cio[d] \in {"open", "queued"} /\ clink' = clink
<1>1. cio[d] \in IoStates \ {"connecting", "broken"} BY DEF TypeOK
<1> QED BY <1>1 DEF EndsFor, IoStates

LEMMA UnreadStep == TypeOK /\ Safe /\ StreamSafe /\ UnreadIsLinked /\ [Next]_vars => UnreadIsLinked'
<1> SUFFICES ASSUME TypeOK, Safe, StreamSafe, UnreadIsLinked, [Next]_vars,
                    NEW d \in Conns, cio'[d] \in {"open", "queued"}, rmode'[d] = "stop"
             PROVE  clink'[d] \in Ups
  BY DEF UnreadIsLinked
<1>1. CASE UNCHANGED vars BY <1>1 DEF vars, UnreadIsLinked
<1>2. ASSUME NEW c \in Conns, ClientNext(c) PROVE clink'[d] \in Ups
  <2>1. CASE Attach(c)
    <3>1. d # c BY <2>1 DEF Attach, TypeOK
    <3>2. cio'[d] = cio[d] /\ rmode'[d] = rmode[d] /\ clink'[d] = clink[d]
      BY <2>1, <3>1 DEF Attach, TypeOK
    <3> QED BY <3>2 DEF UnreadIsLinked
  <2>2. CASE Asks(c)
    <3>1. PICK u \in Ups : HeadEndConnect(c, u) \/ HeadEndConnectFails(c, u) BY <2>2 DEF Asks
    <3>2. /\ clink' = [clink EXCEPT ![c] = u]
          /\ d # c => cio'[d] = cio[d] /\ rmode'[d] = rmode[d]
      BY <3>1 DEF HeadEndConnect, HeadEndConnectFails, SetupUpstream, LinkUpstream, ParkClient,
                  TypeOK
    <3> QED BY <3>2 DEF UnreadIsLinked, TypeOK
  <2>3. CASE Gives(c)
    <3>1. PICK k \in 1..Len(stream[c]) : RecvBody(c, k) BY <2>3 DEF Gives
    <3>2. /\ UNCHANGED <<cio, clink>> /\ rmode[c] = "raw"
          /\ UNCHANGED rmode \/ rmode' = [rmode EXCEPT ![c] = "line"]
      BY <3>1 DEF RecvBody, Reading, NextRequest
    <3> QED BY <3>2 DEF UnreadIsLinked, TypeOK
  <2>4. CASE ~Attach(c) /\ ~Asks(c) /\ ~Gives(c)
    <3>1. EndsFor(c) BY <1>2, <2>4, ClientEnds
    <3>2. cio[d] \in {"open", "queued"} /\ clink' = clink BY <3>1, OpenBefore
    <3>3. rmode[d] = "stop" BY <1>2, <2>4, StopsToClose
    <3> QED BY <3>2, <3>3 DEF UnreadIsLinked
  <2> QED BY <2>1, <2>2, <2>3, <2>4
<1>3. ASSUME NEW u \in Ups, UpstreamNext(u) PROVE clink'[d] \in Ups
  <2>1. CASE OnUpstreamConnect(u)
    <3>1. /\ UNCHANGED <<cio, clink>>
          /\ UNCHANGED rmode \/ \E m \in {"raw", "line"} : rmode' = [rmode EXCEPT ![ulink[u]] = m]
      BY <2>1 DEF OnUpstreamConnect, HeadWritten, HeadNotWritten, NextRequest
    <3> QED BY <3>1 DEF UnreadIsLinked, TypeOK
  <2>2. CASE ~OnUpstreamConnect(u)
    <3>1. EndsFor(ulink[u]) BY <1>3, <2>2, UpstreamEnds
    <3>2. ulink[u] \in Conns
      BY <1>3, <2>2, UpstreamHasClient DEF UpstreamNext, ConnectFails, UpstreamData, UpstreamEof,
         UpstreamError, UpstreamFlushed, Connected
    <3>3. cio[d] \in {"open", "queued"} /\ clink' = clink BY <3>1, <3>2, OpenBefore
    <3>4. UNCHANGED rmode
      BY <1>3, <2>2 DEF UpstreamNext, ConnectFails, UpstreamData, UpstreamEof, UpstreamError,
                        UpstreamFlushed, OnlyIosChange, reqVars
    <3> QED BY <3>3, <3>4 DEF UnreadIsLinked
  <2> QED BY <2>1, <2>2
<1> QED BY <1>1, <1>2, <1>3 DEF Next

\* A client that is neither read nor being closed has an upstream that connects
\* or is connected: no client waits for nothing but its keepalive timer.
THEOREM UnreadAwaited == Spec => []UnreadIsAwaited
<1>1. Init => UnreadIsLinked BY DEF Init, UnreadIsLinked
<1>2. TypeOK /\ Safe /\ UnreadIsLinked => UnreadIsAwaited
  <2> SUFFICES ASSUME TypeOK, Safe, UnreadIsLinked, NEW c \in Conns,
                      cio[c] \in {"open", "queued"}, rmode[c] = "stop"
               PROVE  clink[c] \in Ups /\ (uio[clink[c]] = "connecting" \/ Live(uio[clink[c]]))
    BY DEF UnreadIsAwaited
  <2>1. clink[c] \in Ups BY DEF UnreadIsLinked
  <2>2. uio[clink[c]] \in IoStates \ {"none", "closed"}
    BY <2>1 DEF TypeOK, Safe, LinksAgree, ClosedInPairs
  <2> QED BY <2>1, <2>2 DEF IoStates
<1> QED BY <1>1, <1>2, UnreadStep, StreamInvariance, PTL DEF Spec

=============================================================================
