----------------------------- MODULE ProxyConn -----------------------------
(***************************************************************************)
(* The connections of one worker loop of tsproxyd (cpp/src/tsproxy.cpp).   *)
(*                                                                         *)
(* A worker loop runs one callback at a time, to completion: an action is  *)
(* one callback, with every libhv call it makes.  hio_readline and         *)
(* hio_read_start, which may deliver bytes already buffered before they    *)
(* return, are the last thing their callers do to the connection, so each  *)
(* delivery is an action of its own.                                       *)
(*                                                                         *)
(* What a client sends is a sequence of cells.  A cell is one line of a    *)
(* request head, or one unit of a body, the unit Content-Length counts in. *)
(* A cell is named by its position in the stream.  The libhv objects are   *)
(* modelled from how tsproxy.cpp uses them and from the library shipped    *)
(* with the source; each upstream object is used once.                     *)
(***************************************************************************)
EXTENDS Integers, Sequences, FiniteSets

CONSTANTS Conns,              \* client connections the loop is handed
          Ups,                \* upstream hio_t objects
          NoIo,               \* the NULL hio_t*
          Streams,            \* what a client may send
          ProxyPort,          \* g_proxyd_ctx.proxy_port
          MaxResponses,       \* chunks an upstream answers: a bound of the model
          ConnectFailsAtOnce, \* connect(2) may fail inside hio_connect
          HeadWriteMayFail    \* the write of a request head may fail

Kinds == {"http11", "http10", "host", "length", "close", "other", "body",
          "lf", "blank"}
Cell == [kind : Kinds, val : Nat]

\* Values of a Host header.
NoHost == 0         \* no header, or an empty one
RemoteHost == 1
LoopbackHost == 2   \* 0.0.0.0 (proxy_host), localhost, 127.0.0.1

ASSUME IoAssumption == NoIo \notin Conns /\ NoIo \notin Ups
ASSUME StreamAssumption == Streams \subseteq Seq(Cell)
ASSUME BoundAssumption ==
  ProxyPort \in Nat /\ MaxResponses \in Nat
ASSUME EnvironmentAssumption ==
  ConnectFailsAtOnce \in BOOLEAN /\ HeadWriteMayFail \in BOOLEAN

VARIABLES
  cio,      \* client hio_t
  conn,     \* its http_conn_t: null, alloc, or freed
  state,    \* http_conn_t.state
  req,      \* http_conn_t.request
  rmode,    \* what the client hio_t reads next: a line, a chunk, n bytes, nothing
  stream,   \* what this client sends
  pos,      \* cells delivered to on_recv
  clink,    \* upstream_io of the client hio_t
  uio,      \* upstream hio_t
  ulink,    \* upstream_io of the upstream hio_t, and its userdata: the client
  from,     \* position of the blank line that ended the head it was made for
  fwd,      \* what was handed to its socket: 0 is the head, p the body cell p
  resp,     \* chunks it has answered
  worker,   \* running, or spinning in the loop of on_upstream_connect
  touched   \* clients whose http_conn_t was used after HV_FREE

reqVars == <<state, req, rmode, pos, clink>>
upVars  == <<ulink, from, fwd, resp>>
vars == <<cio, conn, state, req, rmode, stream, pos, clink,
          uio, ulink, from, fwd, resp, worker, touched>>

Request == [keepalive : BOOLEAN, port : Nat, host : Nat, content_length : Nat,
            proxy : BOOLEAN, connected : BOOLEAN]

\* The request after memset.
Cleared == [keepalive |-> FALSE, port |-> 0, host |-> NoHost, content_length |-> 0,
            proxy |-> FALSE, connected |-> FALSE]

ConnStates == {"s_begin", "s_first_line", "s_head", "s_head_end", "s_body", "s_end"}

\* "queued": the write queue is not empty; "closing": hio_close was put off
\* until it is; "broken": a write failed and hio_close_async is posted.
IoStates == {"none", "connecting", "open", "queued", "closing", "broken", "closed"}
Live(s) == s \in {"open", "queued", "closing", "broken"}

Init ==
  /\ cio = [c \in Conns |-> "none"]
  /\ conn = [c \in Conns |-> "null"]
  /\ state = [c \in Conns |-> "s_begin"]
  /\ req = [c \in Conns |-> Cleared]
  /\ rmode = [c \in Conns |-> "stop"]
  /\ stream \in [Conns -> Streams]
  /\ pos = [c \in Conns |-> 0]
  /\ clink = [c \in Conns |-> NoIo]
  /\ uio = [u \in Ups |-> "none"]
  /\ ulink = [u \in Ups |-> NoIo]
  /\ from = [u \in Ups |-> 0]
  /\ fwd = [u \in Ups |-> <<>>]
  /\ resp = [u \in Ups |-> 0]
  /\ worker = "running"
  /\ touched = {}

-----------------------------------------------------------------------------
(* libhv, as the code uses it.                                             *)

\* hio_close on an object without an error: put off while data is queued.
HioClose(s) == IF s = "queued" THEN "closing" ELSE "closed"

\* hio_write: what is not written at once is queued.  A write to the client
\* that fails only posts a close, which ClientFails stands for.
HioWrite(s) == IF s = "open" THEN {"open", "queued"} ELSE {s}

\* A bug: on_close does not call hio_close_upstream.
CloseClientAlone(c, s, us) ==
  /\ cio' = [cio EXCEPT ![c] = s]
  /\ conn' = [conn EXCEPT ![c] = IF s = "closed" THEN "freed" ELSE @]
  /\ uio' = us

\* The client hio_t becomes s; when it is closed, on_close frees the
\* http_conn_t and closes the upstream the client is linked to.  us is uio
\* as the callback has left it so far.
CloseClient(c, s, us) ==
  /\ cio' = [cio EXCEPT ![c] = s]
  /\ conn' = [conn EXCEPT ![c] = IF s = "closed" THEN "freed" ELSE @]
  /\ uio' = IF s = "closed" /\ clink[c] \in Ups
              THEN [us EXCEPT ![clink[c]] = HioClose(@)] ELSE us

\* A bug: no close callback was set on the upstream.
CloseUpstreamAlone(u, s) ==
  uio' = [uio EXCEPT ![u] = s] /\ UNCHANGED <<cio, conn>>

\* The upstream hio_t becomes s; when it is closed, hio_close_upstream closes
\* the client, which may be closed already.
CloseUpstream(u, s) ==
  LET us == [uio EXCEPT ![u] = s]
      c == ulink[u]
  IN IF s = "closed" /\ Live(cio[c])
       THEN CloseClient(c, HioClose(cio[c]), us)
       ELSE uio' = us /\ UNCHANGED <<cio, conn>>

\* hio_write_upstream of the client: the cells ps go to upstream u.
WriteUpstream(u, ps) ==
  \/ /\ uio[u] \in {"open", "queued", "closing"}
     /\ \E s \in HioWrite(uio[u]) : uio' = [uio EXCEPT ![u] = s]
     /\ fwd' = [fwd EXCEPT ![u] = @ \o ps]
  \/ /\ uio[u] \in {"open", "broken"}
     /\ uio' = [uio EXCEPT ![u] = "broken"]
     /\ UNCHANGED fwd
  \/ uio[u] = "closed" /\ UNCHANGED <<uio, fwd>>

-----------------------------------------------------------------------------
(* Reading a request: on_recv.                                             *)

\* new_conn_event: the loop adopts an accepted connection.
Attach(c) ==
  /\ worker = "running" /\ cio[c] = "none"
  /\ cio' = [cio EXCEPT ![c] = "open"]
  /\ conn' = [conn EXCEPT ![c] = "alloc"]
  /\ state' = [state EXCEPT ![c] = "s_first_line"]
  /\ rmode' = [rmode EXCEPT ![c] = "line"]
  /\ UNCHANGED <<req, stream, pos, clink, uio, upVars, worker, touched>>

\* A client whose bytes can reach on_recv in mode m.
Reading(c, m) ==
  /\ worker = "running" /\ Live(cio[c]) /\ rmode[c] = m /\ pos[c] < Len(stream[c])

NextCell(c) == stream[c][pos[c] + 1]

\* hio_close(io) out of on_recv: the line was the last one that is read.
Reject(c) ==
  /\ CloseClient(c, HioClose(cio[c]), uio)
  /\ pos' = [pos EXCEPT ![c] = @ + 1]
  /\ rmode' = [rmode EXCEPT ![c] = "stop"]
  /\ UNCHANGED <<state, req, stream, clink, upVars, worker, touched>>

\* case s_first_line.  val is the port parse_proxy_port finds for the path.
RecvFirstLine(c) ==
  LET l == NextCell(c) IN
  /\ Reading(c, "line") /\ state[c] = "s_first_line"
  /\ \/ l.kind \notin {"http11", "http10"} /\ Reject(c)
     \/ /\ l.kind \in {"http11", "http10"}
        /\ req' = [req EXCEPT ![c].keepalive = l.kind = "http11", ![c].port = l.val]
        /\ state' = [state EXCEPT ![c] = "s_head"]
        /\ pos' = [pos EXCEPT ![c] = @ + 1]
        /\ UNCHANGED <<cio, conn, rmode, stream, clink, uio, upVars, worker, touched>>

\* A bug: a Content-Length that is not taken as it stands.
ParseHeadLessCrlf(r, l) ==
  CASE l.kind = "host"   -> [r EXCEPT !.host = l.val]
    [] l.kind = "length" -> [r EXCEPT !.content_length = l.val - 2]
    [] l.kind = "close"  -> [r EXCEPT !.keepalive = FALSE]
    [] OTHER -> r

\* parse_http_head.  A line with a colon and another key changes nothing kept here.
ParseHead(r, l) ==
  CASE l.kind = "host"   -> [r EXCEPT !.host = l.val]
    [] l.kind = "length" -> [r EXCEPT !.content_length = l.val]
    [] l.kind = "close"  -> [r EXCEPT !.keepalive = FALSE]
    [] OTHER -> r

\* case s_head, any line but the blank one.  A body cell is a line without a colon.
RecvHead(c) ==
  LET l == NextCell(c) IN
  /\ Reading(c, "line") /\ state[c] = "s_head" /\ l.kind # "blank"
  /\ \/ l.kind \in {"lf", "body"} /\ Reject(c)
     \/ /\ l.kind \notin {"lf", "body"}
        /\ req' = [req EXCEPT ![c] = ParseHead(@, l)]
        /\ pos' = [pos EXCEPT ![c] = @ + 1]
        /\ UNCHANGED <<cio, conn, state, rmode, stream, clink, uio, upVars, worker, touched>>

\* The blank line that ends a head.
HeadEnd(c) ==
  Reading(c, "line") /\ state[c] = "s_head" /\ NextCell(c).kind = "blank"

\* A bug: the request is not cleared for the one that follows on the connection.
NextRequestNoMemset(c) ==
  /\ state' = [state EXCEPT ![c] = "s_first_line"]
  /\ rmode' = [rmode EXCEPT ![c] = "line"]
  /\ UNCHANGED req

\* "reset and receive next request"
NextRequest(c) ==
  /\ req' = [req EXCEPT ![c] = Cleared]
  /\ state' = [state EXCEPT ![c] = "s_first_line"]
  /\ rmode' = [rmode EXCEPT ![c] = "line"]

\* "do not proxy my self"
IsSelf(r) == r.port = ProxyPort /\ r.host = LoopbackHost

\* A bug: on_recv returns for what on_head_end returns and does not close.
HeadEndFailsUnclosed(c) ==
  /\ HeadEnd(c) /\ ~IsSelf(req[c])
  /\ state' = [state EXCEPT ![c] = "s_head_end"]
  /\ req' = [req EXCEPT ![c].proxy = req[c].host # NoHost]
  /\ pos' = [pos EXCEPT ![c] = @ + 1]
  /\ rmode' = [rmode EXCEPT ![c] = "stop"]
  /\ UNCHANGED <<cio, conn, stream, clink, uio, upVars, worker, touched>>

\* on_head_end returns -1 (no Host) or -3 (no upstream socket: a name that does
\* not resolve, no descriptor left).
HeadEndFails(c) ==
  /\ HeadEnd(c) /\ ~IsSelf(req[c])
  /\ CloseClient(c, HioClose(cio[c]), uio)
  /\ state' = [state EXCEPT ![c] = "s_head_end"]
  /\ req' = [req EXCEPT ![c].proxy = req[c].host # NoHost]
  /\ pos' = [pos EXCEPT ![c] = @ + 1]
  /\ rmode' = [rmode EXCEPT ![c] = "stop"]
  /\ UNCHANGED <<stream, clink, upVars, worker, touched>>

\* The end of a request r that is not proxied: on_request answers 403, and the
\* connection waits for the next request or is closed.
Refuse(c, r) ==
  \E s \in HioWrite(cio[c]) :
    IF r.keepalive
    THEN /\ cio' = [cio EXCEPT ![c] = s]
         /\ NextRequest(c)
         /\ UNCHANGED <<conn, uio>>
    ELSE /\ CloseClient(c, HioClose(s), uio)
         /\ req' = [req EXCEPT ![c] = r]
         /\ state' = [state EXCEPT ![c] = "s_end"]
         /\ rmode' = [rmode EXCEPT ![c] = "stop"]

HeadEndSelf(c) ==
  LET r == [req[c] EXCEPT !.proxy = FALSE] IN
  /\ HeadEnd(c) /\ IsSelf(r)
  /\ pos' = [pos EXCEPT ![c] = @ + 1]
  /\ \/ r.content_length = 0 /\ Refuse(c, r)
     \/ /\ r.content_length # 0
        /\ req' = [req EXCEPT ![c] = r]
        /\ state' = [state EXCEPT ![c] = "s_body"]
        /\ rmode' = [rmode EXCEPT ![c] = "bytes"]
        /\ UNCHANGED <<cio, conn, uio>>
  /\ UNCHANGED <<stream, clink, upVars, worker, touched>>

\* A bug: a client that has an upstream keeps it when the next is made.
LinkUpstreamOnce(c, u) ==
  /\ clink' = [clink EXCEPT ![c] = IF @ = NoIo THEN u ELSE @]
  /\ ulink' = [ulink EXCEPT ![u] = c]

\* hio_setup_upstream, and the userdata of the upstream.  Older links stay.
LinkUpstream(c, u) ==
  /\ clink' = [clink EXCEPT ![c] = u]
  /\ ulink' = [ulink EXCEPT ![u] = c]

\* A bug: the hio_read_start of tsproxy.cpp:653 is not commented out.
KeepReading(c) == rmode' = [rmode EXCEPT ![c] = "raw"]

\* "wait upstream connect!", "start read body on_upstream_connect"
ParkClient(c) == rmode' = [rmode EXCEPT ![c] = "stop"]

\* A request that is to be proxied, and the upstream u made and linked for it.
\* The client is not read again before the connection is made.
SetupUpstream(c, u) ==
  LET r == [req[c] EXCEPT !.proxy = TRUE, !.connected = FALSE] IN
  /\ HeadEnd(c) /\ r.host # NoHost /\ ~IsSelf(r) /\ uio[u] = "none"
  /\ req' = [req EXCEPT ![c] = r]
  /\ state' = [state EXCEPT ![c] = IF r.content_length = 0 THEN "s_end" ELSE "s_body"]
  /\ pos' = [pos EXCEPT ![c] = @ + 1]
  /\ ParkClient(c)
  /\ LinkUpstream(c, u)
  /\ from' = [from EXCEPT ![u] = pos[c] + 1]
  /\ UNCHANGED <<stream, fwd, resp, worker>>

HeadEndConnect(c, u) ==
  /\ SetupUpstream(c, u)
  /\ uio' = [uio EXCEPT ![u] = "connecting"]
  /\ UNCHANGED <<cio, conn, touched>>

\* hio_connect fails at once: it closes the upstream, that closes the client,
\* on_close frees the http_conn_t, and on_recv goes on with it.
HeadEndConnectFails(c, u) ==
  /\ ConnectFailsAtOnce
  /\ SetupUpstream(c, u)
  /\ uio' = [uio EXCEPT ![u] = "closed"]
  /\ cio' = [cio EXCEPT ![c] = HioClose(@)]
  /\ conn' = [conn EXCEPT ![c] = IF cio'[c] = "closed" THEN "freed" ELSE @]
  /\ touched' = IF conn'[c] = "freed" THEN touched \union {c} ELSE touched

\* A bug: what is forwarded starts at the last cell that was forwarded before.
OnBodyOffByOne(c, k) ==
  IF req[c].proxy /\ req[c].connected
    THEN WriteUpstream(clink[c], [i \in 1..(k - pos[c]) |-> pos[c] + i - 1])
    ELSE UNCHANGED <<uio, fwd>>

\* A bug: the test for an empty body does not look at the length of the chunk.
OnBodyDropsCrlf(c, k) ==
  IF stream[c][pos[c] + 1].kind # "blank" /\ req[c].proxy /\ req[c].connected
    THEN WriteUpstream(clink[c], [i \in 1..(k - pos[c]) |-> pos[c] + i])
    ELSE UNCHANGED <<uio, fwd>>

\* on_body: what a chunk of cells pos+1 .. k is forwarded as.  A chunk that is
\* one CRLF is taken for an empty body and dropped.
OnBody(c, k) ==
  LET chunk == [i \in 1..(k - pos[c]) |-> pos[c] + i]
      lone_crlf == k = pos[c] + 1 /\ stream[c][k].kind = "blank"
  IN IF ~lone_crlf /\ req[c].proxy /\ req[c].connected
       THEN WriteUpstream(clink[c], chunk)
       ELSE UNCHANGED <<uio, fwd>>

\* case s_body of a proxied request, a chunk read by hio_read_start.  The body
\* is over when the chunk is as long as Content-Length.
RecvBody(c, k) ==
  /\ Reading(c, "raw") /\ state[c] = "s_body" /\ k \in (pos[c] + 1)..Len(stream[c])
  /\ OnBody(c, k)
  /\ pos' = [pos EXCEPT ![c] = k]
  /\ IF k - pos[c] # req[c].content_length THEN UNCHANGED <<state, req, rmode>>
     ELSE IF req[c].keepalive
     THEN NextRequest(c)
     ELSE /\ state' = [state EXCEPT ![c] = "s_end"]
          /\ UNCHANGED <<req, rmode>>
  /\ UNCHANGED <<cio, conn, stream, clink, ulink, from, resp, worker, touched>>

\* case s_body of a refused request: hio_readbytes delivers it whole.
RecvRefusedBody(c) ==
  LET k == pos[c] + req[c].content_length IN
  /\ Reading(c, "bytes") /\ state[c] = "s_body" /\ k <= Len(stream[c])
  /\ pos' = [pos EXCEPT ![c] = k]
  /\ Refuse(c, req[c])
  /\ UNCHANGED <<stream, clink, upVars, worker, touched>>

\* case s_end of a proxied request that closes: what comes after its body is lost.
RecvAfterEnd(c, k) ==
  /\ Reading(c, "raw") /\ state[c] = "s_end" /\ k \in (pos[c] + 1)..Len(stream[c])
  /\ pos' = [pos EXCEPT ![c] = k]
  /\ UNCHANGED <<cio, conn, state, req, rmode, stream, clink, uio, upVars, worker, touched>>

-----------------------------------------------------------------------------
(* The upstream: on_upstream_connect and the callbacks hio_write_upstream   *)
(* and hio_close_upstream.                                                 *)

\* The head is written in one call: the connection is the client's to read
\* (a body) or the client may send its next request.  A request without a body
\* that closes leaves the client unread.
HeadWritten(u, c) ==
  /\ fwd' = [fwd EXCEPT ![u] = <<0>>]
  /\ uio' = [uio EXCEPT ![u] = "open"]
  /\ IF state[c] # "s_end"
     THEN /\ req' = [req EXCEPT ![c].connected = TRUE]
          /\ rmode' = [rmode EXCEPT ![c] = "raw"]
          /\ UNCHANGED state
     ELSE IF req[c].keepalive
     THEN NextRequest(c)
     ELSE UNCHANGED <<req, state, rmode>>
  /\ UNCHANGED worker

\* The write of the head fails: "while (nsize < msglen)" adds -1 to nsize for
\* ever, since only the loop that never gets control back could close the object.
\* (A head is shorter than an empty socket buffer: it is not written in part.)
HeadNotWritten(u) ==
  /\ HeadWriteMayFail
  /\ uio' = [uio EXCEPT ![u] = "broken"]
  /\ worker' = "spinning"
  /\ UNCHANGED <<state, req, rmode, fwd>>

OnUpstreamConnect(u) ==
  LET c == ulink[u] IN
  /\ worker = "running" /\ uio[u] = "connecting"
  /\ touched' = IF conn[c] = "alloc" THEN touched ELSE touched \union {c}
  /\ HeadWritten(u, c) \/ HeadNotWritten(u)
  /\ UNCHANGED <<cio, conn, stream, pos, clink, ulink, from, resp>>

\* An upstream that was connected and is not closed.
Connected(u) == worker = "running" /\ Live(uio[u])

\* What the other callbacks of an upstream leave alone.
OnlyIosChange == UNCHANGED <<reqVars, stream, ulink, from, fwd, worker, touched>>

\* The connection is refused, or not made within the connect timeout.
ConnectFails(u) ==
  /\ worker = "running" /\ uio[u] = "connecting"
  /\ CloseUpstream(u, "closed")
  /\ OnlyIosChange /\ UNCHANGED resp

\* A chunk of an answer, written to the client the upstream is linked to.
UpstreamData(u) ==
  /\ Connected(u) /\ resp[u] < MaxResponses
  /\ resp' = [resp EXCEPT ![u] = @ + 1]
  /\ \E s \in HioWrite(cio[ulink[u]]) : cio' = [cio EXCEPT ![ulink[u]] = s]
  /\ OnlyIosChange /\ UNCHANGED <<conn, uio>>

\* The server closes its side.
UpstreamEof(u) ==
  /\ Connected(u)
  /\ CloseUpstream(u, HioClose(uio[u]))
  /\ OnlyIosChange /\ UNCHANGED resp

\* A read or a queued write fails, or the close posted by a failed write runs.
UpstreamError(u) ==
  /\ Connected(u)
  /\ CloseUpstream(u, "closed")
  /\ OnlyIosChange /\ UNCHANGED resp

\* The write queue is sent; for one being closed, the close timer does as well.
UpstreamFlushed(u) ==
  /\ worker = "running"
  /\ \/ uio[u] = "queued" /\ CloseUpstream(u, "open")
     \/ uio[u] = "closing" /\ CloseUpstream(u, "closed")
  /\ OnlyIosChange /\ UNCHANGED resp

-----------------------------------------------------------------------------
(* The client's side of a connection, and its timers.                      *)

ClientFlushed(c) ==
  /\ worker = "running"
  /\ \/ cio[c] = "queued" /\ CloseClient(c, "open", uio)
     \/ cio[c] = "closing" /\ CloseClient(c, "closed", uio)
  /\ OnlyIosChange /\ UNCHANGED resp

\* The client closes its side: noticed only while it is read.
ClientEof(c) ==
  /\ worker = "running" /\ Live(cio[c]) /\ rmode[c] # "stop"
  /\ CloseClient(c, HioClose(cio[c]), uio)
  /\ OnlyIosChange /\ UNCHANGED resp

\* A bug: the timer watches only a client that is read.
ClientFailsWhileRead(c) ==
  /\ worker = "running" /\ Live(cio[c]) /\ rmode[c] # "stop"
  /\ CloseClient(c, "closed", uio)
  /\ OnlyIosChange /\ UNCHANGED resp

\* The keepalive timer set by new_conn_event fires, or a read or a write of the
\* client fails: the object has an error and is closed without delay.
ClientFails(c) ==
  /\ worker = "running" /\ Live(cio[c])
  /\ CloseClient(c, "closed", uio)
  /\ OnlyIosChange /\ UNCHANGED resp

-----------------------------------------------------------------------------
OnRecv(c) ==
  \/ RecvFirstLine(c)
  \/ RecvHead(c)
  \/ HeadEndFails(c)
  \/ HeadEndSelf(c)
  \/ \E u \in Ups : HeadEndConnect(c, u) \/ HeadEndConnectFails(c, u)
  \/ \E k \in 1..Len(stream[c]) : RecvBody(c, k) \/ RecvAfterEnd(c, k)
  \/ RecvRefusedBody(c)

ClientNext(c) ==
  Attach(c) \/ OnRecv(c) \/ ClientFlushed(c) \/ ClientEof(c) \/ ClientFails(c)

UpstreamNext(u) ==
  \/ OnUpstreamConnect(u)
  \/ ConnectFails(u)
  \/ UpstreamData(u)
  \/ UpstreamEof(u)
  \/ UpstreamError(u)
  \/ UpstreamFlushed(u)

Next == (\E c \in Conns : ClientNext(c)) \/ (\E u \in Ups : UpstreamNext(u))

Spec == Init /\ [][Next]_vars

(***************************************************************************)
(* Fairness: the timers.  libhv ends a pending connect after its connect   *)
(* timeout and an object being closed after its close timeout; the         *)
(* keepalive timer of new_conn_event ends an idle client, and MaxResponses *)
(* and the finite streams make every client idle in the end.               *)
(***************************************************************************)
Timers ==
  /\ \A u \in Ups : WF_vars(OnUpstreamConnect(u) \/ ConnectFails(u))
  /\ \A u \in Ups : WF_vars(uio[u] = "closing" /\ UpstreamFlushed(u))
  /\ \A c \in Conns : WF_vars(ClientFails(c))

FairSpec == Spec /\ Timers

-----------------------------------------------------------------------------
(* Properties.                                                             *)

\* Every variable has its type.
TypeOK ==
  /\ cio \in [Conns -> IoStates \ {"connecting", "broken"}]
  /\ conn \in [Conns -> {"null", "alloc", "freed"}]
  /\ state \in [Conns -> ConnStates]
  /\ req \in [Conns -> Request]
  /\ rmode \in [Conns -> {"stop", "line", "raw", "bytes"}]
  /\ stream \in [Conns -> Seq(Cell)]
  /\ pos \in [Conns -> Nat]
  /\ clink \in [Conns -> Ups \union {NoIo}]
  /\ uio \in [Ups -> IoStates]
  /\ ulink \in [Ups -> Conns \union {NoIo}]
  /\ from \in [Ups -> Nat]
  /\ fwd \in [Ups -> Seq(Nat)]
  /\ resp \in [Ups -> 0..MaxResponses]
  /\ worker \in {"running", "spinning"}
  /\ touched \subseteq Conns

\* While an upstream connects, the client it was made for is alive, is linked
\* to it and to no later one, and is not read: on_upstream_connect then finds in
\* its userdata the http_conn_t of the very request it was made for, neither
\* freed by on_close nor overwritten by the next request (tsproxy.cpp:352-382).
ConnectParksClient ==
  \A u \in Ups : uio[u] = "connecting" =>
    LET c == ulink[u] IN
    /\ c \in Conns /\ conn[c] = "alloc" /\ Live(cio[c])
    /\ clink[c] = u /\ rmode[c] = "stop" /\ state[c] \in {"s_body", "s_end"}
    /\ req[c].proxy /\ ~req[c].connected

\* No callback uses an http_conn_t after on_close freed it.
NeverUsedAfterFree == touched = {}

\* A client and the upstream of its latest request end together: when one is
\* closed the other is closed, or is only waiting for its write queue
\* (on_close and hio_close_upstream).
ClosedInPairs ==
  \A c \in Conns : clink[c] \in Ups =>
    /\ cio[c] = "closed" => uio[clink[c]] \in {"closing", "closed"}
    /\ uio[clink[c]] = "closed" => cio[c] \in {"closing", "closed"}

\* A client that is not read any more, and is not being closed, has an upstream
\* that connects or is connected: something is still to come that reads it again
\* or closes it, before the keepalive timer does (tsproxy.cpp:635-653).
UnreadIsAwaited ==
  \A c \in Conns : cio[c] \in {"open", "queued"} /\ rmode[c] = "stop"
    => clink[c] \in Ups /\ (uio[clink[c]] = "connecting" \/ Live(uio[clink[c]]))

Cells(u) == {fwd[u][i] : i \in 1..Len(fwd[u])}

\* An upstream gets the head of its request once and first, then cells of the
\* client that follow that head, in the order they were sent and none twice.
HeadOnceThenInOrder ==
  \A u \in Ups : \A i \in 1..Len(fwd[u]) :
    /\ (fwd[u][i] = 0) <=> (i = 1)
    /\ i > 1 => fwd[u][i] > from[u]
    /\ i > 2 => fwd[u][i] > fwd[u][i - 1]

\* While a body is relayed, nothing that was read of it is missing from what its
\* upstream was given, lone CRLF chunks apart (on_body), as long as no write to
\* that upstream failed.
BodyComplete ==
  \A c \in Conns : LET u == clink[c] IN
    state[c] = "s_body" /\ req[c].connected /\ Live(cio[c])
      /\ uio[u] \in {"open", "queued", "closing"}
    => \A p \in (from[u] + 1)..pos[c] : stream[c][p].kind # "blank" => p \in Cells(u)

\* Of two upstreams of one client, the earlier one gets nothing the client sent
\* after the head the later one was made for: a body never goes to the
\* connection of another request that came before it.
EarlierUpstreamGetsNoLaterCell ==
  \A u, v \in Ups : ulink[u] \in Conns /\ ulink[u] = ulink[v] /\ from[u] < from[v]
    => \A p \in Cells(u) : p < from[v]

\* A request starts from the memset one: no header, port or flag of the request
\* before it on the same connection is left in it (tsproxy.cpp:377 and 690).
RequestStartsCleared ==
  \A c \in Conns : state[c] = "s_first_line" => req[c] = Cleared

\* What a client and an upstream look like from outside.
Client ==
  [c \in Conns |-> CASE cio[c] = "none" -> "new" [] cio[c] = "closing" -> "ending"
                     [] cio[c] = "closed" -> "ended" [] OTHER -> "open"]
Up ==
  [u \in Ups |-> CASE uio[u] = "none" -> "unused" [] uio[u] = "connecting" -> "waiting"
                   [] uio[u] = "closed" -> "ended" [] OTHER -> "established"]

Promise == INSTANCE Session
  WITH None <- NoIo, client <- Client, up <- Up, owner <- ulink, current <- clink,
       asked <- from, out <- fwd

\* A worker keeps the promise Session states: each upstream gets the head of its
\* request and what the client sends after it, in order, only while it is the
\* client's latest, and the two end together (tsproxy.cpp:9-20).
KeepsPromise == Promise!Spec

\* Every accepted connection ends: its http_conn_t is freed and the upstream of
\* its latest request is closed.
EveryConnectionEnds ==
  \A c \in Conns : (conn[c] = "alloc") ~>
    (conn[c] = "freed" /\ (clink[c] \in Ups => uio[clink[c]] = "closed"))

-----------------------------------------------------------------------------
(* What the comments say and the code does not do: each of these is broken. *)

\* "received complete request" (tsproxy.cpp:678): once as many cells as
\* Content-Length were read after the head, the body is over.
BodyEndsAtContentLength ==
  \A c \in Conns :
    state[c] = "s_body" /\ req[c].connected
    => pos[c] < from[clink[c]] + req[c].content_length

\* "on_body -> hio_write_upstream(body)" (tsproxy.cpp:14): all that was read of a
\* body was given to its upstream.
BodyUnaltered ==
  \A c \in Conns : LET u == clink[c] IN
    state[c] = "s_body" /\ req[c].connected /\ Live(cio[c])
      /\ uio[u] \in {"open", "queued", "closing"}
    => (from[u] + 1)..pos[c] \subseteq Cells(u)

\* "on_upstream_close -> hio_close -> on_close -> HV_FREE(http_conn_t)"
\* (tsproxy.cpp:15-16): when a connection has ended, none of the upstreams made
\* for it goes on.
NoUpstreamOutlivesItsClient ==
  \A u \in Ups : ulink[u] \in Conns /\ cio[ulink[u]] = "closed"
    => uio[u] \in {"closing", "closed"}

=============================================================================
