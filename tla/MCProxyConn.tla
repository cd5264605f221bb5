---------------------------- MODULE MCProxyConn ----------------------------
(***************************************************************************)
(* ProxyConn on small instances: what clients send in the runs.            *)
(***************************************************************************)
EXTENDS ProxyConn, TLC

CONSTANTS c1, c2, u1, u2, u3

C(k, n) == [kind |-> k, val |-> n]

\* Requests of one line each.  Port 1 is the proxy's own, port 2 another.
Get == C("http11", 2)
GetOld == C("http10", 2)
GetSelf == C("http11", 1)
Host == C("host", RemoteHost)
Loopback == C("host", LoopbackHost)
Length(n) == C("length", n)
Blank == C("blank", 0)
Body == C("body", 0)
Close == C("close", 0)

\* A request without a body, one with a body, one with an empty line in its
\* body, one that closes, one in HTTP/1.0, and requests to the proxy itself.
PlainGet == <<Get, Host, Blank>>
Post == <<Get, Host, Length(2), Blank, Body, Body>>
TextPost == <<Get, Host, Length(3), Blank, Body, Blank, Body>>
PostClose == <<Get, Close, Host, Length(2), Blank, Body, Body>>
OldGet == <<GetOld, C("other", 0), Host, Blank>>
SelfPlain == <<GetSelf, Loopback, Blank>>
SelfPost == <<GetSelf, Loopback, Length(1), Blank, Body>>
SelfOld == <<C("http10", 1), Loopback, Blank>>
\* Heads that are refused.
NoHostHead == <<Get, Blank>>
NoColon == <<Get, Body>>
NoRequestLine == <<C("lf", 0)>>

Requests == {PlainGet, Post, TextPost, PostClose, OldGet, SelfPlain, SelfPost,
             SelfOld, NoHostHead, NoColon, NoRequestLine}

\* Up to three requests, sent without waiting for an answer.
Pipelines == {r \o s \o t : r \in Requests, s \in Requests, t \in {<<>>, PlainGet}}
Pairs == {r \o s : r \in {Post, PlainGet, SelfPost}, s \in {PlainGet, OldGet}}
Bodies == {Post, TextPost \o PlainGet}
Gets == {OldGet, PlainGet}
Shorts == {OldGet, Post}

UpSymmetry == Permutations(Ups)
=============================================================================
