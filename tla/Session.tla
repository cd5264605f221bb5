------------------------------ MODULE Session ------------------------------
(***************************************************************************)
(* What a worker of tsproxyd promises its clients.                         *)
(*                                                                         *)
(* A client asks for one upstream after the other.  What it sends has      *)
(* positions.  An upstream is asked for at a position, is given the head   *)
(* of its request (position 0) when it is established, and then later      *)
(* positions, in order and without repetition, as long as it is the one    *)
(* its client asked for last.  An upstream that ends takes its client with *)
(* it, and a client that ends leaves no upstream it still waits for.       *)
(***************************************************************************)
EXTENDS Integers, Sequences

CONSTANTS Conns, Ups, None

VARIABLES
  client,  \* new, open, ending, ended
  up,      \* unused, waiting, established, ended
  owner,   \* the client an upstream was asked for by
  current, \* the upstream a client asked for last
  asked,   \* the position it was asked for at
  out      \* the positions it was given

vars == <<client, up, owner, current, asked, out>>

Init ==
  /\ client = [c \in Conns |-> "new"]
  /\ up = [u \in Ups |-> "unused"]
  /\ owner = [u \in Ups |-> None]
  /\ current = [c \in Conns |-> None]
  /\ asked = [u \in Ups |-> 0]
  /\ out = [u \in Ups |-> <<>>]

Given(u) == {out[u][i] : i \in 1..Len(out[u])}
Own(c) == {u \in Ups : owner[u] = c}
Waits(c) == \E u \in Own(c) : up[u] = "waiting"

Accept(c) ==
  /\ client[c] = "new" /\ client' = [client EXCEPT ![c] = "open"]
  /\ UNCHANGED <<up, owner, current, asked, out>>

\* c asks for u at a position after all it has asked for and given.
AskFor(c, u) ==
  /\ client[c] \in {"open", "ending"} /\ ~Waits(c) /\ up[u] = "unused"
  /\ asked'[u] \in Nat /\ asked' = [asked EXCEPT ![u] = asked'[u]]
  /\ \A v \in Own(c) : asked[v] < asked'[u] /\ \A p \in Given(v) : p < asked'[u]
  /\ owner' = [owner EXCEPT ![u] = c]
  /\ current' = [current EXCEPT ![c] = u]
  /\ UNCHANGED out

Ask(c, u) ==
  /\ AskFor(c, u)
  /\ up' = [up EXCEPT ![u] = "waiting"]
  /\ UNCHANGED client

\* The upstream cannot be made: the client ends with it.
AskInVain(c, u) ==
  /\ AskFor(c, u)
  /\ up' = [up EXCEPT ![u] = "ended"]
  /\ \E s \in {"ending", "ended"} : client' = [client EXCEPT ![c] = s]

\* The upstream is there, and given its head, unless the write of it fails.
Establish(u) ==
  /\ up[u] = "waiting" /\ client[owner[u]] \in {"open", "ending"} /\ current[owner[u]] = u
  /\ up' = [up EXCEPT ![u] = "established"]
  /\ \E head \in {<<>>, <<0>>} : out' = [out EXCEPT ![u] = head]
  /\ UNCHANGED <<client, owner, current, asked>>

\* The upstream c asked for last is given more.
Give(c) ==
  LET u == current[c] IN
  /\ client[c] \in {"open", "ending"}
  /\ u \in Ups /\ up[u] = "established" /\ out[u] # <<>>
  /\ Len(out'[u]) > Len(out[u]) /\ out' = [out EXCEPT ![u] = out'[u]]
  /\ \A i \in 1..Len(out[u]) : out'[u][i] = out[u][i]
  /\ \A i \in Len(out[u]) + 1..Len(out'[u]) :
       out'[u][i] > asked[u] /\ out'[u][i] > out'[u][i - 1]
  /\ UNCHANGED <<client, up, owner, current, asked>>

\* What ends at once: upstreams of c, one of which makes c end, or c, and with
\* it the upstream it waits for.
End(c) ==
  /\ client[c] # "new"
  /\ \E E \in SUBSET Own(c), s \in {client[c], "ending", "ended"} :
       /\ \A u \in E : up[u] # "unused"
       /\ client[c] = "ended" => s = "ended"
       /\ E # {} => s \in {"ending", "ended"}
       /\ s = "ended" => \A u \in Own(c) : up[u] = "waiting" => u \in E
       /\ client' = [client EXCEPT ![c] = s]
       /\ up' = [u \in Ups |-> IF u \in E THEN "ended" ELSE up[u]]
  /\ UNCHANGED <<owner, current, asked, out>>

Next ==
  \E c \in Conns :
    \/ Accept(c)
    \/ \E u \in Ups : Ask(c, u) \/ AskInVain(c, u)
    \/ \E u \in Own(c) : Establish(u)
    \/ Give(c)
    \/ End(c)

Spec == Init /\ [][Next]_vars

=============================================================================
