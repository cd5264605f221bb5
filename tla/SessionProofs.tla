---------------------------- MODULE SessionProofs ----------------------------
(***************************************************************************)
(* ProxyConn implements Session: every step of a worker is a step of the   *)
(* promise, seen through Client and Up, or leaves it as it is.             *)
(***************************************************************************)
EXTENDS StreamProofs

USE DEF Live

\* Client and Up, in terms of the objects.
Views ==
  /\ Client = [c \in Conns |-> Client[c]] /\ Up = [u \in Ups |-> Up[u]]
  /\ \A c \in Conns :
       /\ Client[c] \in {"new", "open", "ending", "ended"}
       /\ Client[c] = "new" <=> cio[c] = "none"
       /\ Client[c] = "ending" <=> cio[c] = "closing"
       /\ Client[c] = "ended" <=> cio[c] = "closed"
       /\ Client[c] = "open" <=> cio[c] \in {"open", "queued"}
  /\ \A u \in Ups :
       /\ Up[u] \in {"unused", "waiting", "established", "ended"}
       /\ Up[u] = "unused" <=> uio[u] = "none"
       /\ Up[u] = "waiting" <=> uio[u] = "connecting"
       /\ Up[u] = "ended" <=> uio[u] = "closed"
       /\ Up[u] = "established" <=> Live(uio[u])

LEMMA ViewsHold == TypeOK => Views
<1> SUFFICES ASSUME TypeOK PROVE Views OBVIOUS
<1>1. Client = [c \in Conns |-> Client[c]] /\ Up = [u \in Ups |-> Up[u]] BY DEF Client, Up
<1>2. ASSUME NEW c \in Conns
      PROVE  /\ Client[c] \in {"new", "open", "ending", "ended"}
             /\ Client[c] = "new" <=> cio[c] = "none"
             /\ Client[c] = "ending" <=> cio[c] = "closing"
             /\ Client[c] = "ended" <=> cio[c] = "closed"
             /\ Client[c] = "open" <=> cio[c] \in {"open", "queued"}
  BY DEF Client, TypeOK, IoStates
<1>3. ASSUME NEW u \in Ups
      PROVE  /\ Up[u] \in {"unused", "waiting", "established", "ended"}
             /\ Up[u] = "unused" <=> uio[u] = "none"
             /\ Up[u] = "waiting" <=> uio[u] = "connecting"
             /\ Up[u] = "ended" <=> uio[u] = "closed"
             /\ Up[u] = "established" <=> Live(uio[u])
  BY DEF Up, TypeOK, IoStates
<1> QED BY <1>1, <1>2, <1>3 DEF Views

LEMMA ViewsAfter == TypeOK' => Views'
BY ViewsHold, PTL

LEMMA InitPromised == Init => Promise!Init
<1> SUFFICES ASSUME Init PROVE Promise!Init OBVIOUS
<1>1. Client = [c \in Conns |-> "new"] /\ Up = [u \in Ups |-> "unused"]
  BY DEF Init, Client, Up
<1> QED BY <1>1 DEF Init, Promise!Init

\* What ends with a client.
LEMMA EndsPromised ==
  ASSUME Views, Views', ConnectParksClient', NEW c \in Conns, EndsFor(c)
  PROVE  Promise!End(c)
<1> DEFINE E == {u \in Ups : uio'[u] = "closed" /\ uio[u] # "closed"}
           s == Client'[c]
<1>1. UNCHANGED <<ulink, clink, from, fwd>> BY DEF EndsFor
<1>2. E \in SUBSET Promise!Own(c) /\ \A u \in E : Up[u] # "unused"
  BY DEF EndsFor, Promise!Own, Views
<1>3. /\ Client[c] # "new" /\ s \in {Client[c], "ending", "ended"}
      /\ Client[c] = "ended" => s = "ended"
      /\ E # {} => s \in {"ending", "ended"}
  BY DEF EndsFor, Views
<1>4. s = "ended" => \A u \in Promise!Own(c) : Up[u] = "waiting" => u \in E
  BY <1>1 DEF EndsFor, Views, Promise!Own, ConnectParksClient
<1>5. Client' = [Client EXCEPT ![c] = s]
  <2>1. \A d \in Conns \ {c} : Client'[d] = Client[d] BY DEF EndsFor, Views
  <2> QED BY <2>1 DEF Views
<1>6. Up' = [u \in Ups |-> IF u \in E THEN "ended" ELSE Up[u]]
  <2>1. \A u \in Ups : Up'[u] = IF u \in E THEN "ended" ELSE Up[u] BY DEF EndsFor, Views
  <2> QED BY <2>1 DEF Views
<1> HIDE DEF E, s
<1> QED BY <1>1, <1>2, <1>3, <1>4, <1>5, <1>6 DEF Promise!End

LEMMA AcceptPromised ==
  ASSUME TypeOK, Views, Views', NEW c \in Conns, Attach(c)
  PROVE  Promise!Accept(c)
<1>1. cio[c] = "none" /\ cio'[c] = "open" /\ \A d \in Conns \ {c} : cio'[d] = cio[d]
  BY DEF Attach, TypeOK
<1>2. UNCHANGED <<uio, ulink, clink, from, fwd>> BY DEF Attach, upVars
<1>3. Client' = [Client EXCEPT ![c] = "open"] /\ Client[c] = "new"
  <2>1. Client'[c] = "open" /\ \A d \in Conns \ {c} : Client'[d] = Client[d]
    BY <1>1 DEF Views
  <2> QED BY <1>1, <2>1 DEF Views
<1>4. Up' = Up BY <1>2 DEF Up
<1> QED BY <1>2, <1>3, <1>4 DEF Promise!Accept

\* The client that asks waits for nothing, and asks after all it has sent.
LEMMA AskForPromised ==
  ASSUME TypeOK, Safe, StreamSafe, Views, NEW c \in Conns, NEW u \in Ups, SetupUpstream(c, u)
  PROVE  Promise!AskFor(c, u)
<1>1. Live(cio[c]) /\ rmode[c] = "line" /\ uio[u] = "none"
  BY DEF SetupUpstream, HeadEnd, Reading
<1>2. Client[c] \in {"open", "ending"} /\ Up[u] = "unused"
  BY <1>1 DEF Views, TypeOK
<1>3. ~Promise!Waits(c)
  BY <1>1 DEF Promise!Waits, Promise!Own, Views, Safe, ConnectParksClient
<1>4. pos[c] \in Nat /\ from \in [Ups -> Nat] /\ from' = [from EXCEPT ![u] = pos[c] + 1]
  BY DEF SetupUpstream, TypeOK
<1>5. from'[u] = pos[c] + 1 /\ from'[u] \in Nat /\ from' = [from EXCEPT ![u] = from'[u]]
  BY <1>4
<1>6. \A v \in Promise!Own(c) : from[v] < from'[u] /\ \A p \in Promise!Given(v) : p < from'[u]
  <2> SUFFICES ASSUME NEW v \in Ups, ulink[v] = c
               PROVE  from[v] < from'[u] /\ \A i \in 1..Len(fwd[v]) : fwd[v][i] < from'[u]
    BY DEF Promise!Own, Promise!Given
  <2>1. from[v] \in Nat /\ \A i \in 1..Len(fwd[v]) : fwd[v][i] \in Nat BY DEF TypeOK
  <2>2. from[v] <= pos[c] /\ \A i \in 1..Len(fwd[v]) : fwd[v][i] <= pos[c]
    BY DEF StreamSafe, Delivered, GivenWasRead
  <2> QED BY <1>4, <1>5, <2>1, <2>2
<1>7. ulink' = [ulink EXCEPT ![u] = c] /\ clink' = [clink EXCEPT ![c] = u] /\ UNCHANGED fwd
  BY DEF SetupUpstream, LinkUpstream
<1> QED BY <1>2, <1>3, <1>5, <1>6, <1>7 DEF Promise!AskFor

LEMMA AskPromised ==
  ASSUME TypeOK, Safe, StreamSafe, Views, Views', NEW c \in Conns, NEW u \in Ups,
         HeadEndConnect(c, u) \/ HeadEndConnectFails(c, u)
  PROVE  Promise!Ask(c, u) \/ Promise!AskInVain(c, u)
<1>1. Promise!AskFor(c, u)
  BY AskForPromised DEF HeadEndConnect, HeadEndConnectFails
<1>2. ASSUME NEW s \in {"waiting", "ended"}, NEW x \in {"connecting", "closed"},
             (s = "waiting") <=> (x = "connecting"), uio' = [uio EXCEPT ![u] = x]
      PROVE  Up' = [Up EXCEPT ![u] = s]
  <2>1. uio'[u] = x /\ \A v \in Ups \ {u} : uio'[v] = uio[v] BY <1>2 DEF TypeOK
  <2>2. Up'[u] = s /\ \A v \in Ups \ {u} : Up'[v] = Up[v] BY <1>2, <2>1 DEF Views
  <2> QED BY <2>2 DEF Views
<1>3. CASE HeadEndConnect(c, u)
  <2>1. Up' = [Up EXCEPT ![u] = "waiting"] BY <1>2, <1>3 DEF HeadEndConnect
  <2>2. Client' = Client BY <1>3 DEF HeadEndConnect, Client
  <2> QED BY <1>1, <2>1, <2>2 DEF Promise!Ask
<1>4. CASE HeadEndConnectFails(c, u)
  <2>1. Up' = [Up EXCEPT ![u] = "ended"] BY <1>2, <1>4 DEF HeadEndConnectFails
  <2>2. cio'[c] \in {"closing", "closed"} /\ \A d \in Conns \ {c} : cio'[d] = cio[d]
    BY <1>4, HioCloseMoves DEF HeadEndConnectFails, TypeOK
  <2>3. Client'[c] \in {"ending", "ended"} /\ \A d \in Conns \ {c} : Client'[d] = Client[d]
    BY <2>2 DEF Views
  <2>4. Client' = [Client EXCEPT ![c] = Client'[c]] BY <2>3 DEF Views
  <2> QED BY <1>1, <2>1, <2>3, <2>4 DEF Promise!AskInVain
<1> QED BY <1>3, <1>4

LEMMA EstablishPromised ==
  ASSUME TypeOK, Safe, StreamSafe, Views, Views', NEW u \in Ups, OnUpstreamConnect(u)
  PROVE  ulink[u] \in Conns /\ u \in Promise!Own(ulink[u]) /\ Promise!Establish(u)
<1>1. uio[u] = "connecting" /\ UNCHANGED <<cio, clink, ulink, from>>
  BY DEF OnUpstreamConnect
<1>2. ulink[u] \in Conns /\ clink[ulink[u]] = u /\ Live(cio[ulink[u]])
  BY <1>1 DEF Safe, ConnectParksClient
<1>3. Client[ulink[u]] \in {"open", "ending"} /\ Up[u] = "waiting" /\ Client' = Client
  <2>1. Client[ulink[u]] \in {"open", "ending"} BY <1>2 DEF Views, TypeOK
  <2> QED BY <1>1, <2>1 DEF Views, Client
<1>4. Up' = [Up EXCEPT ![u] = "established"]
  <2>1. Live(uio'[u]) /\ \A v \in Ups \ {u} : uio'[v] = uio[v]
    BY DEF OnUpstreamConnect, HeadWritten, HeadNotWritten, TypeOK
  <2>2. Up'[u] = "established" /\ \A v \in Ups \ {u} : Up'[v] = Up[v] BY <2>1 DEF Views
  <2> QED BY <2>2 DEF Views
<1>5. \E head \in {<<>>, <<0>>} : fwd' = [fwd EXCEPT ![u] = head]
  <2>1. CASE HeadWritten(u, ulink[u]) BY <2>1 DEF HeadWritten
  <2>2. CASE HeadNotWritten(u)
    <3>1. fwd[u] = <<>> BY <1>1 DEF StreamSafe, Delivered, Unused
    <3>2. fwd' = fwd /\ fwd = [fwd EXCEPT ![u] = fwd[u]] BY <2>2 DEF HeadNotWritten, TypeOK
    <3>3. fwd' = [fwd EXCEPT ![u] = <<>>] BY <3>1, <3>2
    <3> QED BY <3>3
  <2> QED BY <2>1, <2>2 DEF OnUpstreamConnect
<1>6. u \in Promise!Own(ulink[u]) BY DEF Promise!Own
<1> QED BY <1>1, <1>2, <1>3, <1>4, <1>5, <1>6 DEF Promise!Establish

LEMMA GivePromised ==
  ASSUME TypeOK, Safe, StreamSafe, Views, Views', NEW c \in Conns,
         NEW k \in 1..Len(stream[c]), RecvBody(c, k)
  PROVE  Promise!Give(c) \/ UNCHANGED Promise!vars
<1>1. Live(cio[c]) /\ UNCHANGED <<cio, clink, ulink, from>> BY DEF RecvBody, Reading
<1>2. Client[c] \in {"open", "ending"} /\ Client' = Client
  <2>1. Client[c] \in {"open", "ending"} BY <1>1 DEF Views, TypeOK
  <2> QED BY <1>1, <2>1 DEF Client
<1>3. ASSUME NEW v \in Ups, Live(uio[v]), NEW x, Live(x), uio' = [uio EXCEPT ![v] = x]
      PROVE  Up' = Up
  <2>1. uio'[v] = x /\ \A w \in Ups \ {v} : uio'[w] = uio[w] BY <1>3 DEF TypeOK
  <2>2. \A w \in Ups : Up'[w] = Up[w] BY <1>3, <2>1 DEF Views
  <2> QED BY <2>2 DEF Views
<1>4. CASE UNCHANGED <<uio, fwd>>
  BY <1>1, <1>2, <1>4 DEF Promise!vars, Up
<1>5. CASE /\ clink[c] \in Ups /\ UNCHANGED fwd
           /\ uio[clink[c]] \in {"open", "broken"} /\ uio' = [uio EXCEPT ![clink[c]] = "broken"]
  <2>1. Up' = Up BY <1>3, <1>5
  <2> QED BY <1>1, <1>2, <1>5, <2>1 DEF Promise!vars
<1>6. CASE BodyGiven(c, k)
  <2> DEFINE u == clink[c]
  <2>1. PICK new \in Seq(Nat) :
          /\ fwd' = [fwd EXCEPT ![u] = new]
          /\ fwd[u] # <<>> /\ Len(new) > Len(fwd[u])
          /\ \A i \in 1..Len(fwd[u]) : new[i] = fwd[u][i]
          /\ InOrder(new, from[u], pos'[c])
    BY <1>6, BodyAppends
  <2>2. u \in Ups /\ Live(uio[u]) BY <1>6 DEF BodyGiven
  <2>3. Up' = Up /\ Up[u] = "established"
    <3>1. PICK x \in {"open", "queued", "closing"} : uio' = [uio EXCEPT ![u] = x]
      BY <1>6 DEF BodyGiven
    <3>2. Up' = Up BY <1>3, <2>2, <3>1
    <3> QED BY <2>2, <3>2 DEF Views
  <2>4. fwd[u] \in Seq(Nat) /\ from[u] \in Nat BY <2>2 DEF TypeOK
  <2>5. fwd'[u] = new BY <2>1, <2>2 DEF TypeOK
  <2>6. Len(fwd[u]) \in Nat /\ Len(fwd[u]) >= 1 BY <2>1, <2>4, EmptySeq
  <2>7. ASSUME NEW i \in Len(fwd[u]) + 1..Len(new)
        PROVE  new[i] > from[u] /\ new[i] > new[i - 1]
    <3>1. i \in 1..Len(new) /\ i > 1 /\ 1 \in 1..Len(new) BY <2>1, <2>6
    <3>2. new[i] > from[u] BY <2>1, <3>1 DEF InOrder
    <3>3. new[1] = 0 BY <2>1, <3>1 DEF InOrder
    <3>4. CASE i = 2 BY <2>4, <3>1, <3>2, <3>3, <3>4
    <3>5. CASE i # 2
      <4>1. i > 2 BY <3>1, <3>5
      <4> QED BY <2>1, <3>1, <3>2, <4>1 DEF InOrder
    <3> QED BY <3>4, <3>5
  <2> HIDE DEF u
  <2>8. \A i \in Len(fwd[u]) + 1..Len(fwd'[u]) :
          fwd'[u][i] > from[u] /\ fwd'[u][i] > fwd'[u][i - 1]
    BY <2>5, <2>7
  <2>9. fwd' = [fwd EXCEPT ![u] = fwd'[u]] BY <2>1, <2>5
  <2>10. \A i \in 1..Len(fwd[u]) : fwd'[u][i] = fwd[u][i] BY <2>1, <2>5
  <2>11. fwd[u] # <<>> /\ Len(fwd'[u]) > Len(fwd[u]) BY <2>1, <2>5
  <2> QED BY <1>1, <1>2, <2>2, <2>3, <2>8, <2>9, <2>10, <2>11 DEF Promise!Give, u
<1> QED BY <1>4, <1>5, <1>6, BodyWrites DEF BodyGiven

\* Every step of a worker is a step of the promise or changes nothing of it.
LEMMA StepPromised ==
  TypeOK /\ Safe /\ StreamSafe /\ TypeOK' /\ Safe' /\ [Next]_vars
    => [Promise!Next]_(Promise!vars)
<1> SUFFICES ASSUME TypeOK, Safe, StreamSafe, TypeOK', Safe', [Next]_vars
             PROVE  Promise!Next \/ UNCHANGED Promise!vars
  OBVIOUS
<1>1. Views /\ Views' BY ViewsHold, ViewsAfter
<1>2. ConnectParksClient' BY DEF Safe
<1>3. ASSUME NEW c \in Conns, EndsFor(c) PROVE Promise!Next
  BY <1>1, <1>2, <1>3, EndsPromised DEF Promise!Next
<1>4. ASSUME NEW c \in Conns, ClientNext(c) PROVE Promise!Next \/ UNCHANGED Promise!vars
  <2>1. CASE Attach(c)
    BY <1>1, <2>1, AcceptPromised DEF Promise!Next
  <2>2. CASE Asks(c)
    <3>1. PICK u \in Ups : HeadEndConnect(c, u) \/ HeadEndConnectFails(c, u)
      BY <2>2 DEF Asks
    <3>2. Promise!Ask(c, u) \/ Promise!AskInVain(c, u) BY <1>1, <3>1, AskPromised
    <3> QED BY <3>2 DEF Promise!Next
  <2>3. CASE Gives(c)
    <3>1. PICK k \in 1..Len(stream[c]) : RecvBody(c, k) BY <2>3 DEF Gives
    <3>2. Promise!Give(c) \/ UNCHANGED Promise!vars BY <1>1, <3>1, GivePromised
    <3> QED BY <3>2 DEF Promise!Next
  <2>4. CASE ~Attach(c) /\ ~Asks(c) /\ ~Gives(c)
    BY <1>3, <1>4, <2>4, ClientEnds
  <2> QED BY <2>1, <2>2, <2>3, <2>4
<1>5. ASSUME NEW u \in Ups, UpstreamNext(u) PROVE Promise!Next
  <2>1. CASE OnUpstreamConnect(u)
    BY <1>1, <2>1, EstablishPromised DEF Promise!Next
  <2>2. CASE ~OnUpstreamConnect(u)
    <3>1. uio[u] # "none"
      BY <1>5, <2>2 DEF UpstreamNext, ConnectFails, UpstreamData, UpstreamEof, UpstreamError,
                        UpstreamFlushed, Connected
    <3>2. ulink[u] \in Conns BY <3>1 DEF Safe, LinksAgree
    <3> QED BY <1>3, <1>5, <2>2, <3>2, UpstreamEnds
  <2> QED BY <2>1, <2>2
<1>6. CASE UNCHANGED vars
  BY <1>6 DEF vars, Promise!vars, Client, Up
<1> QED BY <1>4, <1>5, <1>6 DEF Next

\* A worker keeps the promise of Session, whatever clients send and however
\* their connections and those of their upstreams end.
THEOREM PromiseKept == Spec => KeepsPromise
<1>1. Init => Promise!Init BY InitPromised
<1>2. Spec => [](TypeOK /\ Safe /\ StreamSafe) BY StreamInvariance
<1>3. TypeOK /\ Safe /\ StreamSafe /\ TypeOK' /\ Safe' /\ [Next]_vars
        => [Promise!Next]_(Promise!vars)
  BY StepPromised
<1> QED BY <1>1, <1>2, <1>3, PTL DEF Spec, KeepsPromise, Promise!Spec

-----------------------------------------------------------------------------
(* What the promise entails holds of the worker.                           *)

Entailed == INSTANCE SessionTheorems
  WITH None <- NoIo, client <- Client, up <- Up, owner <- ulink, current <- clink,
       asked <- from, out <- fwd

LEMMA SamePromise ==
  /\ Promise!Init <=> Entailed!Init
  /\ [Promise!Next]_(Promise!vars) <=> [Entailed!Next]_(Entailed!vars)
BY DEF Promise!Init, Entailed!Init, Promise!Next, Entailed!Next, Promise!vars, Entailed!vars,
       Promise!Accept, Entailed!Accept, Promise!Ask, Entailed!Ask,
       Promise!AskInVain, Entailed!AskInVain, Promise!AskFor, Entailed!AskFor,
       Promise!Establish, Entailed!Establish, Promise!Give, Entailed!Give, Promise!End, Entailed!End,
       Promise!Own, Entailed!Own, Promise!Waits, Entailed!Waits, Promise!Given, Entailed!Given

\* A client waits for one upstream at a time, its latest, and for none after it
\* has ended.
THEOREM OneAtATime == Spec => []Entailed!WaitsForLast
<1>1. NoIo \notin Ups BY IoAssumption
<1>2. Entailed!Spec => []Entailed!WaitsForLast BY <1>1, Entailed!OneAtATime
<1>3. Spec => Entailed!Spec
  BY PromiseKept, SamePromise, PTL DEF KeepsPromise, Promise!Spec, Entailed!Spec
<1> QED BY <1>2, <1>3, PTL

=============================================================================
