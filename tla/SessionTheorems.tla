-------------------------- MODULE SessionTheorems --------------------------
(***************************************************************************)
(* What the promise of Session entails, for any clients and upstreams: the *)
(* guards of its steps speak of one moment, the theorems of all.           *)
(***************************************************************************)
EXTENDS Session, TLAPS

\* The shapes of the variables; what an upstream is given may be anything.
Shapes ==
  /\ client \in [Conns -> {"new", "open", "ending", "ended"}]
  /\ up \in [Ups -> {"unused", "waiting", "established", "ended"}]
  /\ owner \in [Ups -> Conns \union {None}]
  /\ current \in [Conns -> Ups \union {None}]
  /\ asked \in [Ups -> Nat]
  /\ DOMAIN out = Ups

\* The upstream a client asked for last is its own, and was asked for later than
\* its others.
LastIsCurrent ==
  \A c \in Conns, v \in Ups : up[v] # "unused" /\ owner[v] = c =>
    /\ current[c] \in Ups /\ up[current[c]] # "unused" /\ owner[current[c]] = c
    /\ v # current[c] => asked[v] < asked[current[c]]

CurrentIsOwn ==
  \A c \in Conns : current[c] # None => up[current[c]] # "unused" /\ owner[current[c]] = c

OwnedByClient == \A u \in Ups : up[u] # "unused" => owner[u] \in Conns

\* A client waits for one upstream at a time, for the one it asked for last, and
\* only while it has not ended (tsproxy.cpp:635-653, 551-559).
WaitsForLast ==
  \A c \in Conns, u \in Ups : owner[u] = c /\ up[u] = "waiting" =>
    current[c] = u /\ client[c] \in {"open", "ending"}

UnusedIsEmpty == \A u \in Ups : up[u] = "unused" => Given(u) = {}

\* What an upstream is given was sent before any later request of its client: it
\* is given no more once the next one is asked for (tsproxy.cpp:512).
GivenBeforeNextAsked ==
  \A u, v \in Ups :
    /\ up[u] # "unused" /\ up[v] # "unused" /\ owner[u] = owner[v] /\ asked[u] < asked[v]
    => \A p \in Given(u) : p < asked[v]

\* The inductive invariant.
Kept ==
  /\ Shapes /\ OwnedByClient /\ CurrentIsOwn /\ LastIsCurrent /\ WaitsForLast
  /\ UnusedIsEmpty /\ GivenBeforeNextAsked

-----------------------------------------------------------------------------
LEMMA InitKept == Init => Kept
BY DEF Init, Kept, Shapes, OwnedByClient, CurrentIsOwn, LastIsCurrent, WaitsForLast, UnusedIsEmpty, Given,
       GivenBeforeNextAsked

LEMMA GivenStays == ASSUME NEW u \in Ups, out'[u] = out[u] PROVE Given(u)' = Given(u)
BY DEF Given

\* What an asked-for upstream is: the latest of its client.
LEMMA AskForKept ==
  ASSUME None \notin Ups, Kept, NEW c \in Conns, NEW u \in Ups, AskFor(c, u),
         NEW s \in {"waiting", "ended"}, up' = [up EXCEPT ![u] = s],
         client' = client \/ s = "ended",
         client' \in [Conns -> {"new", "open", "ending", "ended"}],
         \A d \in Conns \ {c} : client'[d] = client[d]
  PROVE  Kept'
<1>1. /\ up[u] = "unused" /\ up'[u] = s /\ owner'[u] = c /\ current'[c] = u
      /\ \A v \in Ups \ {u} : up'[v] = up[v] /\ owner'[v] = owner[v] /\ asked'[v] = asked[v]
      /\ \A d \in Conns \ {c} : current'[d] = current[d]
      /\ out' = out /\ asked'[u] \in Nat
      /\ client[c] \in {"open", "ending"}
  BY DEF AskFor, Kept, Shapes
<1>2. \A v \in Ups \ {u} : owner[v] = c =>
        up[v] # "waiting" /\ asked[v] < asked'[u] /\ \A p \in Given(v) : p < asked'[u]
  BY DEF AskFor, Waits, Own
<1>3. Shapes' BY DEF AskFor, Kept, Shapes
<1>4. OwnedByClient' /\ CurrentIsOwn'
  <2>1. OwnedByClient' BY <1>1 DEF Kept, OwnedByClient
  <2>2. ASSUME NEW d \in Conns, current'[d] # None
        PROVE  up'[current'[d]] # "unused" /\ owner'[current'[d]] = d
    <3>1. CASE d = c BY <1>1, <3>1
    <3>2. CASE d # c
      <4>1. current'[d] = current[d] /\ current[d] \in Ups BY <1>1, <2>2, <3>2 DEF Kept, Shapes
      <4>2. up[current[d]] # "unused" /\ owner[current[d]] = d
        BY <2>2, <4>1 DEF Kept, CurrentIsOwn
      <4> QED BY <1>1, <4>1, <4>2
    <3> QED BY <3>1, <3>2
  <2> QED BY <2>1, <2>2 DEF CurrentIsOwn
<1>5. LastIsCurrent'
  <2> SUFFICES ASSUME NEW d \in Conns, NEW v \in Ups, up'[v] # "unused", owner'[v] = d
               PROVE  /\ current'[d] \in Ups /\ up'[current'[d]] # "unused"
                      /\ owner'[current'[d]] = d
                      /\ v # current'[d] => asked'[v] < asked'[current'[d]]
    BY DEF LastIsCurrent
  <2>1. CASE d = c BY <1>1, <1>2, <2>1
  <2>2. CASE d # c
    <3>1. v # u /\ up[v] # "unused" /\ owner[v] = d BY <1>1, <2>2
    <3>2. /\ current[d] \in Ups /\ up[current[d]] # "unused" /\ owner[current[d]] = d
          /\ v # current[d] => asked[v] < asked[current[d]]
      BY <3>1 DEF Kept, LastIsCurrent
    <3> QED BY <1>1, <2>2, <3>1, <3>2
  <2> QED BY <2>1, <2>2
<1>6. WaitsForLast'
  <2> SUFFICES ASSUME NEW d \in Conns, NEW v \in Ups, owner'[v] = d, up'[v] = "waiting"
               PROVE  current'[d] = v /\ client'[d] \in {"open", "ending"}
    BY DEF WaitsForLast
  <2>1. CASE v = u BY <1>1, <2>1
  <2>2. CASE v # u
    <3>1. owner[v] = d /\ up[v] = "waiting" /\ d # c BY <1>1, <1>2, <2>2
    <3> QED BY <1>1, <3>1 DEF Kept, WaitsForLast
  <2> QED BY <2>1, <2>2
<1>7. UnusedIsEmpty'
  <2> SUFFICES ASSUME NEW v \in Ups, up'[v] = "unused" PROVE Given(v)' = {}
    BY DEF UnusedIsEmpty
  <2>1. v # u /\ up[v] = "unused" BY <1>1
  <2>2. Given(v) = {} BY <2>1 DEF Kept, UnusedIsEmpty
  <2>3. out'[v] = out[v] BY <1>1
  <2> QED BY <2>2, <2>3, GivenStays
<1>8. GivenBeforeNextAsked'
  <2> SUFFICES ASSUME NEW v \in Ups, NEW w \in Ups, up'[v] # "unused", up'[w] # "unused",
                      owner'[v] = owner'[w], asked'[v] < asked'[w], NEW p \in Given(v)'
               PROVE  p < asked'[w]
    BY DEF GivenBeforeNextAsked
  <2>1. p \in Given(v) BY <1>1 DEF Given
  <2>2. v # u BY <1>1, <2>1 DEF Kept, UnusedIsEmpty
  <2>3. CASE w = u BY <1>1, <1>2, <2>1, <2>2, <2>3
  <2>4. CASE w # u BY <1>1, <2>1, <2>2, <2>4 DEF Kept, GivenBeforeNextAsked
  <2> QED BY <2>3, <2>4
<1> QED BY <1>3, <1>4, <1>5, <1>6, <1>7, <1>8 DEF Kept

\* Upstreams end, and become established when they were waited for: as long as the
\* requests and what was given stay, only who waits has to be shown.
LEMMA RequestsStay ==
  ASSUME None \notin Ups, Kept, UNCHANGED <<owner, current, asked, out>>, Shapes',
         \A u \in Ups : (up[u] = "unused") <=> (up'[u] = "unused"), WaitsForLast'
  PROVE  Kept'
<1>0. \A c \in Conns : current[c] # None => current[c] \in Ups BY DEF Kept, Shapes
<1>1. OwnedByClient' /\ CurrentIsOwn' /\ LastIsCurrent'
  BY <1>0 DEF Kept, OwnedByClient, CurrentIsOwn, LastIsCurrent
<1>2. UnusedIsEmpty' /\ GivenBeforeNextAsked'
  BY DEF Kept, UnusedIsEmpty, GivenBeforeNextAsked, Given
<1> QED BY <1>1, <1>2 DEF Kept

LEMMA GivesKept ==
  ASSUME None \notin Ups, Kept, NEW c \in Conns,
         UNCHANGED <<client, owner, current, asked>>,
         current[c] \in Ups, owner[current[c]] = c, Shapes',
         \A v \in Ups : (up[v] = "unused" <=> up'[v] = "unused") /\ (up'[v] = "waiting" => up[v] = "waiting"),
         up[current[c]] # "unused",
         \A v \in Ups \ {current[c]} : out'[v] = out[v]
  PROVE  Kept'
<1>0. \A d \in Conns : current[d] # None => current[d] \in Ups BY DEF Kept, Shapes
<1>1. OwnedByClient' /\ CurrentIsOwn' /\ LastIsCurrent'
  BY <1>0 DEF Kept, OwnedByClient, CurrentIsOwn, LastIsCurrent
<1>2. WaitsForLast' BY DEF Kept, WaitsForLast
<1>3. UnusedIsEmpty' BY DEF Kept, UnusedIsEmpty, Given
<1>4. GivenBeforeNextAsked'
  <2> SUFFICES ASSUME NEW v \in Ups, NEW w \in Ups, up'[v] # "unused", up'[w] # "unused",
                      owner[v] = owner[w], asked[v] < asked[w], NEW p \in Given(v)'
               PROVE  p < asked[w]
    BY DEF GivenBeforeNextAsked
  <2>1. v # current[c]
    BY DEF Kept, LastIsCurrent, Shapes
  <2>2. p \in Given(v) BY <2>1 DEF Given
  <2> QED BY <2>2 DEF Kept, GivenBeforeNextAsked
<1> QED BY <1>1, <1>2, <1>3, <1>4 DEF Kept

LEMMA KeptStep == ASSUME None \notin Ups, Kept, [Next]_vars PROVE Kept'
<1>1. CASE UNCHANGED vars
  <2>1. Shapes' /\ WaitsForLast' BY <1>1 DEF vars, Kept, Shapes, WaitsForLast
  <2> QED BY <1>1, <2>1, RequestsStay DEF vars
<1>2. ASSUME NEW c \in Conns, Accept(c) PROVE Kept'
  <2>1. Shapes' /\ WaitsForLast' BY <1>2 DEF Accept, Kept, Shapes, WaitsForLast
  <2> QED BY <1>2, <2>1, RequestsStay DEF Accept
<1>3. ASSUME NEW c \in Conns, NEW u \in Ups, Ask(c, u) PROVE Kept'
  BY <1>3, AskForKept DEF Ask, Kept, Shapes
<1>4. ASSUME NEW c \in Conns, NEW u \in Ups, AskInVain(c, u) PROVE Kept'
  <2>1. /\ client' \in [Conns -> {"new", "open", "ending", "ended"}]
        /\ \A d \in Conns \ {c} : client'[d] = client[d]
    BY <1>4 DEF AskInVain, Kept, Shapes
  <2> QED BY <1>4, <2>1, AskForKept DEF AskInVain
<1>5. ASSUME NEW c \in Conns, NEW u \in Own(c), Establish(u) PROVE Kept'
  <2>1. u \in Ups /\ owner[u] = c /\ current[c] = u BY <1>5 DEF Own, Establish
  <2>2. Shapes' BY <1>5, <2>1 DEF Establish, Kept, Shapes
  <2>3. /\ up[u] = "waiting" /\ up'[u] = "established" /\ \A v \in Ups \ {u} : up'[v] = up[v]
        /\ UNCHANGED <<client, owner, current, asked>>
    BY <1>5, <2>1 DEF Establish, Kept, Shapes
  <2>4. \A v \in Ups \ {u} : out'[v] = out[v] BY <1>5 DEF Establish, Kept, Shapes
  <2> QED BY <2>1, <2>2, <2>3, <2>4, GivesKept
<1>6. ASSUME NEW c \in Conns, Give(c) PROVE Kept'
  <2>1. /\ current[c] \in Ups /\ up[current[c]] = "established"
        /\ UNCHANGED <<client, up, owner, current, asked>>
    BY <1>6 DEF Give
  <2>2. \A v \in Ups \ {current[c]} : out'[v] = out[v] BY <1>6 DEF Give, Kept, Shapes
  <2>3. Shapes' BY <1>6 DEF Give, Kept, Shapes
  <2>4. owner[current[c]] = c BY <2>1 DEF Kept, CurrentIsOwn
  <2> QED BY <2>1, <2>2, <2>3, <2>4, GivesKept
<1>7. ASSUME NEW c \in Conns, End(c) PROVE Kept'
  <2>1. PICK E \in SUBSET Own(c), s \in {client[c], "ending", "ended"} :
          /\ \A u \in E : up[u] # "unused"
          /\ client[c] = "ended" => s = "ended"
          /\ s = "ended" => \A u \in Own(c) : up[u] = "waiting" => u \in E
          /\ client' = [client EXCEPT ![c] = s]
          /\ up' = [u \in Ups |-> IF u \in E THEN "ended" ELSE up[u]]
    BY <1>7 DEF End
  <2>2. client[c] # "new" /\ UNCHANGED <<owner, current, asked, out>> BY <1>7 DEF End
  <2>3. Shapes' BY <2>1, <2>2 DEF Kept, Shapes
  <2>4. WaitsForLast'
    <3> SUFFICES ASSUME NEW d \in Conns, NEW u \in Ups, owner[u] = d, up'[u] = "waiting"
                 PROVE  current[d] = u /\ client'[d] \in {"open", "ending"}
      BY <2>2 DEF WaitsForLast
    <3>1. u \notin E /\ up[u] = "waiting" BY <2>1
    <3>2. current[d] = u /\ client[d] \in {"open", "ending"}
      BY <3>1 DEF Kept, WaitsForLast
    <3>3. d = c => s # "ended" BY <2>1, <3>1 DEF Own
    <3> QED BY <2>1, <3>2, <3>3 DEF Kept, Shapes
  <2> QED BY <2>1, <2>2, <2>3, <2>4, RequestsStay
<1> QED BY <1>1, <1>2, <1>3, <1>4, <1>5, <1>6, <1>7 DEF Next

LEMMA AlwaysKept == ASSUME None \notin Ups PROVE Spec => []Kept
<1>1. Kept /\ [Next]_vars => Kept' BY KeptStep
<1> QED BY <1>1, InitKept, PTL DEF Spec

\* At no time does a client wait for two upstreams, for one that is not its
\* latest, or for any after it has ended.
THEOREM OneAtATime == ASSUME None \notin Ups PROVE Spec => []WaitsForLast
<1>1. Kept => WaitsForLast BY DEF Kept
<1> QED BY <1>1, AlwaysKept, PTL

\* No upstream is ever given what its client sent with or after a later request.
THEOREM GivenInTurn == ASSUME None \notin Ups PROVE Spec => []GivenBeforeNextAsked
<1>1. Kept => GivenBeforeNextAsked BY DEF Kept
<1> QED BY <1>1, AlwaysKept, PTL

=============================================================================
