--------------------------- MODULE DispatchProofs --------------------------
(***************************************************************************)
(* Proofs about Dispatch, for any number of connections and threads, any   *)
(* configuration files and any arguments.                                  *)
(***************************************************************************)
EXTENDS Dispatch, SequenceTheorems, WellFoundedInduction, TLAPS

N == ctx["thread_num"]

\* main has not come to accept yet.
Early == pc \in {"args", "spawn", "listen", "exited"}

\* Where main is, and what it has made by then.
MadeInv ==
  /\ Early => naccept = 0 /\ cur = 0 /\ \A w \in Workers : Dealt(w) = <<>>
  /\ pc = "args" => nloops = 0
  /\ pc \in {"spawn", "listen", "accepting"} => N # 0 /\ N <= MaxThreads
  /\ pc = "spawn" => nloops = 0 \/ nloops <= N
  /\ pc \in {"listen", "accepting"} /\ N > 0 => nloops = N
  /\ N < 0 => naccept = 0 /\ \A w \in Workers : Dealt(w) = <<>>
  /\ pc = "accepting" /\ N < 0 => cur = 0
  /\ pc = "crashed" => N < 0

\* In round r, the loops before cur have had r + 1 connections, the others r.
InRound(r) ==
  /\ naccept = r * N + cur
  /\ \A w \in Workers : w < N => Len(Dealt(w)) = IF w < cur THEN r + 1 ELSE r
  /\ \A w \in Workers : w >= N => Dealt(w) = <<>>

RoundInv == pc = "accepting" /\ N > 0 => cur <= N /\ \E r \in Nat : InRound(r)

IInv == TypeOK /\ MadeInv /\ RoundInv /\ RoundRobin /\ NoneLost

-----------------------------------------------------------------------------
\* Moving the first posted connection to the adopted ones changes nothing of
\* what was dealt, and posting one more appends it.
LEMMA MoveHead ==
  ASSUME NEW a \in Seq(Nat), NEW p \in Seq(Nat), p # <<>>
  PROVE  /\ Head(p) \in Nat /\ Tail(p) \in Seq(Nat)
         /\ Append(a, Head(p)) \in Seq(Nat)
         /\ Append(a, Head(p)) \o Tail(p) = a \o p
<1>1. /\ Len(p) \in Nat \ {0} /\ Head(p) = p[1] /\ Head(p) \in Nat
      /\ Tail(p) \in Seq(Nat)
  BY HeadTailProperties, EmptySeq
<1>2. p = <<Head(p)>> \o Tail(p)
  <2>1. 1 \in 1..Len(p) /\ Len(p) \in 1..Len(p) /\ 1 + 1 = 2
    BY <1>1
  <2>2. SubSeq(p, 1, Len(p)) = <<p[1]>> \o SubSeq(p, 1 + 1, Len(p))
    BY <2>1, SubSeqRecursiveFirst
  <2> QED BY <1>1, <2>1, <2>2, SubSeqFull, TailIsSubSeq
<1>3. Append(a, Head(p)) = a \o <<Head(p)>> /\ <<Head(p)>> \in Seq(Nat)
  BY <1>1, AppendIsConcat
<1>4. (a \o <<Head(p)>>) \o Tail(p) = a \o (<<Head(p)>> \o Tail(p))
  BY <1>1, <1>3, ConcatAssociative
<1>5. Append(a, Head(p)) \in Seq(Nat)
  BY <1>1
<1> QED BY <1>1, <1>2, <1>3, <1>4, <1>5

LEMMA PostLast ==
  ASSUME NEW a \in Seq(Nat), NEW p \in Seq(Nat), NEW x \in Nat
  PROVE  a \o Append(p, x) = Append(a \o p, x)
<1>1. Append(p, x) = p \o <<x>> /\ Append(a \o p, x) = (a \o p) \o <<x>>
  BY ConcatProperties, AppendIsConcat
<1>2. <<x>> \in Seq(Nat)
  OBVIOUS
<1> QED BY <1>1, <1>2, ConcatAssociative

\* The numbers of threads that a configuration or the arguments may give.
LEMMA ThreadsBounded ==
  ASSUME NEW n \in Int, NEW ncpu \in Nat, n <= MaxThreads, ncpu <= MaxThreads
  PROVE  /\ ThreadsOrDefault(n, ncpu) \in Int
         /\ ThreadsOrDefault(n, ncpu) # 0
         /\ ThreadsOrDefault(n, ncpu) <= MaxThreads
  BY BoundAssumption DEF ThreadsOrDefault

LEMMA DefaultPortIsNat == \A k \in PortKeys : DefaultPort[k] \in Nat
  BY DEF PortKeys, DefaultPort

\* What parse_confile and parse_args leave of thread_num.
LEMMA ConfileThreads ==
  ASSUME NEW ini \in Inis, NEW ncpu \in NCpus
  PROVE  LET x == ParseConfile(ini, ncpu)
         IN x \in [Keys -> Int] /\ x["thread_num"] # 0 /\ x["thread_num"] <= MaxThreads
<1>1. /\ ini \in [Keys -> Int] /\ ini["thread_num"] <= MaxThreads
      /\ ncpu \in Nat /\ ncpu <= MaxThreads
  BY ConfigAssumption, BoundAssumption
<1>2. "thread_num" \in Keys /\ ini["thread_num"] \in Int
  BY <1>1 DEF Keys
<1> DEFINE n == ThreadsOrDefault(ini["thread_num"], ncpu)
<1>3. n \in Int /\ n # 0 /\ n <= MaxThreads
  BY <1>1, <1>2, ThreadsBounded
<1>4. \A k \in Keys : k # "thread_num" => PortOrDefault(k, ini[k]) \in Int
  BY <1>1, DefaultPortIsNat DEF Keys, PortOrDefault
<1> HIDE DEF n
<1>5. ParseConfile(ini, ncpu)
        = [k \in Keys |-> IF k = "thread_num" THEN n ELSE PortOrDefault(k, ini[k])]
  BY DEF ParseConfile, n
<1> QED BY <1>2, <1>3, <1>4, <1>5

LEMMA ArgThreads ==
  ASSUME NEW proxyd \in Ports, NEW dest \in Ports, NEW ncpu \in NCpus,
         NEW threads \in {<<>>} \union {<<n>> : n \in Ports}
  PROVE  LET x == ParsePorts(proxyd, dest, threads, ncpu)
         IN x \in [Keys -> Int] /\ x["thread_num"] # 0 /\ x["thread_num"] <= MaxThreads
<1> DEFINE n == IF threads = <<>> THEN ThreadsOrDefault(ncpu, 1)
                ELSE ThreadsOrDefault(threads[1], 1)
           port(k) == CASE k = "proxyd" -> PortOrDefault(k, proxyd)
                        [] k = "dest" -> PortOrDefault(k, dest)
                        [] OTHER -> DefaultPort[k]
<1>1. /\ ncpu \in Nat /\ ncpu <= MaxThreads /\ 1 <= MaxThreads /\ MaxThreads \in Nat
      /\ \A m \in Ports : m \in Int /\ m <= MaxThreads
  BY ConfigAssumption, BoundAssumption
<1>2. n \in Int /\ n # 0 /\ n <= MaxThreads
  <2>1. CASE threads = <<>>
    <3>1. /\ ThreadsOrDefault(ncpu, 1) \in Int /\ ThreadsOrDefault(ncpu, 1) # 0
          /\ ThreadsOrDefault(ncpu, 1) <= MaxThreads
      BY <1>1 DEF ThreadsOrDefault
    <3> QED BY <2>1, <3>1
  <2>2. CASE threads # <<>>
    <3>1. PICK m \in Ports : threads = <<m>>
      BY <2>2
    <3>2. threads[1] = m
      BY <3>1
    <3>3. /\ ThreadsOrDefault(m, 1) \in Int /\ ThreadsOrDefault(m, 1) # 0
          /\ ThreadsOrDefault(m, 1) <= MaxThreads
      BY <1>1 DEF ThreadsOrDefault
    <3> QED BY <2>2, <3>2, <3>3
  <2> QED BY <2>1, <2>2
<1>3. \A k \in PortKeys : port(k) \in Int
  BY <1>1, DefaultPortIsNat DEF PortOrDefault, PortKeys
<1> HIDE DEF n
<1>4. ParsePorts(proxyd, dest, threads, ncpu)
        = [k \in Keys |-> IF k = "thread_num" THEN n ELSE port(k)]
  BY DEF ParsePorts, n, Keys, PortKeys
<1> HIDE DEF port
<1>5. "thread_num" \in Keys /\ \A k \in Keys : k # "thread_num" => k \in PortKeys
  BY DEF Keys
<1> QED BY <1>2, <1>3, <1>4, <1>5

\* FirstRule is the number of a rule, or 0: a route is always a key of ctx.
LEMMA FirstRuleIsRule == \A p : FirstRule(p) \in 0..Len(Rules)
<1> TAKE p
<1> DEFINE I == {i \in 1..Len(Rules) : IsPrefix(Rules[i].prefix, p)}
<1>1. FirstRule(p) = IF I # {} THEN Min(I) ELSE 0
  BY DEF FirstRule, SelectInSeq
<1>2. Len(Rules) = 10
  BY DEF Rules
<1>3. I # {} => \E i \in I : \A j \in I : i <= j
  <2>1. SUFFICES ASSUME NEW k \in I, \A i \in I : \E j \in I : j < i PROVE FALSE
    BY <1>2
  <2> QED BY <1>2, <2>1
<1>4. I # {} => Min(I) \in I
  BY <1>3 DEF Min
<1> QED BY <1>1, <1>2, <1>4

LEMMA RouteKeyIsKey == \A p : RouteKey(p) \in PortKeys
<1> TAKE p
<1> DEFINE i == FirstRule(FromSlash(AfterScheme(p)))
<1>1. i \in 0..Len(Rules) /\ RouteKey(p) = IF i = 0 THEN "dest" ELSE Rules[i].key
  BY FirstRuleIsRule DEF RouteKey
<1>2. Len(Rules) = 10 /\ \A j \in 1..10 : Rules[j].key \in PortKeys
  BY DEF Rules, PortKeys
<1> HIDE DEF i
<1> QED BY <1>1, <1>2 DEF PortKeys

-----------------------------------------------------------------------------
(* The initial state, and the steps that move no connection.               *)

LEMMA InitIInv == Init => IInv
<1> SUFFICES ASSUME Init PROVE IInv
  OBVIOUS
<1>1. \A w \in Workers : Dealt(w) = <<>>
  BY DEF Init, Dealt
<1>2. TypeOK
  <2>1. <<>> \in Seq(Nat) /\ 0 \in 0..MaxThreads /\ 0 \in 0..MaxConns
    BY BoundAssumption
  <2> QED BY <2>1 DEF Init, TypeOK, PcStates, NotRouted
<1>3. MadeInv
  BY <1>1 DEF Init, MadeInv, Early
<1>4. RoundInv /\ RoundRobin /\ NoneLost
  BY <1>1 DEF Init, RoundInv, RoundRobin, NoneLost
<1> QED BY <1>2, <1>3, <1>4 DEF IInv

\* No connection is moved: only pc, nloops and looping may have changed, as far
\* as MadeInv allows.
LEMMA NoMove ==
  ASSUME IInv, TypeOK', MadeInv', UNCHANGED <<ctx, loopVars>>,
         pc' = "accepting" => pc \in {"listen", "accepting"}
  PROVE  IInv'
<1>1. \A w : Dealt(w)' = Dealt(w)
  BY DEF Dealt, loopVars
<1>2. RoundRobin'
  BY <1>1 DEF IInv, RoundRobin, loopVars
<1>3. NoneLost'
  BY <1>1 DEF IInv, NoneLost, loopVars
<1>4. RoundInv'
  <2> SUFFICES ASSUME pc' = "accepting", N' > 0
               PROVE  (cur <= N /\ \E r \in Nat : InRound(r))'
    BY DEF RoundInv
  <2>1. CASE pc = "accepting"
    BY <1>1, <2>1 DEF IInv, RoundInv, InRound, loopVars, N
  <2>2. CASE pc = "listen"
    <3>1. naccept = 0 /\ cur = 0 /\ (\A w \in Workers : Dealt(w) = <<>>) /\ N > 0
      BY <2>2 DEF IInv, MadeInv, Early, N
    <3>2. N \in Int /\ 0 * N = 0
      BY DEF IInv, TypeOK, N, Keys
    <3>3. InRound(0)
      BY <3>1, <3>2 DEF InRound, Workers
    <3>4. InRound(0)'
      BY <1>1, <3>3 DEF InRound, loopVars, N
    <3> QED BY <3>1, <3>2, <3>4 DEF loopVars, N
  <2> QED BY <2>1, <2>2
<1> QED BY <1>2, <1>3, <1>4 DEF IInv

LEMMA StillStep ==
  ASSUME IInv,
         \/ ArgsExit \/ SpawnWorker \/ SpawnDone \/ Listen \/ OnAcceptCrashes
         \/ (\E w \in Workers : WorkerThread(w) \/ \E p \in Paths : OnHeadEnd(w, p))
         \/ UNCHANGED vars
  PROVE  IInv'
<1>1. /\ UNCHANGED loopVars => \A w : Dealt(w)' = Dealt(w)
      /\ N \in Int /\ MaxThreads \in Nat /\ cur \in Nat /\ nloops \in Nat
  <2>1. UNCHANGED loopVars => \A w : Dealt(w)' = Dealt(w)
    BY DEF Dealt, loopVars
  <2>2. "thread_num" \in Keys
    BY DEF Keys
  <2> QED BY <2>1, <2>2, BoundAssumption DEF IInv, TypeOK, N
<1>2. CASE ArgsExit
  <2>1. TypeOK'
    BY <1>2 DEF IInv, TypeOK, ArgsExit, loopVars, PcStates
  <2>2. MadeInv'
    BY <1>1, <1>2 DEF IInv, MadeInv, ArgsExit, loopVars, Early, N
  <2> QED BY <1>2, <2>1, <2>2, NoMove DEF ArgsExit
<1>3. CASE SpawnWorker
  <2>1. TypeOK'
    BY <1>1, <1>3 DEF IInv, TypeOK, MadeInv, SpawnWorker, loopVars, N
  <2>2. MadeInv'
    BY <1>1, <1>3 DEF IInv, MadeInv, SpawnWorker, loopVars, Early, N
  <2> QED BY <1>3, <2>1, <2>2, NoMove DEF SpawnWorker
<1>4. CASE SpawnDone
  <2>1. TypeOK'
    BY <1>4 DEF IInv, TypeOK, SpawnDone, loopVars, PcStates
  <2>2. MadeInv'
    BY <1>1, <1>4 DEF IInv, MadeInv, SpawnDone, loopVars, Early, N
  <2> QED BY <1>4, <2>1, <2>2, NoMove DEF SpawnDone
<1>5. CASE Listen
  <2>1. TypeOK'
    BY <1>5 DEF IInv, TypeOK, Listen, loopVars, PcStates
  <2>2. MadeInv'
    BY <1>1, <1>5 DEF IInv, MadeInv, Listen, loopVars, Early, N
  <2> QED BY <1>5, <2>1, <2>2, NoMove DEF Listen
<1>6. CASE OnAcceptCrashes
  <2>1. TypeOK'
    BY <1>6 DEF IInv, TypeOK, OnAcceptCrashes, loopVars, PcStates
  <2>2. N < 0
    BY <1>1, <1>6 DEF IInv, MadeInv, RoundInv, OnAcceptCrashes, HasLoop, NextIndex, N
  <2>3. MadeInv'
    BY <1>1, <1>6, <2>2 DEF IInv, MadeInv, OnAcceptCrashes, loopVars, Early, N
  <2> QED BY <1>6, <2>1, <2>3, NoMove DEF OnAcceptCrashes
<1>7. ASSUME NEW w \in Workers, WorkerThread(w) PROVE IInv'
  <2>1. TypeOK'
    BY <1>7 DEF IInv, TypeOK, WorkerThread, loopVars
  <2>2. MadeInv'
    BY <1>1, <1>7 DEF IInv, MadeInv, WorkerThread, loopVars, Early, N
  <2> QED BY <1>7, <2>1, <2>2, NoMove DEF WorkerThread
<1>8. ASSUME NEW w \in Workers, NEW p \in Paths, OnHeadEnd(w, p) PROVE IInv'
  <2>1. ParseProxyPort(ctx, p) \in Int
    <3>1. RouteKey(p) \in Keys /\ "dest" \in Keys
      BY RouteKeyIsKey DEF Keys, PortKeys
    <3> QED BY <3>1 DEF IInv, TypeOK, ParseProxyPort
  <2>2. TypeOK'
    BY <1>8, <2>1 DEF IInv, TypeOK, OnHeadEnd, loopVars
  <2>3. MadeInv'
    BY <1>1, <1>8 DEF IInv, MadeInv, OnHeadEnd, loopVars, Early, N
  <2> QED BY <1>8, <2>2, <2>3, NoMove DEF OnHeadEnd
<1>9. CASE UNCHANGED vars
  <2>1. TypeOK'
    BY <1>9 DEF IInv, TypeOK, vars, loopVars
  <2>2. MadeInv'
    BY <1>1, <1>9 DEF IInv, MadeInv, vars, loopVars, Early, N
  <2> QED BY <1>9, <2>1, <2>2, NoMove DEF vars, loopVars
<1> QED BY <1>2, <1>3, <1>4, <1>5, <1>6, <1>7, <1>8, <1>9

\* The configuration is read before anything is accepted.
LEMMA ArgsStep ==
  ASSUME IInv, ArgsConfile \/ ArgsPorts
  PROVE  IInv'
<1>1. /\ ctx' \in [Keys -> Int] /\ N' # 0 /\ N' <= MaxThreads
      /\ pc = "args" /\ pc' \in {"spawn", "exited"}
      /\ UNCHANGED <<nloops, looping, loopVars, routed>>
  <2>1. CASE ArgsConfile
    BY <2>1, ConfileThreads DEF ArgsConfile, N
  <2>2. CASE ArgsPorts
    BY <2>2, ArgThreads DEF ArgsPorts, N
  <2> QED BY <2>1, <2>2
<1>2. TypeOK'
  BY <1>1 DEF IInv, TypeOK, loopVars, PcStates
<1>3. /\ nloops = 0 /\ naccept = 0 /\ cur = 0
      /\ \A w \in Workers : Dealt(w) = <<>> /\ Dealt(w)' = <<>>
  BY <1>1 DEF IInv, MadeInv, Early, Dealt, loopVars
<1>4. N' \in Int
  BY <1>1 DEF N, Keys
<1>5. MadeInv'
  BY <1>1, <1>3, <1>4 DEF MadeInv, Early, loopVars
<1>6. RoundInv' /\ RoundRobin' /\ NoneLost'
  BY <1>1, <1>3 DEF RoundInv, RoundRobin, NoneLost, loopVars
<1> QED BY <1>2, <1>5, <1>6 DEF IInv

-----------------------------------------------------------------------------
(* The steps that move a connection.                                       *)

\* Adopting the connection posted first deals nothing out.
LEMMA NewConnEventStep ==
  ASSUME IInv, NEW v \in Workers, NewConnEvent(v)
  PROVE  IInv'
<1>1. /\ adopted[v] \in Seq(Nat) /\ posted[v] \in Seq(Nat) /\ posted[v] # <<>>
      /\ adopted' = [adopted EXCEPT ![v] = Append(adopted[v], Head(posted[v]))]
      /\ posted' = [posted EXCEPT ![v] = Tail(posted[v])]
      /\ adopted \in [Workers -> Seq(Nat)] /\ posted \in [Workers -> Seq(Nat)]
      /\ UNCHANGED <<pc, ctx, nloops, looping, cur, naccept, routed>>
  BY DEF IInv, TypeOK, NewConnEvent
<1>2. /\ Tail(posted[v]) \in Seq(Nat)
      /\ Append(adopted[v], Head(posted[v])) \in Seq(Nat)
      /\ Append(adopted[v], Head(posted[v])) \o Tail(posted[v]) = adopted[v] \o posted[v]
  BY <1>1, MoveHead
<1>3. \A w \in Workers : Dealt(w)' = Dealt(w)
  <2> SUFFICES ASSUME NEW w \in Workers PROVE Dealt(w)' = Dealt(w)
    OBVIOUS
  <2>1. CASE w = v
    BY <1>1, <1>2, <2>1 DEF Dealt
  <2>2. CASE w # v
    BY <1>1, <2>2 DEF Dealt
  <2> QED BY <2>1, <2>2
<1>4. TypeOK'
  BY <1>1, <1>2 DEF IInv, TypeOK
<1>5. MadeInv'
  BY <1>1, <1>3 DEF IInv, MadeInv, Early, N
<1>6. RoundInv'
  BY <1>1, <1>3 DEF IInv, RoundInv, InRound, N
<1>7. RoundRobin'
  BY <1>1, <1>3 DEF IInv, RoundRobin
<1>8. NoneLost'
  <2> SUFFICES ASSUME NEW c \in 1..naccept
               PROVE  \E w \in Workers : \E j \in 1..Len(Dealt(w)') : Dealt(w)'[j] = c
    BY <1>1 DEF NoneLost
  <2>1. PICK w \in Workers : \E j \in 1..Len(Dealt(w)) : Dealt(w)[j] = c
    BY DEF IInv, NoneLost
  <2>2. \E j \in 1..Len(Dealt(w)') : Dealt(w)'[j] = c
    BY <1>3, <2>1
  <2> QED BY <2>2
<1> QED BY <1>4, <1>5, <1>6, <1>7, <1>8 DEF IInv

\* What an accepted connection finds: the round it is dealt in, and the loop it
\* is dealt to, which has been given one connection in each round before.
LEMMA NextRound ==
  ASSUME IInv, pc = "accepting", HasLoop(NextIndex)
  PROVE  /\ N \in Nat /\ N > 0 /\ N <= MaxThreads /\ nloops = N
         /\ NextIndex \in Nat /\ NextIndex < N /\ NextIndex \in Workers
         /\ \E r \in Nat :
              /\ naccept = r * N + NextIndex
              /\ \A w \in Workers : w < N =>
                   Len(Dealt(w)) = IF w < NextIndex THEN r + 1 ELSE r
              /\ \A w \in Workers : w >= N => Dealt(w) = <<>>
<1>1. /\ N \in Int /\ cur \in Nat /\ MaxThreads \in Nat
  BY BoundAssumption DEF IInv, TypeOK, N, Keys
<1>2. NextIndex \in Nat /\ NextIndex < N /\ N > 0
  BY <1>1 DEF NextIndex, HasLoop, N
<1>3. N <= MaxThreads /\ nloops = N /\ cur <= N
  BY <1>1, <1>2 DEF IInv, MadeInv, RoundInv
<1>4. PICK r \in Nat : InRound(r)
  BY <1>2 DEF IInv, RoundInv
<1>5. CASE cur = N
  <2>1. NextIndex = 0
    BY <1>5 DEF NextIndex, N
  <2>2. naccept = (r + 1) * N + 0
    BY <1>1, <1>4, <1>5 DEF InRound
  <2>3. \A w \in Workers : w < N => Len(Dealt(w)) = r + 1
    BY <1>4, <1>5 DEF InRound
  <2>4. \A w \in Workers : ~(w < 0)
    BY DEF Workers
  <2> QED BY <1>1, <1>2, <1>3, <1>4, <2>1, <2>2, <2>3, <2>4 DEF InRound, Workers
<1>6. CASE cur # N
  <2>1. NextIndex = cur
    BY <1>6 DEF NextIndex, N
  <2> QED BY <1>1, <1>2, <1>3, <1>4, <2>1 DEF InRound, Workers
<1> QED BY <1>5, <1>6

LEMMA OnAcceptStep ==
  ASSUME IInv, OnAccept
  PROVE  IInv'
<1> DEFINE x == naccept + 1
<1>0. PICK v \in Workers : v = NextIndex
  BY NextRound DEF OnAccept
<1>1. PICK r \in Nat :
        /\ naccept = r * N + v
        /\ \A w \in Workers : w < N => Len(Dealt(w)) = IF w < v THEN r + 1 ELSE r
        /\ \A w \in Workers : w >= N => Dealt(w) = <<>>
  BY <1>0, NextRound DEF OnAccept
<1>2. /\ N \in Nat /\ N > 0 /\ N <= MaxThreads /\ nloops = N
      /\ v \in Nat /\ v < N /\ v \in Workers
  BY <1>0, NextRound DEF OnAccept
<1>3. /\ pc = "accepting" /\ cur' = v + 1 /\ naccept' = x /\ naccept < MaxConns
      /\ posted' = [posted EXCEPT ![v] = Append(posted[v], x)]
      /\ UNCHANGED <<pc, ctx, nloops, looping, adopted, routed>>
  BY <1>0 DEF OnAccept, PostEvent
<1>4. /\ adopted[v] \in Seq(Nat) /\ posted[v] \in Seq(Nat) /\ naccept \in Nat /\ x \in Nat
      /\ posted \in [Workers -> Seq(Nat)] /\ MaxConns \in Nat /\ MaxThreads \in Nat
  BY <1>2, BoundAssumption DEF IInv, TypeOK
<1>5. N' = N
  BY <1>3 DEF N
<1> HIDE DEF x
<1>6. TypeOK'
  <2>1. Append(posted[v], x) \in Seq(Nat) /\ v + 1 \in 0..MaxThreads /\ x \in 0..MaxConns
    BY <1>2, <1>3, <1>4 DEF x
  <2> QED BY <1>3, <1>4, <2>1 DEF IInv, TypeOK
<1>7. /\ \A w \in Workers : w # v => Dealt(w)' = Dealt(w)
      /\ Dealt(v)' = Append(Dealt(v), x) /\ Dealt(v) \in Seq(Nat) /\ Len(Dealt(v)) = r
  <2>1. \A w \in Workers : w # v => Dealt(w)' = Dealt(w)
    BY <1>3, <1>4 DEF Dealt
  <2>2. Dealt(v)' = Append(Dealt(v), x)
    BY <1>2, <1>3, <1>4, PostLast DEF Dealt
  <2>3. Dealt(v) \in Seq(Nat)
    BY <1>4, ConcatProperties DEF Dealt
  <2> QED BY <1>1, <1>2, <2>1, <2>2, <2>3
<1>8. /\ Len(Dealt(v)') = r + 1 /\ Dealt(v)'[r + 1] = x
      /\ \A j \in 1..r : Dealt(v)'[j] = Dealt(v)[j]
  BY <1>4, <1>7, AppendProperties
<1>9. MadeInv'
  BY <1>2, <1>3, <1>5 DEF IInv, MadeInv, Early
<1>10. RoundInv'
  <2>1. naccept' = r * N + cur'
    BY <1>1, <1>2, <1>3, <1>4 DEF x
  <2>2. \A w \in Workers : w < N => Len(Dealt(w)') = IF w < cur' THEN r + 1 ELSE r
    <3> SUFFICES ASSUME NEW w \in Workers, w < N
                 PROVE  Len(Dealt(w)') = IF w < cur' THEN r + 1 ELSE r
      OBVIOUS
    <3>1. CASE w = v
      BY <1>2, <1>3, <1>8, <3>1
    <3>2. CASE w # v
      BY <1>1, <1>2, <1>3, <1>7, <3>2 DEF Workers
    <3> QED BY <3>1, <3>2
  <2>3. \A w \in Workers : w >= N => Dealt(w)' = <<>>
    BY <1>1, <1>2, <1>7 DEF Workers
  <2>4. cur' <= N
    BY <1>2, <1>3
  <2> QED BY <1>5, <2>1, <2>2, <2>3, <2>4 DEF RoundInv, InRound
<1>11. RoundRobin'
  <2> SUFFICES ASSUME NEW w \in Workers, NEW j \in 1..Len(Dealt(w)')
               PROVE  Dealt(w)'[j] = (j - 1) * N + w + 1
    BY <1>5 DEF RoundRobin, N
  <2>1. CASE w # v
    BY <1>7, <2>1 DEF IInv, RoundRobin, N
  <2>2. CASE w = v /\ j = r + 1
    BY <1>1, <1>2, <1>4, <1>8, <2>2 DEF x
  <2>3. CASE w = v /\ j # r + 1
    <3>1. j \in 1..r
      BY <1>8, <2>3
    <3> QED BY <1>7, <1>8, <2>3, <3>1 DEF IInv, RoundRobin, N
  <2> QED BY <2>1, <2>2, <2>3
<1>12. NoneLost'
  <2> SUFFICES ASSUME NEW c \in 1..x
               PROVE  \E w \in Workers : \E j \in 1..Len(Dealt(w)') : Dealt(w)'[j] = c
    BY <1>3 DEF NoneLost
  <2>1. CASE c = x
    BY <1>2, <1>8, <2>1
  <2>2. CASE c # x
    <3>1. c \in 1..naccept
      BY <1>4, <2>2 DEF x
    <3>2a. PICK w \in Workers : \E j \in 1..Len(Dealt(w)) : Dealt(w)[j] = c
      BY <3>1 DEF IInv, NoneLost
    <3>2. PICK j \in 1..Len(Dealt(w)) : Dealt(w)[j] = c
      BY <3>2a
    <3>3. CASE w # v
      BY <1>7, <3>2, <3>3
    <3>4. CASE w = v
      <4>1. j \in 1..r /\ j \in 1..(r + 1)
        BY <1>7, <3>2, <3>4
      <4> QED BY <1>2, <1>8, <3>2, <3>4, <4>1
    <3> QED BY <3>3, <3>4
  <2> QED BY <2>1, <2>2
<1> QED BY <1>6, <1>9, <1>10, <1>11, <1>12 DEF IInv

-----------------------------------------------------------------------------
(* The theorems.                                                           *)

\* The inductive invariant holds in every reachable state: each worker loop has
\* had one connection of every round that is over (get_next_loop, on_accept).
THEOREM Invariance == Spec => []IInv
<1>1. ASSUME IInv, [Next]_vars PROVE IInv'
  BY <1>1, StillStep, ArgsStep, NewConnEventStep, OnAcceptStep
     DEF Next, Main, Worker
<1> QED BY InitIInv, <1>1, PTL DEF Spec

\* Every variable keeps its type, and s_cur_index stays within worker_loops, its
\* end included.
THEOREM TypeCorrect == Spec => []TypeOK
<1>1. IInv => TypeOK
  BY DEF IInv
<1> QED BY <1>1, Invariance, PTL

\* Whatever the workers do, the j-th connection of a worker loop is the one
\* accepted in the j-th round at its place.
THEOREM DealtInTurn == Spec => []RoundRobin
<1>1. IInv => RoundRobin
  BY DEF IInv
<1> QED BY <1>1, Invariance, PTL

\* No connection is lost between hio_detach and new_conn_event.
THEOREM NoConnectionLost == Spec => []NoneLost
<1>1. IInv => NoneLost
  BY DEF IInv
<1> QED BY <1>1, Invariance, PTL

\* No worker loop gets two connections more than another.
THEOREM SpreadEvenly == Spec => []EvenSpread
<1>1. IInv => EvenSpread
  <2> SUFFICES ASSUME IInv, NEW w \in Workers, NEW u \in Workers, w < N, u < N
               PROVE  Len(Dealt(w)) <= Len(Dealt(u)) + 1
    BY DEF EvenSpread, N
  <2>1. N \in Int /\ w \in Nat
    BY DEF IInv, TypeOK, N, Keys, Workers
  <2>2. CASE pc = "accepting"
    <3>1. PICK r \in Nat : InRound(r)
      BY <2>1, <2>2 DEF IInv, RoundInv
    <3> QED BY <2>1, <3>1 DEF InRound
  <2>3. CASE pc # "accepting"
    <3>1. pc = "crashed" => N < 0
      BY DEF IInv, MadeInv
    <3>2. Dealt(w) = <<>> /\ Dealt(u) = <<>>
      BY <2>1, <2>3, <3>1 DEF IInv, MadeInv, Early, TypeOK, PcStates
    <3> QED BY <3>2
  <2> QED BY <2>2, <2>3
<1> QED BY <1>1, Invariance, PTL

\* A connection is only dealt to a loop that main has made.
THEOREM OnlyMadeLoops == Spec => []DealtToMadeLoops
<1>1. IInv => DealtToMadeLoops
  <2> SUFFICES ASSUME IInv, NEW w \in Workers, Dealt(w) # <<>>
               PROVE  w < nloops
    BY DEF DealtToMadeLoops
  <2>1. N \in Int /\ w \in Nat
    BY DEF IInv, TypeOK, N, Keys, Workers
  <2>2. pc = "accepting" /\ N > 0
    BY <2>1 DEF IInv, MadeInv, Early, TypeOK, PcStates
  <2>3. nloops = N
    BY <2>2 DEF IInv, MadeInv
  <2>4. w < N
    BY <2>1, <2>2 DEF IInv, RoundInv, InRound
  <2> QED BY <2>3, <2>4
<1> QED BY <1>1, Invariance, PTL

\* main is left without a worker loop only by a negative number of threads.
THEOREM CrashNeedsNegative == Spec => []OnlyNegativeCrashes
<1>1. IInv => OnlyNegativeCrashes
  BY DEF IInv, MadeInv, OnlyNegativeCrashes, N
<1> QED BY <1>1, Invariance, PTL

-----------------------------------------------------------------------------
(* Routing: the two functions agree on the path and on its rule.           *)

\* The rules a path starts with.
Matching(q) == {i \in 1..Len(Rules) : IsPrefix(Rules[i].prefix, q)}

LEMMA FirstMatching ==
  ASSUME NEW q
  PROVE  /\ Matching(q) = {} => FirstRule(q) = 0
         /\ Matching(q) # {} => /\ FirstRule(q) \in Matching(q)
                                /\ \A j \in Matching(q) : FirstRule(q) <= j
<1>1. FirstRule(q) = IF Matching(q) # {} THEN Min(Matching(q)) ELSE 0
  BY DEF FirstRule, SelectInSeq, Matching
<1>2. Len(Rules) = 10 /\ Matching(q) \subseteq 1..10
  BY DEF Rules, Matching
<1>3. Matching(q) # {} => \E i \in Matching(q) : \A j \in Matching(q) : i <= j
  <2>1. SUFFICES ASSUME NEW k \in Matching(q),
                        \A i \in Matching(q) : \E j \in Matching(q) : j < i
                 PROVE  FALSE
    BY <1>2
  <2> QED BY <1>2, <2>1
<1> QED BY <1>1, <1>3 DEF Min

\* A path that starts with a rule has the second token of the rule.
SecondToken(i) == Rules[i].prefix[2]

LEMMA SecondOfPair ==
  ASSUME NEW x, NEW y
  PROVE  Len(<<x, y>>) = 2 /\ SubSeq(<<x, y>>, 1, 2)[2] = y /\ <<x, y>>[2] = y
OBVIOUS

LEMMA SecondOfSix ==
  ASSUME NEW x, NEW y, NEW a, NEW b, NEW c, NEW d
  PROVE  /\ Len(<<x, y, a, b, c, d>>) = 6
         /\ SubSeq(<<x, y, a, b, c, d>>, 1, 6)[2] = y /\ <<x, y, a, b, c, d>>[2] = y
OBVIOUS

LEMMA PrefixLengths ==
  ASSUME NEW i \in 1..10
  PROVE  /\ Len(Rules[i].prefix) = IF i \in {2, 10} THEN 6 ELSE 2
         /\ SubSeq(Rules[i].prefix, 1, Len(Rules[i].prefix))[2] = SecondToken(i)
<1> USE DEF SecondToken
<1> DEFINE s == Rules[i].prefix
<1>1. CASE i \in {2, 10}
  <2>1. \E y, a, b, c, d : s = <<"/", y, a, b, c, d>>
    BY <1>1 DEF Rules
  <2> QED BY <1>1, <2>1, SecondOfSix
<1>2. CASE i \notin {2, 10}
  <2>1. \E y : s = <<"/", y>>
    BY <1>2 DEF Rules
  <2> QED BY <1>2, <2>1, SecondOfPair
<1> QED BY <1>1, <1>2

LEMMA MatchingSecond ==
  ASSUME NEW q, NEW S, q \in Seq(S), NEW i \in Matching(q)
  PROVE  i \in 1..10 /\ q[2] = SecondToken(i)
<1>1. i \in 1..10 /\ IsPrefix(Rules[i].prefix, q)
  BY DEF Matching, Rules
<1> DEFINE s == Rules[i].prefix
<1>2. Len(s) \in {2, 6} /\ SubSeq(s, 1, Len(s))[2] = SecondToken(i)
  BY <1>1, PrefixLengths
<1> HIDE DEF s
<1>3. Len(s) <= Len(q) /\ SubSeq(s, 1, Len(s)) = SubSeq(q, 1, Len(s)) /\ Len(q) \in Nat
  BY <1>1 DEF IsPrefix, s
<1>4. SubSeq(q, 1, Len(s))[2] = q[2]
  <2>1. CASE Len(s) = 2
    BY <1>3, <2>1
  <2>2. CASE Len(s) = 6
    BY <1>3, <2>2
  <2> QED BY <1>2, <2>1, <2>2
<1> QED BY <1>1, <1>2, <1>3, <1>4

\* Only the rules of /audio match one path together, and the longer comes first.
LEMMA FirstIsLongest ==
  ASSUME NEW q \in Seq(STRING), Matching(q) # {}
  PROVE  LongestKey(q) = Rules[FirstRule(q)].key
<1> DEFINE f == FirstRule(q)
           M == Matching(q)
<1>1. f \in M /\ \A j \in M : f <= j
  BY FirstMatching
<1>2. \A i \in M : i \in 1..10 /\ SecondToken(i) = SecondToken(f)
  BY <1>1, MatchingSecond
<1>3. \A i, j \in 1..10 : SecondToken(i) = SecondToken(j) => i = j \/ {i, j} = {2, 3}
  BY DEF Rules, SecondToken
<1> HIDE DEF f, M
<1>4. \A j \in M : j = f \/ (f = 2 /\ j = 3)
  <2> TAKE j \in M
  <2>1. j = f \/ {j, f} = {2, 3}
    BY <1>1, <1>2, <1>3
  <2> QED BY <1>1, <1>2, <2>1
<1>5. Len(Rules[2].prefix) = 6 /\ Len(Rules[3].prefix) = 2
  BY PrefixLengths
<1> DEFINE longest == CHOOSE i \in M : \A j \in M : Len(Rules[j].prefix) <= Len(Rules[i].prefix)
<1>6. \A i \in 1..10 : Len(Rules[i].prefix) \in Nat
  BY PrefixLengths
<1>7. \A i \in M : (\A j \in M : Len(Rules[j].prefix) <= Len(Rules[i].prefix)) <=> i = f
  <2> TAKE i \in M
  <2>1. CASE i = f
    <3>1. ASSUME NEW j \in M PROVE Len(Rules[j].prefix) <= Len(Rules[f].prefix)
      <4>1. CASE j = f
        BY <1>1, <1>2, <1>6, <4>1
      <4>2. CASE f = 2 /\ j = 3
        <5>1. Len(Rules[f].prefix) = 6 /\ Len(Rules[j].prefix) = 2
          BY <1>5, <4>2, Zenon
        <5> QED BY <5>1
      <4> QED BY <1>4, <4>1, <4>2
    <3> QED BY <2>1, <3>1
  <2>2. CASE i # f
    <3>1. f = 2 /\ i = 3 /\ f \in M
      BY <1>1, <1>4, <2>2
    <3>2. Len(Rules[f].prefix) = 6 /\ Len(Rules[i].prefix) = 2
      BY <1>5, <3>1, Zenon
    <3>3. ~(Len(Rules[f].prefix) <= Len(Rules[i].prefix))
      BY <3>2
    <3> QED BY <2>2, <3>1, <3>3
  <2> QED BY <2>1, <2>2
<1>8. longest = f
  BY <1>1, <1>7
<1>9. LongestKey(q) = IF M = {} THEN "dest" ELSE Rules[longest].key
  BY DEF LongestKey, M, Matching
<1> QED BY <1>1, <1>8, <1>9 DEF f

\* The path a request is routed by, when it has a slash.
Path(p) == FromSlash(AfterScheme(p))

LEMMA Smallest == ASSUME NEW S \in SUBSET Nat, S # {} PROVE Min(S) \in S
<1>1. \E x \in S : \A y \in S : <<y, x>> \notin OpToRel(<, Nat)
  BY WFMin, NatLessThanWellFounded
<1>2. ASSUME NEW x \in Nat, NEW y \in Nat, y < x PROVE <<y, x>> \in OpToRel(<, Nat)
  BY <1>2 DEF OpToRel
<1>3. \E x \in S : \A y \in S : ~ (y < x)
  BY <1>1, <1>2, Zenon
<1>4. \E x \in S : \A y \in S : x <= y
  BY <1>3
<1> QED BY <1>4 DEF Min

LEMMA PathIsSeq == ASSUME NEW p \in Seq(STRING) PROVE Path(p) \in Seq(STRING)
<1>1. ASSUME NEW s \in Seq(STRING), NEW i \in Nat, i > 0
      PROVE  SubSeq(s, i, Len(s)) \in Seq(STRING)
  BY <1>1, SubSeqProperties
<1>3. AfterScheme(p) \in Seq(STRING)
  <2>1. Len(p) \in Nat
    OBVIOUS
  <2>2. CASE Schemes(p) # {}
    <3>1. Schemes(p) \in SUBSET Nat
      BY <2>1 DEF Schemes
    <3>2. Min(Schemes(p)) \in Nat
      BY <2>2, <3>1, Smallest
    <3>3. Min(Schemes(p)) + 3 \in Nat /\ Min(Schemes(p)) + 3 > 0
      BY <2>1, <3>2
    <3> QED BY <1>1, <2>2, <3>3 DEF AfterScheme
  <2> QED BY <2>2 DEF AfterScheme
<1> DEFINE q == AfterScheme(p)
           I == {i \in 1..Len(q) : q[i] = "/"}
<1>4. SelectInSeq(q, LAMBDA t : t = "/") = IF I # {} THEN Min(I) ELSE 0
  BY DEF SelectInSeq
<1>5. Len(q) \in Nat /\ I \in SUBSET Nat /\ \A i \in I : i > 0
  BY <1>3
<1> HIDE DEF q, I
<1>6. CASE I # {}
  <2>1. Min(I) \in Nat /\ Min(I) > 0
    <3>1. Min(I) \in I
      BY <1>5, <1>6, Smallest
    <3> QED BY <1>5, <3>1
  <2>2. Path(p) = SubSeq(q, Min(I), Len(q))
    BY <1>4, <1>6, <2>1 DEF Path, FromSlash, q
  <2> QED BY <1>1, <1>3, <2>1, <2>2 DEF q
<1>7. CASE I = {}
  <2>1. Path(p) = <<>>
    BY <1>4, <1>7 DEF Path, FromSlash, q
  <2> QED BY <2>1, EmptySeq
<1> QED BY <1>6, <1>7

\* parse_proxy_port and http_request_dump take the same path to the same port.
LEMMA PortOfDumpedPath ==
  ASSUME NEW p \in Paths, NEW x \in [Keys -> Int], \A k \in PortKeys : x[k] > 0
  PROVE  ParseProxyPort(x, p) = x[LongestKey(DumpedPath(p))]
<1>1. Path(p) \in Seq(STRING)
  BY PathAssumption, PathIsSeq
<1>2. RouteKey(p) \in PortKeys /\ PortKeys \subseteq Keys
  BY RouteKeyIsKey DEF Keys
<1>3. ParseProxyPort(x, p) = x[RouteKey(p)]
  BY <1>2 DEF ParseProxyPort
<1>4. RouteKey(p) = IF FirstRule(Path(p)) = 0 THEN "dest" ELSE Rules[FirstRule(Path(p))].key
  BY DEF RouteKey, Path
<1>5. \A q : Matching(q) = {} => LongestKey(q) = "dest"
  BY DEF LongestKey, Matching
<1>6. \A q : Len(q) = 0 \/ Len(q) = 1 => Matching(q) = {}
  <2> TAKE q
  <2>1. \A i \in Matching(q) : i \in 1..10 /\ Len(Rules[i].prefix) <= Len(q)
    BY DEF Matching, IsPrefix, Rules
  <2>2. \A i \in 1..10 : Len(Rules[i].prefix) \in {2, 6}
    BY PrefixLengths
  <2>3. ASSUME NEW i \in Matching(q), Len(q) = 0 \/ Len(q) = 1 PROVE FALSE
    <3>1. Len(Rules[i].prefix) \in {2, 6} /\ Len(Rules[i].prefix) <= Len(q)
      BY <2>1, <2>2
    <3>2. Len(q) \in Int
      BY <2>3
    <3>3. \A m, n \in Int : m \in {2, 6} /\ m <= n => n # 0 /\ n # 1
      OBVIOUS
    <3>4. Len(Rules[i].prefix) \in Int
      BY <3>1
    <3> QED BY <2>3, <3>1, <3>2, <3>3, <3>4, Zenon
  <2> QED BY <2>3
<1>7. CASE Path(p) = <<>>
  <2>1. DumpedPath(p) = <<"/">>
    BY <1>7 DEF DumpedPath, Path
  <2>2. Matching(<<>>) = {} /\ Matching(<<"/">>) = {}
    <3>1. Len(<<>>) = 0 /\ Len(<<"/">>) = 1
      OBVIOUS
    <3> QED BY <1>6, <3>1
  <2>3. FirstRule(<<>>) = 0
    BY <2>2, FirstMatching
  <2> QED BY <1>3, <1>4, <1>5, <1>7, <2>1, <2>2, <2>3
<1>8. CASE Path(p) # <<>>
  <2>1. DumpedPath(p) = Path(p)
    BY <1>8 DEF DumpedPath, Path
  <2>2. CASE Matching(Path(p)) = {}
    <3>1. FirstRule(Path(p)) = 0 /\ LongestKey(Path(p)) = "dest"
      BY <1>5, <2>2, FirstMatching
    <3> QED BY <1>3, <1>4, <2>1, <3>1
  <2>3. CASE Matching(Path(p)) # {}
    <3>1. FirstRule(Path(p)) \in Matching(Path(p)) /\ LongestKey(Path(p)) = Rules[FirstRule(Path(p))].key
      BY <1>1, <2>3, FirstIsLongest, FirstMatching
    <3>2. FirstRule(Path(p)) # 0
      BY <1>1, <3>1, MatchingSecond
    <3> QED BY <1>3, <1>4, <2>1, <3>1, <3>2
  <2> QED BY <2>2, <2>3
<1> QED BY <1>7, <1>8

\* The configured ports are positive from the arguments on, and nothing is sent
\* before.
PortsSet == pc \in {"spawn", "listen", "accepting"} => \A k \in PortKeys : ctx[k] > 0
RoutedInv ==
  /\ PortsSet /\ RoutedByDumpedPath
  /\ routed # NotRouted => pc # "args"

LEMMA PortsOfArgs ==
  ASSUME ArgsConfile \/ ArgsPorts, NEW k \in PortKeys
  PROVE  ctx'[k] > 0
<1>1. k \in Keys /\ k # "thread_num" /\ DefaultPort[k] \in Nat /\ DefaultPort[k] > 0
  BY DEF PortKeys, Keys, DefaultPort
<1>2. \A n \in Int : PortOrDefault(k, n) > 0
  BY <1>1 DEF PortOrDefault
<1>3. CASE ArgsConfile
  <2>1. PICK ini \in Inis, ncpu \in NCpus : ctx' = ParseConfile(ini, ncpu)
    BY <1>3 DEF ArgsConfile
  <2>2. ini[k] \in Int
    BY <1>1, ConfigAssumption
  <2>3. ctx'[k] = PortOrDefault(k, ini[k])
    BY <1>1, <2>1 DEF ParseConfile
  <2> QED BY <1>2, <2>2, <2>3
<1>4. CASE ArgsPorts
  <2>1. PICK proxyd \in Ports, dest \in Ports, ncpu \in NCpus,
             threads \in {<<>>} \union {<<n>> : n \in Ports} :
          ctx' = ParsePorts(proxyd, dest, threads, ncpu)
    BY <1>4 DEF ArgsPorts
  <2>2. proxyd \in Int /\ dest \in Int
    BY ConfigAssumption
  <2>3. \/ k = "proxyd" /\ ctx'[k] = PortOrDefault(k, proxyd)
        \/ k = "dest" /\ ctx'[k] = PortOrDefault(k, dest)
        \/ ctx'[k] = DefaultPort[k]
    BY <1>1, <2>1 DEF ParsePorts
  <2> QED BY <1>1, <1>2, <2>2, <2>3
<1> QED BY <1>3, <1>4

\* The path a request's upstream sees is sent to the port of the longest rule it
\* starts with, for every configuration, number of arguments and path: the order of
\* the tests of parse_proxy_port.
THEOREM RoutesTheDumpedPath == Spec => []RoutedByDumpedPath
<1>1. Init => RoutedInv
  BY DEF Init, RoutedInv, PortsSet, RoutedByDumpedPath
<1>2. ASSUME IInv, RoutedInv, [Next]_vars PROVE RoutedInv'
  <2>1. CASE ArgsExit
    BY <1>2, <2>1 DEF ArgsExit, RoutedInv, PortsSet, RoutedByDumpedPath
  <2>2. CASE ArgsConfile \/ ArgsPorts
    <3>1. pc = "args" /\ pc' # "args" /\ routed = NotRouted /\ routed' = routed
      BY <1>2, <2>2 DEF ArgsConfile, ArgsPorts, RoutedInv
    <3>2. PortsSet'
      BY <2>2, PortsOfArgs DEF PortsSet
    <3> QED BY <3>1, <3>2 DEF RoutedInv, RoutedByDumpedPath
  <2>3. CASE SpawnWorker \/ SpawnDone \/ Listen \/ OnAccept \/ OnAcceptCrashes
             \/ (\E w \in Workers : Worker(w)) \/ UNCHANGED vars
    <3>1. /\ UNCHANGED <<ctx, routed>> /\ (pc' = "args" => pc = "args")
          /\ pc' \in {"spawn", "listen", "accepting"} => pc \in {"spawn", "listen", "accepting"}
      BY <2>3 DEF SpawnWorker, SpawnDone, Listen, OnAccept, OnAcceptCrashes, Worker,
                  WorkerThread, NewConnEvent, vars
    <3> QED BY <1>2, <3>1 DEF RoutedInv, PortsSet, RoutedByDumpedPath
  <2>4. ASSUME NEW w \in Workers, NEW p \in Paths, OnHeadEnd(w, p) PROVE RoutedInv'
    <3>1. /\ pc \in {"spawn", "listen", "accepting"} /\ pc' = pc /\ ctx' = ctx
          /\ adopted[w] # <<>>
          /\ routed' = [url |-> p, port |-> ParseProxyPort(ctx, p), path |-> DumpedPath(p)]
      <4>1. pc # "args"
        <5>1. adopted[w] # <<>> /\ adopted[w] \in Seq(Nat) /\ posted[w] \in Seq(Nat)
          BY <1>2, <2>4 DEF OnHeadEnd, IInv, TypeOK
        <5>2. Dealt(w) # <<>>
          BY <5>1, ConcatEqualIffEmpty DEF Dealt
        <5> QED BY <1>2, <5>2 DEF IInv, MadeInv, Early
      <4> QED BY <1>2, <2>4, <4>1 DEF OnHeadEnd, Alive, IInv, TypeOK, PcStates
    <3>2. ctx \in [Keys -> Int] /\ \A k \in PortKeys : ctx[k] > 0
      BY <1>2, <3>1 DEF IInv, TypeOK, RoutedInv, PortsSet
    <3>3. ParseProxyPort(ctx, p) = ctx[LongestKey(DumpedPath(p))]
      BY <3>2, PortOfDumpedPath
    <3>4. RoutedByDumpedPath'
      BY <3>1, <3>3 DEF RoutedByDumpedPath
    <3> QED BY <3>1, <3>2, <3>4 DEF RoutedInv, PortsSet
  <2> QED BY <1>2, <2>1, <2>2, <2>3, <2>4 DEF Next, Main
<1>3. RoutedInv => RoutedByDumpedPath
  BY DEF RoutedInv
<1> QED BY <1>1, <1>2, <1>3, Invariance, PTL DEF Spec

-----------------------------------------------------------------------------
(* Dispatch implements Dealer.                                             *)

\* A later round begins after the one before has ended.
LEMMA RoundsApart ==
  ASSUME NEW n \in Nat, NEW a \in Nat, NEW b \in Nat, a < b
  PROVE  a * n + n <= b * n /\ a * n \in Nat /\ b * n \in Nat
<1>1. b - a - 1 \in Nat /\ b = a + 1 + (b - a - 1) OBVIOUS
<1> DEFINE k == b - a - 1
<1>2. k * n \in Nat /\ a * n \in Nat BY <1>1
<1>3. (a + 1 + k) * n = a * n + n + k * n BY <1>1
<1> HIDE DEF k
<1>4. k \in Nat /\ b = a + 1 + k BY <1>1 DEF k
<1> QED BY <1>2, <1>3, <1>4

\* A number has one place in one round.
LEMMA RoundAndPlace ==
  ASSUME NEW n \in Nat, NEW a \in Nat, NEW b \in Nat, NEW x \in Nat, NEW y \in Nat,
         x < n, y < n, a * n + x + 1 = b * n + y + 1
  PROVE  a = b /\ x = y
<1>1. ASSUME NEW k \in Nat, NEW l \in Nat, k < l, NEW v \in Nat, NEW z \in Nat, v < n
      PROVE  k * n + v + 1 # l * n + z + 1
  <2>1. k * n + n <= l * n /\ k * n \in Nat /\ l * n \in Nat BY <1>1, RoundsApart
  <2> DEFINE kn == k * n
             ln == l * n
  <2> HIDE DEF kn, ln
  <2>2. kn + n <= ln /\ kn \in Nat /\ ln \in Nat BY <2>1 DEF kn, ln
  <2>3. kn + v + 1 # ln + z + 1 BY <1>1, <2>2
  <2> QED BY <2>3 DEF kn, ln
<1>2. a = b BY <1>1
<1> DEFINE an == a * n
<1> HIDE DEF an
<1>3. an \in Int /\ an + x + 1 = an + y + 1 BY <1>2 DEF an
<1>4. x = y BY <1>3
<1> QED BY <1>2, <1>4

\* Loops that were dealt something are those of main, which accepts.
LEMMA DealtTo ==
  ASSUME IInv, NEW w \in Workers, NEW i \in 1..Len(Dealt(w))
  PROVE  /\ pc = "accepting" /\ N \in Nat /\ N > 0 /\ w \in Nat /\ w < N /\ i \in Nat \ {0}
         /\ Dealt(w) \in Seq(Nat) /\ Dealt(w)[i] = (i - 1) * N + w + 1
<1>1. Dealt(w) \in Seq(Nat) /\ i \in Nat \ {0} /\ Len(Dealt(w)) # 0
  BY ConcatProperties DEF IInv, TypeOK, Dealt
<1>2. Dealt(w) # <<>> BY <1>1
<1>3. N \in Int BY DEF IInv, TypeOK, N, Keys
<1>4. pc = "accepting" /\ N > 0
  BY <1>2, <1>3 DEF IInv, TypeOK, PcStates, MadeInv, Early
<1>5. w \in Nat /\ w < N
  BY <1>2, <1>3, <1>4, BoundAssumption DEF IInv, RoundInv, InRound, Workers
<1>6. Dealt(w)[i] = (i - 1) * N + w + 1 BY DEF IInv, RoundRobin, N
<1> QED BY <1>1, <1>3, <1>4, <1>5, <1>6

\* Of two places in the same loop the later one has the later connection.
LEMMA DealtLater ==
  ASSUME IInv, NEW w \in Workers, NEW i \in 1..Len(Dealt(w)), NEW j \in 1..Len(Dealt(w)), i < j
  PROVE  Dealt(w)[i] < Dealt(w)[j]
<1>1. /\ N \in Nat /\ N > 0 /\ w \in Nat /\ i \in Nat \ {0} /\ j \in Nat \ {0}
      /\ Dealt(w)[i] = (i - 1) * N + w + 1 /\ Dealt(w)[j] = (j - 1) * N + w + 1
  BY DealtTo
<1>2. i - 1 \in Nat /\ j - 1 \in Nat /\ i - 1 < j - 1 BY <1>1
<1>3. (i - 1) * N + N <= (j - 1) * N /\ (i - 1) * N \in Nat /\ (j - 1) * N \in Nat
  BY <1>1, <1>2, RoundsApart
<1> QED BY <1>1, <1>3

\* A connection has one place in one loop.
LEMMA DealtOnce ==
  ASSUME IInv, NEW w \in Workers, NEW v \in Workers,
         NEW i \in 1..Len(Dealt(w)), NEW j \in 1..Len(Dealt(v)), Dealt(w)[i] = Dealt(v)[j]
  PROVE  w = v /\ i = j
<1>1. /\ N \in Nat /\ N > 0 /\ w \in Nat /\ w < N /\ v \in Nat /\ v < N
      /\ i \in Nat \ {0} /\ j \in Nat \ {0}
      /\ Dealt(w)[i] = (i - 1) * N + w + 1 /\ Dealt(v)[j] = (j - 1) * N + v + 1
  BY DealtTo
<1>2. i - 1 \in Nat /\ j - 1 \in Nat BY <1>1
<1>3. (i - 1) * N + w + 1 = (j - 1) * N + v + 1 BY <1>1
<1>4. i - 1 = j - 1 /\ w = v BY <1>1, <1>2, <1>3, RoundAndPlace
<1> QED BY <1>1, <1>4

\* A connection that was dealt was accepted.
LEMMA DealtAccepted ==
  ASSUME IInv, NEW w \in Workers, NEW i \in 1..Len(Dealt(w))
  PROVE  Dealt(w)[i] \in 1..naccept
<1>1. /\ pc = "accepting" /\ N \in Nat /\ N > 0 /\ w \in Nat /\ w < N /\ i \in Nat \ {0}
      /\ Dealt(w)[i] = (i - 1) * N + w + 1
  BY DealtTo
<1>2. PICK r \in Nat : InRound(r) BY <1>1 DEF IInv, RoundInv
<1>3. cur \in Nat /\ cur <= N /\ naccept = r * N + cur /\ r * N \in Nat
      /\ Len(Dealt(w)) = IF w < cur THEN r + 1 ELSE r
  BY <1>1, <1>2, BoundAssumption DEF IInv, RoundInv, InRound, TypeOK
<1>4. i - 1 \in Nat /\ i - 1 <= r /\ (w < cur \/ i - 1 < r) BY <1>1, <1>3
<1>5. CASE i - 1 = r BY <1>1, <1>3, <1>4, <1>5
<1>6. CASE i - 1 < r
  <2>1. (i - 1) * N + N <= r * N /\ (i - 1) * N \in Nat BY <1>1, <1>4, <1>6, RoundsApart
  <2> QED BY <1>1, <1>3, <2>1
<1> QED BY <1>4, <1>5, <1>6

\* What a loop has adopted is the beginning of what it was dealt.
LEMMA AdoptedFirst ==
  ASSUME IInv, NEW w \in Workers
  PROVE  /\ adopted[w] \in Seq(Nat) /\ posted[w] \in Seq(Nat)
         /\ Len(Dealt(w)) = Len(adopted[w]) + Len(posted[w])
         /\ \A i \in 1..Len(adopted[w]) : i \in 1..Len(Dealt(w)) /\ Dealt(w)[i] = adopted[w][i]
         /\ posted[w] # <<>> =>
              /\ Len(adopted[w]) + 1 \in 1..Len(Dealt(w))
              /\ Dealt(w)[Len(adopted[w]) + 1] = Head(posted[w])
<1>1. adopted[w] \in Seq(Nat) /\ posted[w] \in Seq(Nat) BY DEF IInv, TypeOK
<1>2. /\ Len(Dealt(w)) = Len(adopted[w]) + Len(posted[w])
      /\ \A i \in 1..Len(Dealt(w)) :
           Dealt(w)[i] = IF i <= Len(adopted[w]) THEN adopted[w][i]
                         ELSE posted[w][i - Len(adopted[w])]
  BY <1>1, ConcatProperties DEF Dealt
<1>3. Len(adopted[w]) \in Nat /\ Len(posted[w]) \in Nat BY <1>1
<1>4. posted[w] # <<>> => Len(posted[w]) > 0 /\ Head(posted[w]) = posted[w][1]
  BY <1>1, <1>3, EmptySeq, HeadTailProperties
<1> DEFINE a == Len(adopted[w])
           n == a + 1
<1>5. \A i \in 1..a : i \in 1..Len(Dealt(w)) /\ i <= a
  <2> HIDE DEF a
  <2>1. a \in Nat /\ Len(posted[w]) \in Nat /\ Len(Dealt(w)) = a + Len(posted[w])
    BY <1>2, <1>3 DEF a
  <2> QED BY ONLY <2>1
<1>6. ASSUME posted[w] # <<>> PROVE n \in 1..Len(Dealt(w)) /\ Dealt(w)[n] = Head(posted[w])
  <2> HIDE DEF a
  <2>1. a \in Nat /\ Len(posted[w]) \in Nat \ {0} /\ Len(Dealt(w)) = a + Len(posted[w])
    BY <1>2, <1>3, <1>4, <1>6 DEF a
  <2>2. n \in 1..Len(Dealt(w)) /\ ~(n <= a) /\ n - a = 1 BY ONLY <2>1
  <2> HIDE DEF n
  <2>3. Dealt(w)[n] = posted[w][n - a] BY <1>2, <2>2 DEF a
  <2> QED BY <1>4, <1>6, <2>2, <2>3
<1> QED BY <1>1, <1>2, <1>5, <1>6

\* new_conn_event takes a connection as Dealer says.
LEMMA TakeStep ==
  ASSUME IInv, NEW w \in Workers, NewConnEvent(w)
  PROVE  \E c \in 1..naccept : Deal!Take(w, c)
<1> DEFINE n == Len(adopted[w]) + 1
           c == Head(posted[w])
<1>0. adopted[w] \in Seq(Nat) /\ posted[w] # <<>> BY AdoptedFirst DEF NewConnEvent
<1>1. n \in 1..Len(Dealt(w)) /\ Dealt(w)[n] = c BY <1>0, AdoptedFirst
<1>2. c \in 1..naccept BY <1>1, DealtAccepted
<1>3. \A v \in Workers : c \notin Deal!TakenBy(v)
  <2> SUFFICES ASSUME NEW v \in Workers, NEW i \in 1..Len(adopted[v]), adopted[v][i] = c
               PROVE  FALSE
    BY DEF Deal!TakenBy
  <2>1. i \in 1..Len(Dealt(v)) /\ Dealt(v)[i] = c BY AdoptedFirst
  <2>2. v = w /\ i = n BY <1>1, <2>1, DealtOnce
  <2> QED BY <1>0, <2>2
<1>4. \A d \in Deal!TakenBy(w) : d < c
  <2> SUFFICES ASSUME NEW i \in 1..Len(adopted[w]) PROVE adopted[w][i] < c
    BY DEF Deal!TakenBy
  <2>1. i < n BY <1>0
  <2>2. i \in 1..Len(Dealt(w)) /\ Dealt(w)[i] = adopted[w][i] BY AdoptedFirst
  <2> QED BY <1>1, <2>1, <2>2, DealtLater
<1>5. adopted' = [adopted EXCEPT ![w] = Append(adopted[w], c)] /\ UNCHANGED naccept
  BY DEF NewConnEvent
<1> QED BY <1>2, <1>3, <1>4, <1>5 DEF Deal!Take

\* The event queues between the accept loop and the worker loops implement Dealer:
\* each accepted connection is adopted by one loop, once, and in order.
THEOREM DealKept == Spec => DealsEachOnce
<1>1. Init => Deal!Init BY DEF Init, Deal!Init
<1>2. IInv /\ [Next]_vars => [Deal!Next]_(Deal!vars)
  <2> SUFFICES ASSUME IInv, [Next]_vars PROVE Deal!Next \/ UNCHANGED Deal!vars OBVIOUS
  <2>1. ASSUME NEW w \in Workers, NewConnEvent(w) PROVE Deal!Next
    BY <2>1, TakeStep DEF Deal!Next
  <2>2. CASE OnAccept BY <2>2 DEF OnAccept, Deal!Next, Deal!Accept
  <2>3. CASE UNCHANGED <<naccept, adopted>> BY <2>3 DEF Deal!vars
  <2> QED BY <2>1, <2>2, <2>3
          DEF Next, vars, loopVars, Main, ArgsExit, ArgsConfile, ArgsPorts, SpawnWorker, SpawnDone,
              Listen, OnAcceptCrashes, Worker, WorkerThread, OnHeadEnd
<1> QED BY <1>1, <1>2, Invariance, PTL DEF Spec, DealsEachOnce, Deal!Spec

=============================================================================
